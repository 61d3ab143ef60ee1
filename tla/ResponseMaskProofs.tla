------------------------- MODULE ResponseMaskProofs -------------------------
(***************************************************************************)
(* For all lengths that satisfy the assumptions, the trainer never raises   *)
(* on a prompt of the agent's, and the last reply of a rollout is masked    *)
(* whole, with the reward on its last token.  The agent shows the newest    *)
(* replies and observations and all the rest, and while it shows the whole  *)
(* chat, the mask has a column for each token of a reply.  Places are       *)
(* counts: a token's place in the prompt is the number of tokens before it. *)
(***************************************************************************)
EXTENDS ResponseMask, FiniteSetTheorems, TLAPS

-----------------------------------------------------------------------------
(* Sequences. *)

\* A function on 1 .. n is a sequence of its values.
LEMMA ValuesSequence ==
  ASSUME NEW n \in Nat, NEW s, DOMAIN s = 1 .. n, s = [k \in 1 .. n |-> s[k]]
  PROVE  IsSequence(s) /\ Len(s) = n
  BY DEF IsSequence

\* Any sequence is a sequence of its values.
LEMMA SequenceOfValues ==
  ASSUME NEW S, NEW s \in Seq(S)
  PROVE  IsSequence(s)
<1>1. Len(s) \in Nat /\ DOMAIN s = 1 .. Len(s) /\ s = [k \in 1 .. Len(s) |-> s[k]]
  OBVIOUS
<1> QED
  BY <1>1, ValuesSequence

\* An upper bound on what get_eos_mask attends to (torch_functional.py:139).
LEMMA AttendedBound ==
  ASSUME NEW len \in Nat
  PROVE  Attended(len) \in 0 .. MaxReply
<1> DEFINE before == {c \in 0 .. MaxReply - 1 : \A d \in 0 .. c - 1 : d < len}
<1>1. MaxReply \in Nat
  BY LengthAssumption
<1>2. IsFiniteSet(0 .. MaxReply - 1) /\ Cardinality(0 .. MaxReply - 1) = MaxReply
  BY <1>1, FS_Interval
<1>3. before \in SUBSET (0 .. MaxReply - 1)
  OBVIOUS
<1>4. Cardinality(before) <= MaxReply /\ IsFiniteSet(before)
  BY <1>2, <1>3, FS_Subset
<1>5. Cardinality(before) \in Nat
  BY <1>4, FS_CardinalityType
<1> QED
  BY <1>1, <1>4, <1>5 DEF Attended

\* A sampled reply has at least one column.
LEMMA AttendedPositive ==
  ASSUME NEW len \in ReplyLens
  PROVE  Attended(len) > 0
<1> DEFINE before == {c \in 0 .. MaxReply - 1 : \A d \in 0 .. c - 1 : d < len}
<1>1. MaxReply \in Nat /\ len \in 1 .. MaxReply
  BY LengthAssumption
<1>2. IsFiniteSet(before)
  <2>1. IsFiniteSet(0 .. MaxReply - 1)
    BY <1>1, FS_Interval
  <2>2. before \in SUBSET (0 .. MaxReply - 1)
    OBVIOUS
  <2> QED
    BY <2>1, <2>2, FS_Subset
<1>3. 0 \in before
  BY <1>1
<1>4. Cardinality(before) # 0
  BY <1>2, <1>3, FS_EmptySet
<1>5. Attended(len) \in Nat
  BY <1>1, AttendedBound
<1> QED
  BY <1>4, <1>5 DEF Attended

\* What _truncate_chat_chain shows is a sequence.
LEMMA ShownSequence ==
  ASSUME NEW msgs \in Seq(Messages), NEW resp, NEW obs
  PROVE  IsSequence(Shown(msgs, resp, obs)) /\ Len(Shown(msgs, resp, obs)) \in Nat
<1> DEFINE gone == Dropped(resp, ResponsesToKeep) \cup Dropped(obs, ObservationsToKeep)
           kept == {k \in DOMAIN msgs : k - 1 \notin gone}
           s == Shown(msgs, resp, obs)
           n == Cardinality(kept)
<1>1. IsFiniteSet(DOMAIN msgs) /\ kept \in SUBSET DOMAIN msgs
  BY FS_Interval, Len(msgs) \in Nat, DOMAIN msgs = 1 .. Len(msgs)
<1>2. n \in Nat
  BY <1>1, FS_Subset, FS_CardinalityType
<1>3. DOMAIN s = 1 .. n /\ s = [k \in 1 .. n |-> s[k]]
  BY DEF Shown
<1> QED
  BY <1>2, <1>3, ValuesSequence

\* ChatChain.__str__ yields a sequence of tokens.
LEMMA RenderedSequence ==
  ASSUME NEW msgs, Len(msgs) \in Nat
  PROVE  IsSequence(Rendered(msgs)) /\ Len(Rendered(msgs)) \in Nat
<1> DEFINE n == Cardinality(Tokens(msgs))
           s == Rendered(msgs)
           all == (1 .. Len(msgs)) \X (1 .. HeaderLen + LongestMessage)
<1>1. HeaderLen + LongestMessage \in Nat
  BY LengthAssumption
<1>2. IsFiniteSet(1 .. Len(msgs)) /\ IsFiniteSet(1 .. HeaderLen + LongestMessage)
  BY <1>1, FS_Interval
<1>3. IsFiniteSet(all)
  BY <1>2, FS_Product
<1>4. Tokens(msgs) \in SUBSET all
  BY DEF Tokens
<1>5. n \in Nat
  BY <1>3, <1>4, FS_Subset, FS_CardinalityType
<1>6. DOMAIN s = 1 .. n /\ s = [k \in 1 .. n |-> s[k]]
  BY DEF Rendered
<1> QED
  BY <1>5, <1>6, ValuesSequence

\* _truncate_input_to_max_tokens leaves the buffer free.
LEMMA TruncatedFits ==
  ASSUME NEW t, IsSequence(t), Len(t) \in Nat
  PROVE  /\ IsSequence(Truncated(t))
         /\ Len(Truncated(t)) \in Nat
         /\ Len(Truncated(t)) + Buffer <= MaxPromptLength
<1> DEFINE half == TokensToKeep \div 2
           end == SubSeq(t, Len(t) - half + 1, Len(t))
           s == SubSeq(t, 1, half) \o Zeros(AlertLen) \o end
           S == {t[k] : k \in DOMAIN t} \cup {0}
<1>1. AlertLen \in Nat /\ Buffer \in Nat /\ MaxPromptLength \in Nat /\ TokensToKeep \in Nat
  BY LengthAssumption, BufferAssumption DEF TokensToKeep
<1>2. TokensToKeep + AlertLen + Buffer = MaxPromptLength
  BY <1>1 DEF TokensToKeep
<1>3. half \in Nat /\ half + half <= TokensToKeep
  BY <1>1
<1>4. CASE Len(t) >= TokensToKeep
  <2>1. t \in Seq(S)
    BY DEF IsSequence
  <2>2. half <= Len(t)
    BY <1>1, <1>3, <1>4
  <2>3. SubSeq(t, 1, half) \in Seq(S) /\ Len(SubSeq(t, 1, half)) = half
    BY <1>3, <2>1, <2>2
  <2>4. end \in Seq(S) /\ Len(end) = half
    BY <1>3, <2>1, <2>2
  <2>5. Zeros(AlertLen) \in Seq(S) /\ Len(Zeros(AlertLen)) = AlertLen
    BY <1>1 DEF Zeros
  <2>6. s \in Seq(S) /\ Len(s) = half + AlertLen + half
    <3> HIDE DEF half, S, end
    <3> DEFINE a == SubSeq(t, 1, half)
               z == Zeros(AlertLen)
    <3>1. a \o z \in Seq(S) /\ Len(a \o z) = half + AlertLen
      BY <1>1, <1>3, <2>3, <2>5
    <3>2. (a \o z) \o end \in Seq(S) /\ Len((a \o z) \o end) = half + AlertLen + half
      <4> HIDE DEF a, z
      <4> QED BY <1>1, <1>3, <2>4, <3>1
    <3>3. (a \o z) \o end = s
      BY Zenon
    <3> QED
      BY <3>2, <3>3
  <2>7. Truncated(t) = s
    BY <1>4 DEF Truncated
  <2>8. IsSequence(s)
    BY <2>6, SequenceOfValues
  <2> QED
    BY <1>1, <1>2, <1>3, <2>6, <2>7, <2>8
<1>5. CASE ~(Len(t) >= TokensToKeep)
  <2>1. Truncated(t) = t
    BY <1>5 DEF Truncated
  <2> QED
    BY <1>1, <1>2, <1>5, <2>1
<1> QED
  BY <1>4, <1>5

\* The chat template adds its two parts.
LEMMA TemplatedLength ==
  ASSUME NEW t, IsSequence(t), Len(t) \in Nat
  PROVE  Len(Templated(t)) = PrefixLen + Len(t) + SuffixLen
<1> DEFINE S == {t[k] : k \in DOMAIN t} \cup {0}
<1>1. t \in Seq(S)
  BY DEF IsSequence
<1>2. PrefixLen \in Nat /\ SuffixLen \in Nat
  BY LengthAssumption
<1>3. Zeros(PrefixLen) \in Seq(S) /\ Len(Zeros(PrefixLen)) = PrefixLen
  BY <1>2 DEF Zeros
<1>4. Zeros(SuffixLen) \in Seq(S) /\ Len(Zeros(SuffixLen)) = SuffixLen
  BY <1>2 DEF Zeros
<1> QED
  BY <1>1, <1>2, <1>3, <1>4 DEF Templated

-----------------------------------------------------------------------------
(* The invariant. *)

\* The messages of the code are messages.
LEMMA MessageTypes ==
  /\ Message("system", 0, TaskLen) \in Messages
  /\ Message("system", 0, HintLen) \in Messages
  /\ \A len \in ObservationLens : Message("assistant", 0, len) \in Messages
  /\ \A len \in ReplyLens, t \in 0 .. MaxIter - 1 :
       Message("agent", t + 1, Attended(len)) \in Messages
<1>1. /\ TaskLen \in 0 .. LongestMessage /\ HintLen \in 0 .. LongestMessage
      /\ \A len \in ObservationLens : len \in 0 .. LongestMessage
      /\ MaxReply \in 0 .. LongestMessage
      /\ MaxIter \in Nat
  BY LengthAssumption, TurnAssumption
<1>2. \A len \in ReplyLens : Attended(len) \in 0 .. LongestMessage
  <2> SUFFICES ASSUME NEW len \in ReplyLens PROVE Attended(len) \in 0 .. LongestMessage
    OBVIOUS
  <2>1. len \in Nat
    BY LengthAssumption
  <2>2. Attended(len) \in 0 .. MaxReply
    BY <2>1, AttendedBound
  <2> QED
    BY <1>1, <2>2, LengthAssumption
<1> QED
  BY <1>1, <1>2 DEF Message, Messages

\* The prompt file after _truncate_input_to_max_tokens.
LEMMA TextFits ==
  ASSUME NEW msgs, Len(msgs) \in Nat
  PROVE  /\ IsSequence(Truncated(Rendered(msgs)))
         /\ Len(Truncated(Rendered(msgs))) + Buffer <= MaxPromptLength
  BY RenderedSequence, TruncatedFits

LEMMA InitInv == Init => IInv
<1> SUFFICES ASSUME Init PROVE IInv
  OBVIOUS
<1>1. Message("system", 0, TaskLen) \in Messages
  BY MessageTypes
<1>2. chain \in Seq(Messages) /\ Len(chain) = 1
  BY <1>1 DEF Init
<1>3. IsSequence(text) /\ Len(text) + Buffer <= MaxPromptLength
  BY <1>2, TextFits DEF Init
<1>4. turn \in 0 .. MaxIter - 1 /\ MaxPromptLength \in Nat
  BY TurnAssumption, LengthAssumption DEF Init
<1> QED
  BY <1>2, <1>3, <1>4 DEF Init, IInv, LastReplyMasked

\* The chain after a turn, in every way a turn can end.
LEMMA TurnChain ==
  ASSUME IInv, pc = "listen"
  PROVE  /\ Replied \in Seq(Messages)
         /\ \A len \in ObservationLens :
              Append(Replied, Message("assistant", 0, len)) \in Seq(Messages)
<1>1. sampled \in ReplyLens /\ chain \in Seq(Messages) /\ turn \in 0 .. MaxIter - 1
  BY DEF IInv
<1>2. Replied \in Seq(Messages)
  BY <1>1, MessageTypes DEF Replied
<1> QED
  BY <1>2, MessageTypes

\* The end of a turn, whatever it appended.
LEMMA TurnEnds ==
  ASSUME IInv, pc = "listen", NEW msgs \in Seq(Messages),
         WriteInFile(msgs) \/ NoMoreTurns(msgs), UNCHANGED rollout
  PROVE  IInv'
<1>1. CASE WriteInFile(msgs)
  <2>1. chain' \in Seq(Messages)
    BY <1>1, MessageTypes DEF WriteInFile
  <2>2. Len(shown') \in Nat
    BY <1>1, <2>1, ShownSequence DEF WriteInFile
  <2>3. IsSequence(text') /\ Len(text') + Buffer <= MaxPromptLength
    BY <1>1, <2>2, TextFits DEF WriteInFile
  <2>4. turn' \in 0 .. MaxIter - 1 /\ pc' = "tokenize"
    BY <1>1, TurnAssumption DEF WriteInFile, IInv
  <2> QED
    BY <2>1, <2>3, <2>4 DEF IInv, IsSequence, LastReplyMasked, rollout
<1>2. CASE NoMoreTurns(msgs)
  BY <1>2 DEF NoMoreTurns, IInv, IsSequence, LastReplyMasked, rollout
<1> QED
  BY <1>1, <1>2

\* The mask holds the last span: the padding of the last prompt puts it at the
\* first column of the response (rollout_manager.py:83).
LEMMA MaskCovers ==
  ASSUME IInv, Mask
  PROVE  LastReplyMasked'
<1> DEFINE n == Attended(sampled)
           end == MaxPromptLength + MaxReply - 1
<1>1. sampled \in ReplyLens /\ MaxPromptLength \in Nat /\ MaxReply \in Nat
      /\ Len(prompt) \in 0 .. MaxPromptLength
  BY LengthAssumption DEF IInv, Mask
<1>2. n \in 1 .. MaxReply
  <2>1. sampled \in Nat
    BY <1>1, LengthAssumption
  <2>2. n \in 0 .. MaxReply
    BY <2>1, AttendedBound
  <2>3. n > 0
    BY <1>1, AttendedPositive
  <2> QED
    BY <1>1, <2>2, <2>3
<1>3. Len(spans) \in DOMAIN spans /\ spans[Len(spans)] = <<Len(prompt), Len(prompt) + n>>
  BY DEF IInv, Mask
<1>4. \A c \in MaxPromptLength .. MaxPromptLength + n - 1 : c \in mask'
  <2> SUFFICES ASSUME NEW c \in MaxPromptLength .. MaxPromptLength + n - 1
               PROVE  c \in mask'
    OBVIOUS
  <2>1. c \in 0 .. end
    BY <1>1, <1>2
  <2>2. /\ spans[Len(spans)][1] + (MaxPromptLength - Len(prompt)) <= c
        /\ c < spans[Len(spans)][2] + (MaxPromptLength - Len(prompt))
    BY <1>1, <1>2, <1>3
  <2> HIDE DEF n
  <2> QED
    BY <1>3, <2>1, <2>2 DEF Mask
<1>5. sampled' = sampled
  BY DEF Mask
<1>6. MaxPromptLength + n - 1 \in MaxPromptLength .. MaxPromptLength + n - 1
  BY <1>1, <1>2
<1> QED
  BY <1>4, <1>5, <1>6 DEF LastReplyMasked, RewardColumn

LEMMA NextInv == IInv /\ [Next]_vars => IInv'
<1> SUFFICES ASSUME IInv, [Next]_vars PROVE IInv'
  OBVIOUS
<1>1. CASE Tokenize
  <2>1. Len(text) \in Nat /\ {PrefixLen, SuffixLen, Buffer, MaxPromptLength} \subseteq Nat
    BY LengthAssumption DEF IInv, IsSequence
  <2>2. Len(prompt') = PrefixLen + Len(text) + SuffixLen
    BY <1>1, <2>1, TemplatedLength DEF Tokenize, IInv
  <2>3. Len(prompt') \in 0 .. MaxPromptLength
    BY <2>1, <2>2, BufferAssumption DEF IInv
  <2>4. pc' = "generate"
    BY <1>1, <2>1, <2>3 DEF Tokenize
  <2> QED
    BY <1>1, <2>3, <2>4 DEF IInv, Tokenize, chat, IsSequence, LastReplyMasked
<1>2. CASE Generate
  <2>1. PICK len \in ReplyLens : /\ sampled' = len
                                 /\ spans' = Append(spans, <<Len(prompt), Len(prompt) + Attended(len)>>)
    BY <1>2 DEF Generate
  <2>2. Attended(len) \in Nat /\ Len(prompt) \in Nat
    BY LengthAssumption, AttendedBound DEF IInv
  <2>3. /\ spans' \in Seq(Nat \X Nat)
        /\ spans' # << >>
        /\ spans'[Len(spans')] = <<Len(prompt), Len(prompt) + Attended(len)>>
    BY <2>1, <2>2 DEF IInv
  <2>4. UNCHANGED <<chain, text, prompt, turn>> /\ pc' = "listen"
    BY <1>2 DEF Generate, chat
  <2> QED
    BY <2>1, <2>3, <2>4 DEF IInv, IsSequence, LastReplyMasked
<1>3. CASE Stop
  <2>1. Replied \in Seq(Messages)
    BY <1>3, TurnChain DEF Stop
  <2> QED
    BY <1>3, <2>1 DEF Stop, IInv, rollout, IsSequence, LastReplyMasked
<1>4. CASE Observe
  <2>1. PICK len \in ObservationLens :
          \/ WriteInFile(Append(Replied, Message("assistant", 0, len)))
          \/ NoMoreTurns(Append(Replied, Message("assistant", 0, len)))
    BY <1>4 DEF Observe
  <2>2. pc = "listen" /\ UNCHANGED rollout
    BY <1>4 DEF Observe
  <2>3. Append(Replied, Message("assistant", 0, len)) \in Seq(Messages)
    BY <2>2, TurnChain
  <2> QED
    BY <2>1, <2>2, <2>3, TurnEnds
<1>5. CASE Prompt
  <2>1. pc = "listen" /\ UNCHANGED rollout /\ (WriteInFile(Replied) \/ NoMoreTurns(Replied))
    BY <1>5 DEF Prompt
  <2>2. Replied \in Seq(Messages)
    BY <2>1, TurnChain
  <2> QED
    BY <2>1, <2>2, TurnEnds
<1>6. CASE Mask
  <2>1. LastReplyMasked'
    BY <1>6, MaskCovers
  <2> QED
    BY <1>6, <2>1 DEF Mask, IInv, chat, IsSequence
<1>7. CASE UNCHANGED vars
  BY <1>7 DEF vars, chat, rollout, IInv, IsSequence, LastReplyMasked, RewardColumn
<1> QED
  BY <1>1, <1>2, <1>3, <1>4, <1>5, <1>6, <1>7 DEF Next, Done

\* The invariant holds in every rollout.
THEOREM MaskInvariance == Spec => []IInv
<1> QED
  BY InitInv, NextInv, PTL DEF Spec

\* Whatever the agent shows, what it truncates fits: the trainer's tokenizer
\* never raises on a prompt file (torch_functional.py:265).
THEOREM NeverTooLong == Spec => []PromptFits
<1>1. IInv => PromptFits
  BY DEF IInv, PromptFits
<1> QED
  BY <1>1, MaskInvariance, PTL

\* The last reply is masked whole and carries the reward (rollout_manager.py:83,
\* main_ppo.py:89).
THEOREM RewardIsMasked == Spec => []LastReplyMasked
<1>1. IInv => LastReplyMasked
  BY DEF IInv
<1> QED
  BY <1>1, MaskInvariance, PTL

-----------------------------------------------------------------------------
(* Ranks. *)

\* Elements that are ordered are told apart by how many are before them.
LEMMA Ranks ==
  ASSUME NEW S, IsFiniteSet(S), NEW R,
         \A x \in S : <<x, x>> \notin R,
         \A x, y, z \in S : <<x, y>> \in R /\ <<y, z>> \in R => <<x, z>> \in R,
         \A x, y \in S : x = y \/ <<x, y>> \in R \/ <<y, x>> \in R
  PROVE  [x \in S |-> Cardinality({y \in S : <<y, x>> \in R})]
           \in Bijection(S, 0 .. Cardinality(S) - 1)
<1> DEFINE below(x) == {y \in S : <<y, x>> \in R}
           rank == [x \in S |-> Cardinality(below(x))]
           N == Cardinality(S)
<1>1. N \in Nat
  BY FS_CardinalityType
<1>2. ASSUME NEW x \in S
      PROVE  IsFiniteSet(below(x)) /\ Cardinality(below(x)) \in 0 .. N - 1
  <2>1. below(x) \in SUBSET S /\ below(x) # S
    OBVIOUS
  <2>2. IsFiniteSet(below(x)) /\ Cardinality(below(x)) <= N /\ Cardinality(below(x)) # N
    BY <2>1, FS_Subset
  <2>3. Cardinality(below(x)) \in Nat
    BY <2>2, FS_CardinalityType
  <2> QED
    BY <1>1, <2>2, <2>3
<1>3. rank \in [S -> 0 .. N - 1]
  BY <1>2
<1>4. ASSUME NEW x \in S, NEW y \in S, <<x, y>> \in R
      PROVE  Cardinality(below(x)) # Cardinality(below(y))
  <2>1. below(x) \in SUBSET below(y) /\ x \in below(y) /\ x \notin below(x)
    BY <1>4
  <2>2. below(x) # below(y) /\ IsFiniteSet(below(y))
    BY <1>2, <2>1
  <2> HIDE DEF below
  <2> QED
    BY <2>1, <2>2, FS_Subset
<1>5. \A x, y \in S : rank[x] = rank[y] => x = y
  <2>1. \A x \in S : rank[x] = Cardinality(below(x))
    OBVIOUS
  <2> HIDE DEF rank, below
  <2> QED
    BY <1>4, <2>1
<1>6. rank \in Injection(S, 0 .. N - 1)
  <2> HIDE DEF rank, N
  <2> QED
    BY <1>3, <1>5 DEF Injection, IsInjective
<1>7. IsFiniteSet(0 .. N - 1) /\ Cardinality(0 .. N - 1) = N
  <2> HIDE DEF N
  <2>1. 0 \in Int /\ N - 1 \in Int /\ (0 > N - 1 <=> N = 0) /\ (N - 1) - 0 + 1 = N
    BY <1>1
  <2> QED
    BY <2>1, FS_Interval
<1>8. rank \in Surjection(S, 0 .. N - 1)
  <2> HIDE DEF rank, N
  <2> QED
    BY <1>6, <1>7, FS_Injection DEF N
<1> QED
  BY <1>6, <1>8 DEF Bijection

\* Numbers are ordered.
LEMMA RanksOfNumbers ==
  ASSUME NEW S \in SUBSET Nat, IsFiniteSet(S)
  PROVE  [x \in S |-> Cardinality({y \in S : y < x})] \in Bijection(S, 0 .. Cardinality(S) - 1)
<1> DEFINE R == {e \in S \X S : e[1] < e[2]}
<1>1. \A x, y \in S : <<x, y>> \in R <=> x < y
  OBVIOUS
<1> HIDE DEF R
<1>2. \A x \in S : {y \in S : <<y, x>> \in R} = {y \in S : y < x}
  BY <1>1
<1>3. /\ \A x \in S : <<x, x>> \notin R
      /\ \A x, y, z \in S : <<x, y>> \in R /\ <<y, z>> \in R => <<x, z>> \in R
      /\ \A x, y \in S : x = y \/ <<x, y>> \in R \/ <<y, x>> \in R
  BY <1>1
<1>4. [x \in S |-> Cardinality({y \in S : <<y, x>> \in R})] \in Bijection(S, 0 .. Cardinality(S) - 1)
  <2> DEFINE T == S
  <2> HIDE DEF T
  <2>1. IsFiniteSet(T)
    BY DEF T
  <2>2. /\ \A x \in T : <<x, x>> \notin R
        /\ \A x, y, z \in T : <<x, y>> \in R /\ <<y, z>> \in R => <<x, z>> \in R
        /\ \A x, y \in T : x = y \/ <<x, y>> \in R \/ <<y, x>> \in R
    BY <1>3 DEF T
  <2>3. [x \in T |-> Cardinality({y \in T : <<y, x>> \in R})] \in Bijection(T, 0 .. Cardinality(T) - 1)
    BY <2>1, <2>2, Ranks
  <2> QED
    BY <2>3 DEF T
<1> QED
  BY <1>2, <1>4

-----------------------------------------------------------------------------
(* The rendered chat: a token is where the number of tokens before it says. *)

Size(msgs) == Cardinality(Tokens(msgs))
Beginning(msgs, k) == SubSeq(msgs, 1, k - 1)

LEMMA MessageType ==
  ASSUME NEW m \in Messages
  PROVE  m.len \in Nat /\ m.len <= LongestMessage /\ m.turn \in Nat
BY LengthAssumption DEF Messages

LEMMA TokensFinite ==
  ASSUME NEW msgs, Len(msgs) \in Nat
  PROVE  IsFiniteSet(Tokens(msgs)) /\ Size(msgs) \in Nat
<1> DEFINE all == (1 .. Len(msgs)) \X (1 .. HeaderLen + LongestMessage)
<1>1. HeaderLen + LongestMessage \in Nat
  BY LengthAssumption
<1>2. IsFiniteSet(1 .. Len(msgs)) /\ IsFiniteSet(1 .. HeaderLen + LongestMessage)
  BY <1>1, FS_Interval
<1>3. IsFiniteSet(all)
  BY <1>2, FS_Product
<1>4. Tokens(msgs) \in SUBSET all
  BY DEF Tokens
<1> QED
  BY <1>3, <1>4, FS_Subset, FS_CardinalityType DEF Size

\* The tokens of a chat, one by one.
LEMMA TokenOf ==
  ASSUME NEW msgs \in Seq(Messages), NEW t
  PROVE  t \in Tokens(msgs) <=>
           \E k \in DOMAIN msgs : \E p \in 1 .. HeaderLen + msgs[k].len : t = <<k, p>>
<1>1. \A k \in DOMAIN msgs : msgs[k].len \in Nat /\ msgs[k].len <= LongestMessage
  <2>1. \A k \in DOMAIN msgs : msgs[k] \in Messages
    OBVIOUS
  <2> QED
    BY <2>1, MessageType
<1>2. HeaderLen \in Nat /\ LongestMessage \in Nat /\ DOMAIN msgs = 1 .. Len(msgs)
  BY LengthAssumption
<1> QED
  BY <1>1, <1>2 DEF Tokens

LEMMA BeginningType ==
  ASSUME NEW msgs \in Seq(Messages), NEW k \in 1 .. Len(msgs) + 1
  PROVE  /\ Beginning(msgs, k) \in Seq(Messages) /\ Len(Beginning(msgs, k)) = k - 1
         /\ DOMAIN Beginning(msgs, k) = 1 .. k - 1
         /\ \A i \in 1 .. k - 1 : Beginning(msgs, k)[i] = msgs[i]
BY DEF Beginning

LEMMA SizesOf ==
  ASSUME NEW msgs \in Seq(Messages), NEW k \in DOMAIN msgs
  PROVE  /\ Size(msgs) \in Nat /\ Size(Beginning(msgs, k)) \in Nat /\ HeaderLen + msgs[k].len \in Nat
         /\ \A p \in 1 .. HeaderLen + msgs[k].len : p \in Nat
<1>1. k \in 1 .. Len(msgs) + 1 /\ Len(msgs) \in Nat /\ msgs[k] \in Messages /\ HeaderLen \in Nat
  BY LengthAssumption
<1>2. Len(Beginning(msgs, k)) \in Nat
  BY <1>1, BeginningType
<1> QED
  BY <1>1, <1>2, TokensFinite, MessageType

\* The tokens before a token are those of the messages before and of its own.
LEMMA TokensBefore ==
  ASSUME NEW msgs \in Seq(Messages), NEW k \in DOMAIN msgs,
         NEW p \in 1 .. HeaderLen + msgs[k].len
  PROVE  Cardinality({u \in Tokens(msgs) : Before(u, <<k, p>>)}) = Size(Beginning(msgs, k)) + p - 1
<1> DEFINE below == {u \in Tokens(msgs) : Before(u, <<k, p>>)}
           first == Tokens(Beginning(msgs, k))
           own == {k} \X (1 .. p - 1)
           pair == [q \in 1 .. p - 1 |-> <<k, q>>]
<1>1. /\ k \in 1 .. Len(msgs) /\ Len(msgs) \in Nat /\ p \in Nat /\ p >= 1
      /\ HeaderLen + msgs[k].len \in Nat /\ p <= HeaderLen + msgs[k].len
  <2>1. msgs[k] \in Messages /\ HeaderLen \in Nat
    BY LengthAssumption
  <2> QED
    BY <2>1, MessageType
<1>9. /\ Beginning(msgs, k) \in Seq(Messages) /\ Len(Beginning(msgs, k)) = k - 1
      /\ DOMAIN Beginning(msgs, k) = 1 .. k - 1
      /\ \A i \in 1 .. k - 1 : Beginning(msgs, k)[i] = msgs[i]
  <2>1. k \in 1 .. Len(msgs) + 1
    BY <1>1
  <2> QED
    BY <2>1, BeginningType
<1>2. below = first \cup own
  <2>1. ASSUME NEW j \in DOMAIN msgs, NEW q \in 1 .. HeaderLen + msgs[j].len
        PROVE  <<j, q>> \in below <=> j < k \/ (j = k /\ q < p)
    <3>1. <<j, q>> \in Tokens(msgs)
      BY TokenOf
    <3> QED
      BY <3>1 DEF Before
  <2>2. ASSUME NEW j \in DOMAIN msgs, NEW q \in 1 .. HeaderLen + msgs[j].len
        PROVE  <<j, q>> \in first <=> j < k
    <3>1. /\ Beginning(msgs, k) \in Seq(Messages)
          /\ DOMAIN Beginning(msgs, k) = 1 .. k - 1
          /\ \A i \in 1 .. k - 1 : Beginning(msgs, k)[i] = msgs[i]
      BY <1>9
    <3>2. <<j, q>> \in first <=>
            \E i \in 1 .. k - 1 : \E r \in 1 .. HeaderLen + msgs[i].len : <<j, q>> = <<i, r>>
      BY <3>1, TokenOf
    <3>3. j \in Nat
      OBVIOUS
    <3> HIDE DEF first
    <3> QED
      BY <1>1, <3>2, <3>3
  <2>3. ASSUME NEW u \in below \cup first \cup own
        PROVE  \E j \in DOMAIN msgs : \E q \in 1 .. HeaderLen + msgs[j].len : u = <<j, q>>
    <3>1. CASE u \in below
      BY <3>1, TokenOf
    <3>2. CASE u \in first
      <4>1. /\ Beginning(msgs, k) \in Seq(Messages)
            /\ DOMAIN Beginning(msgs, k) = 1 .. k - 1
            /\ \A i \in 1 .. k - 1 : Beginning(msgs, k)[i] = msgs[i]
        BY <1>9
      <4>2. PICK i \in 1 .. k - 1 : \E r \in 1 .. HeaderLen + msgs[i].len : u = <<i, r>>
        BY <3>2, <4>1, TokenOf
      <4>3. i \in DOMAIN msgs
        BY <1>1
      <4> QED
        BY <4>2, <4>3
    <3>3. CASE u \in own
      <4>1. PICK q \in 1 .. p - 1 : u = <<k, q>>
        BY <3>3
      <4>2. q \in 1 .. HeaderLen + msgs[k].len
        BY <1>1
      <4> QED
        BY <4>1, <4>2
    <3> QED
      BY <3>1, <3>2, <3>3
  <2>4. ASSUME NEW j \in DOMAIN msgs, NEW q \in 1 .. HeaderLen + msgs[j].len
        PROVE  <<j, q>> \in below <=> <<j, q>> \in first \cup own
    <3>1. <<j, q>> \in own <=> j = k /\ q < p
      BY <1>1
    <3> HIDE DEF below, first, own
    <3> QED
      BY <2>1, <2>2, <3>1
  <2> HIDE DEF below, first, own
  <2> QED
    BY <2>3, <2>4
<1>3. IsFiniteSet(first) /\ Cardinality(first) \in Nat
  BY <1>1, <1>9, TokensFinite DEF Size
<1>4. IsFiniteSet(own) /\ Cardinality(own) = p - 1
  <2>1. IsFiniteSet(1 .. p - 1) /\ Cardinality(1 .. p - 1) = p - 1
    <3>1. 1 \in Int /\ p - 1 \in Int /\ (1 > p - 1 <=> p = 1) /\ (p - 1) - 1 + 1 = p - 1
      BY <1>1
    <3> QED
      BY <3>1, FS_Interval
  <2>2. IsFiniteSet({k}) /\ Cardinality({k}) = 1
    BY FS_Singleton
  <2>3. Cardinality({k} \X (1 .. p - 1)) = 1 * (p - 1) /\ IsFiniteSet({k} \X (1 .. p - 1))
    BY <2>1, <2>2, FS_Product, Zenon
  <2> QED
    BY <1>1, <2>3
<1>5. first \cap own = {}
  <2> SUFFICES ASSUME NEW u \in first, u \in own PROVE FALSE
    OBVIOUS
  <2>1. u[1] = k
    OBVIOUS
  <2>2. u[1] \in 1 .. Len(Beginning(msgs, k))
    BY DEF Tokens
  <2> QED
    BY <1>1, <1>9, <2>1, <2>2
<1>6. Cardinality(first \cup own) = Cardinality(first) + (p - 1) - 0
  <2> HIDE DEF first, own
  <2> QED
    BY <1>3, <1>4, <1>5, FS_Union, FS_EmptySet
<1> HIDE DEF below, first, own
<1>7. Cardinality(below) = Cardinality(first) + p - 1
  BY <1>1, <1>2, <1>3, <1>6
<1> QED
  BY <1>7 DEF below, first, Size

LEMMA TokenRanks ==
  ASSUME NEW msgs \in Seq(Messages)
  PROVE  [t \in Tokens(msgs) |-> Cardinality({u \in Tokens(msgs) : Before(u, t)})]
           \in Bijection(Tokens(msgs), 0 .. Size(msgs) - 1)
<1> DEFINE S == Tokens(msgs)
           R == {e \in S \X S : Before(e[1], e[2])}
<1>1. \A t, u \in S : <<t, u>> \in R <=> Before(t, u)
  OBVIOUS
<1>2. \A t \in S : t[1] \in Nat /\ t[2] \in Nat /\ t = <<t[1], t[2]>>
  BY DEF Tokens
<1>3. IsFiniteSet(S)
  BY TokensFinite
<1> HIDE DEF S, R
<1>4. \A x \in S : <<x, x>> \notin R
  BY <1>1, <1>2 DEF Before
<1>8. \A x, y, z \in S : <<x, y>> \in R /\ <<y, z>> \in R => <<x, z>> \in R
  <2>1. ASSUME NEW x \in S, NEW y \in S, NEW z \in S, Before(x, y), Before(y, z)
        PROVE  Before(x, z)
    BY <1>2, <2>1 DEF Before
  <2> QED
    BY <1>1, <2>1
<1>9. \A x, y \in S : x = y \/ <<x, y>> \in R \/ <<y, x>> \in R
  <2>1. ASSUME NEW x \in S, NEW y \in S
        PROVE  x = y \/ Before(x, y) \/ Before(y, x)
    <3>1. x[1] = y[1] /\ x[2] = y[2] => x = y
      BY <1>2
    <3> QED
      BY <1>2, <3>1 DEF Before
  <2> QED
    BY <1>1, <2>1
<1>5. [x \in S |-> Cardinality({y \in S : <<y, x>> \in R})] \in Bijection(S, 0 .. Cardinality(S) - 1)
  BY <1>3, <1>4, <1>8, <1>9, Ranks, SMTT(60)
<1>6. \A t \in S : {u \in S : <<u, t>> \in R} = {u \in S : Before(u, t)}
  BY <1>1
<1>7. [t \in S |-> Cardinality({u \in S : Before(u, t)})] \in Bijection(S, 0 .. Cardinality(S) - 1)
  BY <1>5, <1>6
<1> QED
  BY <1>7 DEF S, Size

\* A token of the chat, where it stands in the rendered chat.
LEMMA RenderedToken ==
  ASSUME NEW msgs \in Seq(Messages), NEW k \in DOMAIN msgs,
         NEW p \in 1 .. HeaderLen + msgs[k].len
  PROVE  /\ Size(Beginning(msgs, k)) + p \in 1 .. Size(msgs)
         /\ Rendered(msgs)[Size(Beginning(msgs, k)) + p] =
              IF p > HeaderLen THEN msgs[k].turn ELSE 0
<1> DEFINE rank == [t \in Tokens(msgs) |-> Cardinality({u \in Tokens(msgs) : Before(u, t)})]
           c == Size(Beginning(msgs, k)) + p
<1>1. rank \in Bijection(Tokens(msgs), 0 .. Size(msgs) - 1)
  BY TokenRanks
<1>2. <<k, p>> \in Tokens(msgs)
  BY TokenOf
<1>3. /\ p \in Nat /\ Size(Beginning(msgs, k)) \in Nat /\ Size(msgs) \in Nat
      /\ rank[<<k, p>>] = c - 1
  <2>1. p \in Nat /\ Size(Beginning(msgs, k)) \in Nat /\ Size(msgs) \in Nat
    BY SizesOf
  <2>2. rank[<<k, p>>] = Size(Beginning(msgs, k)) + p - 1
    BY <1>2, TokensBefore
  <2> QED
    BY <2>1, <2>2
<1>4. rank[<<k, p>>] \in 0 .. Size(msgs) - 1
  BY <1>1, <1>2 DEF Bijection, Injection, IsInjective
<1>5. c \in 1 .. Size(msgs)
  BY <1>3, <1>4
<1>6. (CHOOSE t \in Tokens(msgs) : Cardinality({u \in Tokens(msgs) : Before(u, t)}) = c - 1) = <<k, p>>
  <2>1. \A t \in Tokens(msgs) : rank[t] = c - 1 => t = <<k, p>>
    <3> HIDE DEF rank, c
    <3> QED
      BY <1>1, <1>2, <1>3 DEF Bijection, Injection, IsInjective
  <2>2. \A t \in Tokens(msgs) : rank[t] = Cardinality({u \in Tokens(msgs) : Before(u, t)})
    OBVIOUS
  <2> HIDE DEF rank
  <2> QED
    BY <1>2, <1>3, <2>1, <2>2
<1>7. Rendered(msgs)[c] = LET t == <<k, p>> IN IF t[2] > HeaderLen THEN msgs[t[1]].turn ELSE 0
  <2> HIDE DEF c
  <2> QED
    <3> DEFINE at == [d \in 1 .. Size(msgs) |->
                        CHOOSE t \in Tokens(msgs) :
                          Cardinality({u \in Tokens(msgs) : Before(u, t)}) = d - 1]
    <3>1. at[c] = <<k, p>>
      BY <1>5, <1>6
    <3>2. Rendered(msgs) = [d \in 1 .. Size(msgs) |->
                              IF at[d][2] > HeaderLen THEN msgs[at[d][1]].turn ELSE 0]
      BY DEF Rendered, Size
    <3> HIDE DEF at
    <3> QED
      BY <1>5, <3>1, <3>2
<1> QED
  BY <1>5, <1>7

\* The rendered chat has no other tokens.
LEMMA RenderedAt ==
  ASSUME NEW msgs \in Seq(Messages), NEW c \in 1 .. Size(msgs)
  PROVE  \E k \in DOMAIN msgs : \E p \in 1 .. HeaderLen + msgs[k].len :
           c = Size(Beginning(msgs, k)) + p
<1> DEFINE rank == [t \in Tokens(msgs) |-> Cardinality({u \in Tokens(msgs) : Before(u, t)})]
<1>1. rank \in Bijection(Tokens(msgs), 0 .. Size(msgs) - 1)
  BY TokenRanks
<1>2. Size(msgs) \in Nat /\ c - 1 \in 0 .. Size(msgs) - 1
  BY TokensFinite
<1>3. PICK t \in Tokens(msgs) : rank[t] = c - 1
  BY <1>1, <1>2 DEF Bijection, Surjection
<1>4. PICK k \in DOMAIN msgs : \E p \in 1 .. HeaderLen + msgs[k].len : t = <<k, p>>
  BY TokenOf
<1>5. PICK p \in 1 .. HeaderLen + msgs[k].len : t = <<k, p>>
  BY <1>4
<1>6. rank[t] = Size(Beginning(msgs, k)) + p - 1
  BY <1>5, TokensBefore
<1>7. p \in Nat /\ Size(Beginning(msgs, k)) \in Nat
  BY SizesOf
<1>8. c = Size(Beginning(msgs, k)) + p
  BY <1>3, <1>6, <1>7
<1> QED
  BY <1>8

LEMMA RenderedLength ==
  ASSUME NEW msgs, Len(msgs) \in Nat
  PROVE  Len(Rendered(msgs)) = Size(msgs)
<1>1. Size(msgs) \in Nat
  BY TokensFinite
<1> QED
  BY <1>1 DEF Rendered, Size

-----------------------------------------------------------------------------
(* The chat and its lists. *)

\* The list points at the messages of the role, in the order of the chat (counting from 0).
Enumerates(list, msgs, role) ==
  /\ list \in Seq(Nat)
  /\ \A i \in DOMAIN list : list[i] + 1 \in DOMAIN msgs /\ msgs[list[i] + 1].role = role
  /\ \A k \in DOMAIN msgs : msgs[k].role = role => \E i \in DOMAIN list : list[i] + 1 = k
  /\ \A i, j \in DOMAIN list : i < j => list[i] < list[j]

\* A message of another role.
LEMMA EnumeratesOther ==
  ASSUME NEW S, NEW msgs \in Seq(S), NEW m \in S, NEW role, m.role # role,
         NEW list, Enumerates(list, msgs, role)
  PROVE  Enumerates(list, Append(msgs, m), role)
<1> DEFINE more == Append(msgs, m)
<1>1. /\ Len(msgs) \in Nat /\ DOMAIN msgs = 1 .. Len(msgs) /\ DOMAIN more = 1 .. Len(msgs) + 1
      /\ \A k \in DOMAIN msgs : more[k] = msgs[k]
      /\ more[Len(msgs) + 1] = m
  OBVIOUS
<1>2. \A k \in DOMAIN more : k \in DOMAIN msgs \/ k = Len(msgs) + 1
  BY <1>1
<1>3. \A k \in DOMAIN msgs : k \in DOMAIN more
  BY <1>1
<1> HIDE DEF more
<1> QED
  BY <1>1, <1>2, <1>3 DEF Enumerates, more

\* A message of the role, at the end of the list.
LEMMA EnumeratesSelf ==
  ASSUME NEW S, NEW msgs \in Seq(S), NEW m \in S, NEW list, Enumerates(list, msgs, m.role)
  PROVE  Enumerates(Append(list, Len(msgs)), Append(msgs, m), m.role)
<1> DEFINE more == Append(msgs, m)
           longer == Append(list, Len(msgs))
           n == Len(list) + 1
<1>1. /\ Len(msgs) \in Nat /\ DOMAIN msgs = 1 .. Len(msgs) /\ DOMAIN more = 1 .. Len(msgs) + 1
      /\ \A k \in DOMAIN msgs : more[k] = msgs[k]
      /\ more[Len(msgs) + 1] = m
  OBVIOUS
<1>2. /\ list \in Seq(Nat) /\ longer \in Seq(Nat)
      /\ DOMAIN list = 1 .. Len(list) /\ Len(list) \in Nat /\ DOMAIN longer = 1 .. n
      /\ \A i \in DOMAIN list : longer[i] = list[i]
      /\ longer[n] = Len(msgs)
  BY <1>1 DEF Enumerates
<1>3. /\ \A k \in DOMAIN more : k \in DOMAIN msgs \/ k = Len(msgs) + 1
      /\ \A k \in DOMAIN msgs : k \in DOMAIN more
      /\ Len(msgs) + 1 \in DOMAIN more
      /\ \A i \in DOMAIN longer : i \in DOMAIN list \/ i = n
      /\ \A i \in DOMAIN list : i \in DOMAIN longer
      /\ n \in DOMAIN longer
  BY <1>1, <1>2
<1>4. \A i \in DOMAIN list : list[i] < Len(msgs)
  <2> SUFFICES ASSUME NEW i \in DOMAIN list PROVE list[i] < Len(msgs)
    OBVIOUS
  <2>1. list[i] \in Nat /\ list[i] + 1 \in 1 .. Len(msgs)
    BY <1>1 DEF Enumerates
  <2> QED
    BY <1>1, <2>1
<1>5. \A i, j \in DOMAIN longer : i < j => longer[i] < longer[j]
  <2> SUFFICES ASSUME NEW i \in DOMAIN longer, NEW j \in DOMAIN longer, i < j
               PROVE  longer[i] < longer[j]
    OBVIOUS
  <2>1. i \in DOMAIN list
    BY <1>2
  <2>2. CASE j \in DOMAIN list
    BY <1>2, <2>1, <2>2 DEF Enumerates
  <2>3. CASE j = n
    BY <1>2, <1>4, <2>1, <2>3
  <2> HIDE DEF longer, n
  <2> QED
    BY <1>3, <2>2, <2>3
<1>6. \A i \in DOMAIN longer : longer[i] + 1 \in DOMAIN more /\ more[longer[i] + 1].role = m.role
  <2> SUFFICES ASSUME NEW i \in DOMAIN longer
               PROVE  longer[i] + 1 \in DOMAIN more /\ more[longer[i] + 1].role = m.role
    OBVIOUS
  <2> HIDE DEF longer, more, n
  <2>1. CASE i \in DOMAIN list
    BY <1>1, <1>2, <1>3, <2>1 DEF Enumerates
  <2>2. CASE i = n
    BY <1>1, <1>2, <1>3, <2>2
  <2> QED
    BY <1>3, <2>1, <2>2
<1>7. \A k \in DOMAIN more : more[k].role = m.role => \E i \in DOMAIN longer : longer[i] + 1 = k
  <2> SUFFICES ASSUME NEW k \in DOMAIN more, more[k].role = m.role
               PROVE  \E i \in DOMAIN longer : longer[i] + 1 = k
    OBVIOUS
  <2> HIDE DEF longer, more, n
  <2>1. CASE k \in DOMAIN msgs
    <3>1. PICK i \in DOMAIN list : list[i] + 1 = k
      BY <1>1, <2>1 DEF Enumerates
    <3> QED
      BY <1>2, <1>3, <3>1
  <2>2. CASE k = Len(msgs) + 1
    BY <1>2, <1>3, <2>2
  <2> QED
    BY <1>3, <2>1, <2>2
<1> HIDE DEF longer, more
<1> QED
  BY <1>2, <1>5, <1>6, <1>7 DEF Enumerates, longer, more

\* How many of the listed messages come after the i-th one; all of them for i = 0.
LEMMA ListedAfter ==
  ASSUME NEW list, NEW msgs, NEW role, Enumerates(list, msgs, role), NEW i \in 0 .. Len(list)
  PROVE  /\ IsFiniteSet({list[j] + 1 : j \in i + 1 .. Len(list)})
         /\ Cardinality({list[j] + 1 : j \in i + 1 .. Len(list)}) = Len(list) - i
<1> DEFINE n == Len(list)
           T == {list[j] + 1 : j \in i + 1 .. n}
           f == [j \in i + 1 .. n |-> list[j] + 1]
<1>1. n \in Nat /\ i \in Nat /\ i <= n /\ DOMAIN list = 1 .. n /\ \A j \in 1 .. n : list[j] \in Nat
  BY DEF Enumerates
<1>2. IsFiniteSet(i + 1 .. n) /\ Cardinality(i + 1 .. n) = n - i
  <2> HIDE DEF n
  <2>1. i + 1 \in Int /\ n \in Int /\ (i + 1 > n <=> n - i = 0) /\ n - (i + 1) + 1 = n - i
    BY <1>1
  <2> QED
    BY <2>1, FS_Interval
<1>3. f \in Surjection(i + 1 .. n, T)
  <2>1. f \in [i + 1 .. n -> T]
    OBVIOUS
  <2>2. \A t \in T : \E j \in i + 1 .. n : f[j] = t
    OBVIOUS
  <2> HIDE DEF f, T
  <2> QED
    BY <2>1, <2>2 DEF Surjection
<1>4. IsInjective(f)
  <2> SUFFICES ASSUME NEW j \in i + 1 .. n, NEW k \in i + 1 .. n, f[j] = f[k]
               PROVE  j = k
    BY DEF IsInjective
  <2>1. j \in 1 .. n /\ k \in 1 .. n /\ list[j] = list[k]
    <3>1. j \in 1 .. n /\ k \in 1 .. n /\ list[j] + 1 = list[k] + 1
      BY <1>1
    <3> HIDE DEF f, n
    <3> QED
      BY <1>1, <3>1
  <2>2. /\ j < k => list[j] < list[k]
        /\ k < j => list[k] < list[j]
    BY <1>1, <2>1 DEF Enumerates
  <2>3. j \in Nat /\ k \in Nat /\ list[j] \in Nat /\ list[k] \in Nat
    BY <1>1, <2>1
  <2> QED
    BY <2>1, <2>2, <2>3
<1>5. f \in Injection(i + 1 .. n, T)
  <2> HIDE DEF f, T
  <2> QED
    BY <1>3, <1>4 DEF Surjection, Injection
<1> HIDE DEF f, T
<1>6. IsFiniteSet(T) /\ Cardinality(T) = n - i
  BY <1>2, <1>3, <1>5, FS_Surjection
<1> QED
  BY <1>6 DEF T

\* The messages of the role after position k.
After(msgs, role, k) == {j \in DOMAIN msgs : j > k /\ msgs[j].role = role}

\* Those after a listed message are the rest of the list.
LEMMA AfterPosition ==
  ASSUME NEW list, NEW msgs, NEW role, Enumerates(list, msgs, role),
         NEW i \in DOMAIN list
  PROVE  After(msgs, role, list[i] + 1)
           = {list[j] + 1 : j \in i + 1 .. Len(list)}
<1>1. /\ Len(list) \in Nat /\ i \in 1 .. Len(list) /\ DOMAIN list = 1 .. Len(list)
      /\ \A j \in 1 .. Len(list) : list[j] \in Nat
  BY DEF Enumerates
<1>2. ASSUME NEW j \in i + 1 .. Len(list)
      PROVE  /\ list[j] + 1 \in DOMAIN msgs /\ list[j] + 1 > list[i] + 1
             /\ msgs[list[j] + 1].role = role
  <2>1. j \in 1 .. Len(list) /\ i < j
    BY <1>1
  <2>2. list[i] < list[j] /\ list[i] \in Nat /\ list[j] \in Nat
    BY <1>1, <2>1 DEF Enumerates
  <2> QED
    BY <1>1, <2>1, <2>2 DEF Enumerates
<1>3. ASSUME NEW k \in DOMAIN msgs, k > list[i] + 1, msgs[k].role = role
      PROVE  \E j \in i + 1 .. Len(list) : k = list[j] + 1
  <2>1. PICK j \in 1 .. Len(list) : list[j] + 1 = k
    BY <1>1, <1>3 DEF Enumerates
  <2>2. j # i /\ ~(j < i)
    <3>1. list[i] < list[j]
      BY <1>1, <1>3, <2>1
    <3>2. j < i => list[j] < list[i]
      BY <1>1 DEF Enumerates
    <3> QED
      BY <1>1, <3>1, <3>2
  <2> QED
    BY <1>1, <2>1, <2>2
<1> QED
  BY <1>2, <1>3 DEF After

\* All messages of the role.
LEMMA AllListed ==
  ASSUME NEW list, NEW msgs, NEW role, Enumerates(list, msgs, role)
  PROVE  Cardinality({k \in DOMAIN msgs : msgs[k].role = role}) = Len(list) /\ Len(list) \in Nat
<1> DEFINE T == {list[j] + 1 : j \in 0 + 1 .. Len(list)}
<1>1. Len(list) \in Nat /\ DOMAIN list = 0 + 1 .. Len(list)
  BY DEF Enumerates
<1>2. {k \in DOMAIN msgs : msgs[k].role = role} = T
  BY <1>1 DEF Enumerates
<1>3. Cardinality(T) = Len(list) - 0
  <2>1. 0 \in 0 .. Len(list)
    BY <1>1
  <2> QED
    BY <2>1, ListedAfter
<1>4. Cardinality({k \in DOMAIN msgs : msgs[k].role = role}) = Len(list) - 0
  BY <1>2, <1>3, Zenon
<1>5. \A n \in Nat : n - 0 = n
  OBVIOUS
<1> QED
  BY <1>1, <1>4, <1>5

\* Nothing is dropped of a chat with few replies and observations.
LEMMA NothingDropped ==
  ASSUME NEW list \in Seq(Nat), NEW keep \in Nat, Len(list) <= keep
  PROVE  Dropped(list, keep) = {}
<1>1. Len(list) \in Nat /\ \A j \in DOMAIN list : j \in 1 .. Len(list)
  OBVIOUS
<1>2. \A j \in DOMAIN list : ~(j + keep <= Len(list))
  BY <1>1
<1> QED
  BY <1>2 DEF Dropped

LEMMA ShownWhole ==
  ASSUME NEW msgs \in Seq(Messages), NEW resp, NEW obs,
         Dropped(resp, ResponsesToKeep) = {}, Dropped(obs, ObservationsToKeep) = {}
  PROVE  Shown(msgs, resp, obs) = msgs
<1> DEFINE kept == {k \in DOMAIN msgs :
                      k - 1 \notin Dropped(resp, ResponsesToKeep) \cup Dropped(obs, ObservationsToKeep)}
           n == Len(msgs)
<1>1. kept = 1 .. n /\ n \in Nat /\ DOMAIN msgs = 1 .. n
  OBVIOUS
<1>2. IsFiniteSet(1 .. n) /\ Cardinality(1 .. n) = n
  <2> HIDE DEF n
  <2>1. 1 \in Int /\ n \in Int /\ (1 > n <=> n = 0) /\ n - 1 + 1 = n
    BY <1>1
  <2> QED
    BY <2>1, FS_Interval
<1>4. ASSUME NEW i \in 1 .. n
      PROVE  Cardinality({j \in 1 .. n : j < i}) = i - 1
  <2>1. {j \in 1 .. n : j < i} = 1 .. i - 1
    BY <1>1
  <2>2. 1 \in Int /\ i - 1 \in Int /\ (1 > i - 1 <=> i - 1 = 0) /\ i - 1 - 1 + 1 = i - 1
    BY <1>1
  <2>3. Cardinality(1 .. i - 1) = i - 1
    BY <2>2, FS_Interval
  <2> QED
    BY <2>1, <2>3
<1>5. ASSUME NEW i \in 1 .. n
      PROVE  (CHOOSE k \in 1 .. n : Cardinality({j \in 1 .. n : j < k}) = i - 1) = i
  <2>1. \A k \in 1 .. n : Cardinality({j \in 1 .. n : j < k}) = i - 1 => k = i
    BY <1>4, <1>1
  <2> QED
    BY <1>4, <2>1
<1>6. Shown(msgs, resp, obs) =
        [i \in 1 .. n |-> msgs[CHOOSE k \in 1 .. n : Cardinality({j \in 1 .. n : j < k}) = i - 1]]
  <2>1. Shown(msgs, resp, obs) =
          [i \in 1 .. Cardinality(kept) |->
             msgs[CHOOSE k \in kept : Cardinality({j \in kept : j < k}) = i - 1]]
    BY DEF Shown
  <2> HIDE DEF kept, n
  <2> QED
    BY <1>1, <1>2, <2>1
<1>7. Shown(msgs, resp, obs) = [i \in 1 .. n |-> msgs[i]]
  BY <1>5, <1>6
<1> QED
  BY <1>1, <1>7

-----------------------------------------------------------------------------
(* The invariant behind ShownAndMasked. *)

\* The index lists hold all replies and all observations; replies know their turn.
Lists(msgs, resp, obs) ==
  /\ Enumerates(resp, msgs, "agent") /\ Enumerates(obs, msgs, "assistant")
  /\ \A k \in DOMAIN msgs : msgs[k].turn > 0 <=> msgs[k].role = "agent"

\* The chat the last prompt was written from.
Asked == IF pc \in {"tokenize", "generate", "listen"} THEN chain ELSE Heard(Len(responses))

ListsInv ==
  /\ Lists(chain, responses, observations)
  /\ pc \in {"mask", "scored"} => responses # << >>
  /\ turn > 0 => shown = Shown(chain, responses, observations)

PromptInv ==
  Uncut(Asked) =>
    IF pc = "tokenize" THEN text = Rendered(Asked) ELSE prompt = Templated(Rendered(Asked))

\* Each reply was generated right after its prompt.
SpansInv ==
  /\ Len(spans) = Len(responses) + (IF pc = "listen" THEN 1 ELSE 0)
  /\ \A n \in DOMAIN responses :
       /\ chain[responses[n] + 1].len > 0
       /\ spans[n][2] = spans[n][1] + chain[responses[n] + 1].len
       /\ Uncut(Heard(n)) => spans[n][1] = PrefixLen + Size(Heard(n)) + SuffixLen

MaskedInv ==
  pc = "scored" =>
    mask = {c \in Columns : \E k \in DOMAIN spans : spans[k][1] + Start <= c /\ c < spans[k][2] + Start}

ChatInv == ListsInv /\ PromptInv /\ SpansInv /\ MaskedInv

\* The chat grows by a reply, an observation or a hint.
LEMMA ListsGrow ==
  ASSUME NEW msgs \in Seq(Messages), NEW resp, NEW obs, Lists(msgs, resp, obs), NEW m \in Messages
  PROVE  /\ m.role = "agent" /\ m.turn > 0 => Lists(Append(msgs, m), Append(resp, Len(msgs)), obs)
         /\ m.role = "assistant" /\ m.turn = 0 => Lists(Append(msgs, m), resp, Append(obs, Len(msgs)))
         /\ m.role = "system" /\ m.turn = 0 => Lists(Append(msgs, m), resp, obs)
<1> DEFINE more == Append(msgs, m)
<1>1. /\ \A k \in DOMAIN more : k \in DOMAIN msgs \/ k = Len(msgs) + 1
      /\ \A k \in DOMAIN msgs : more[k] = msgs[k]
      /\ more[Len(msgs) + 1] = m
  OBVIOUS
<1>2. (m.turn > 0 <=> m.role = "agent") => \A k \in DOMAIN more : more[k].turn > 0 <=> more[k].role = "agent"
  <2> HIDE DEF more
  <2> QED
    BY <1>1 DEF Lists
<1>3. /\ m.role # "agent" => Enumerates(resp, more, "agent")
      /\ m.role # "assistant" => Enumerates(obs, more, "assistant")
  BY EnumeratesOther DEF Lists
<1>4. /\ m.role = "agent" => Enumerates(Append(resp, Len(msgs)), more, "agent")
      /\ m.role = "assistant" => Enumerates(Append(obs, Len(msgs)), more, "assistant")
  BY EnumeratesSelf DEF Lists
<1> HIDE DEF more
<1>5. "agent" # "assistant" /\ "system" # "assistant" /\ "system" # "agent" /\ ~(0 > 0)
  OBVIOUS
<1> QED
  BY <1>2, <1>3, <1>4, <1>5 DEF Lists, more

\* A chat and what it has grown to.
Starts(msgs, more) ==
  /\ Len(msgs) <= Len(more)
  /\ \A k \in DOMAIN msgs : more[k] = msgs[k]

LEMMA StartsAgree ==
  ASSUME NEW msgs \in Seq(Messages), NEW more \in Seq(Messages), Starts(msgs, more),
         NEW k \in 0 .. Len(msgs)
  PROVE  SubSeq(more, 1, k) = SubSeq(msgs, 1, k)
<1>1. Len(msgs) \in Nat /\ Len(more) \in Nat /\ Len(msgs) <= Len(more) /\ k \in Nat /\ k <= Len(msgs)
  BY DEF Starts
<1>2. \A i \in 1 .. k : i \in DOMAIN msgs
  BY <1>1
<1>3. SubSeq(more, 1, k) = [i \in 1 .. k |-> more[i]] /\ SubSeq(msgs, 1, k) = [i \in 1 .. k |-> msgs[i]]
  BY <1>1
<1> QED
  BY <1>2, <1>3 DEF Starts

LEMMA StartsAppend ==
  ASSUME NEW msgs \in Seq(Messages), NEW more \in Seq(Messages), Starts(msgs, more), NEW m \in Messages
  PROVE  Append(more, m) \in Seq(Messages) /\ Starts(msgs, Append(more, m))
<1>1. Len(msgs) \in Nat /\ Len(more) \in Nat /\ DOMAIN msgs = 1 .. Len(msgs) /\ DOMAIN more = 1 .. Len(more)
  OBVIOUS
<1>2. /\ Append(more, m) \in Seq(Messages) /\ Len(Append(more, m)) = Len(more) + 1
      /\ \A k \in 1 .. Len(more) : Append(more, m)[k] = more[k]
  BY <1>1
<1>3. \A k \in DOMAIN msgs : k \in 1 .. Len(more)
  BY <1>1 DEF Starts
<1> QED
  BY <1>1, <1>2, <1>3 DEF Starts

\* What an uncut chat is shown as, in the text and in the prompt.
LEMMA UncutShown ==
  ASSUME NEW msgs \in Seq(Messages), NEW resp, NEW obs, Lists(msgs, resp, obs), Uncut(msgs)
  PROVE  /\ Shown(msgs, resp, obs) = msgs
         /\ Truncated(Rendered(msgs)) = Rendered(msgs)
<1>1. ResponsesToKeep \in Nat /\ ObservationsToKeep \in Nat /\ TokensToKeep \in Nat
  BY TurnAssumption, BufferAssumption, LengthAssumption DEF TokensToKeep
<1>2. Len(resp) <= ResponsesToKeep /\ Len(obs) <= ObservationsToKeep
  BY AllListed DEF Lists, Uncut
<1>3. Dropped(resp, ResponsesToKeep) = {} /\ Dropped(obs, ObservationsToKeep) = {}
  BY <1>1, <1>2, NothingDropped DEF Lists, Enumerates
<1>4. Shown(msgs, resp, obs) = msgs
  BY <1>3, ShownWhole
<1>5. Len(Rendered(msgs)) = Size(msgs) /\ Size(msgs) \in Nat
  BY RenderedLength, TokensFinite
<1>6. Truncated(Rendered(msgs)) = Rendered(msgs)
  BY <1>1, <1>5 DEF Truncated, Uncut, Size
<1> QED
  BY <1>4, <1>6

LEMMA PromptLength ==
  ASSUME NEW msgs \in Seq(Messages)
  PROVE  Len(Templated(Rendered(msgs))) = PrefixLen + Size(msgs) + SuffixLen
<1>1. Len(msgs) \in Nat
  OBVIOUS
<1> QED
  BY <1>1, RenderedLength, RenderedSequence, TemplatedLength

LEMMA InitChat == Init => ChatInv
<1> SUFFICES ASSUME Init PROVE ChatInv
  OBVIOUS
<1> DEFINE m == Message("system", 0, TaskLen)
<1>1. m \in Messages /\ m.role = "system" /\ m.turn = 0
  BY MessageTypes DEF Message
<1>2. chain \in Seq(Messages) /\ chain = Append(<< >>, m)
  BY <1>1 DEF Init
<1>3. Lists(<< >>, << >>, << >>)
  BY DEF Lists, Enumerates
<1>4. << >> \in Seq(Messages)
  OBVIOUS
<1> HIDE DEF m
<1>5. Lists(chain, << >>, << >>)
  BY <1>1, <1>2, <1>3, <1>4, ListsGrow
<1>6. ListsInv
  BY <1>5 DEF Init, ListsInv
<1>7. PromptInv
  BY <1>2, <1>5, UncutShown DEF Init, PromptInv, Asked
<1>8. SpansInv /\ MaskedInv
  BY DEF Init, SpansInv, MaskedInv
<1> QED
  BY <1>6, <1>7, <1>8 DEF ChatInv

\* The end of a turn, whatever joined the chat after the reply.
LEMMA ChatAfterTurn ==
  ASSUME IInv, ChatInv, pc = "listen", UNCHANGED rollout,
         chain' \in Seq(Messages), Starts(Replied, chain'), responses' = RepliedAt,
         Lists(chain', responses', observations'),
         shown' = Shown(chain', responses', observations'),
         \/ pc' = "tokenize" /\ text' = Truncated(Rendered(shown'))
         \/ pc' = "mask"
  PROVE  ChatInv'
<1> DEFINE m == Message("agent", turn + 1, Attended(sampled))
           L == Len(responses)
<1>1. /\ chain \in Seq(Messages) /\ Len(chain) \in Nat /\ DOMAIN chain = 1 .. Len(chain)
      /\ responses \in Seq(Nat) /\ L \in Nat /\ DOMAIN responses = 1 .. L
      /\ \A n \in 1 .. L : responses[n] \in Nat /\ responses[n] + 1 \in DOMAIN chain
  <2>1. chain \in Seq(Messages) /\ Enumerates(responses, chain, "agent")
    BY DEF IInv, ChatInv, ListsInv, Lists
  <2> QED
    BY <2>1 DEF Enumerates
<1>2. /\ m \in Messages /\ m.len = Attended(sampled) /\ m.len > 0
      /\ Len(spans) = L + 1 /\ spans[L + 1] = <<Len(prompt), Len(prompt) + m.len>>
  <2>1. sampled \in ReplyLens /\ turn \in 0 .. MaxIter - 1
    BY DEF IInv
  <2>2. m \in Messages
    BY <2>1, MessageTypes
  <2>3. m.len = Attended(sampled)
    BY DEF Message
  <2>4. Len(spans) = L + 1
    BY DEF ChatInv, SpansInv
  <2> QED
    BY <2>1, <2>2, <2>3, <2>4, AttendedPositive DEF IInv
<1>3. /\ Replied \in Seq(Messages) /\ Len(Replied) = Len(chain) + 1
      /\ \A k \in DOMAIN chain : Replied[k] = chain[k]
      /\ Replied[Len(chain) + 1] = m
  BY <1>1, <1>2 DEF Replied
<1>4. /\ Len(responses') = L + 1 /\ DOMAIN responses' = 1 .. L + 1
      /\ \A n \in 1 .. L : responses'[n] = responses[n]
      /\ responses'[L + 1] = Len(chain)
  BY <1>1 DEF RepliedAt
<1>5. \A k \in 0 .. Len(chain) : SubSeq(chain', 1, k) = SubSeq(chain, 1, k)
  <2> SUFFICES ASSUME NEW k \in 0 .. Len(chain) PROVE SubSeq(chain', 1, k) = SubSeq(chain, 1, k)
    OBVIOUS
  <2>1. k \in 0 .. Len(Replied) /\ Starts(chain, Replied)
    BY <1>1, <1>3 DEF Starts
  <2>2. SubSeq(chain', 1, k) = SubSeq(Replied, 1, k)
    BY <1>3, <2>1, StartsAgree
  <2>3. SubSeq(Replied, 1, k) = SubSeq(chain, 1, k)
    BY <1>1, <1>3, <2>1, StartsAgree
  <2> QED
    BY <2>2, <2>3
<1>6. SubSeq(chain', 1, responses'[L + 1]) = chain
  <2>1. SubSeq(chain, 1, Len(chain)) = chain
    BY <1>1
  <2>2. Len(chain) \in 0 .. Len(chain)
    BY <1>1
  <2>3. SubSeq(chain', 1, Len(chain)) = SubSeq(chain, 1, Len(chain))
    BY <1>5, <2>2
  <2> QED
    BY <1>4, <2>1, <2>3
<1>7. \A n \in 1 .. L : SubSeq(chain', 1, responses'[n]) = Heard(n)
  <2> SUFFICES ASSUME NEW n \in 1 .. L PROVE SubSeq(chain', 1, responses'[n]) = Heard(n)
    OBVIOUS
  <2>1. responses[n] \in 0 .. Len(chain)
    BY <1>1
  <2> QED
    BY <1>4, <1>5, <2>1 DEF Heard
<1>8. ListsInv'
  <2>1. responses' # << >>
    BY <1>1, <1>4
  <2> QED
    BY <2>1 DEF ListsInv
<1>9. PromptInv'
  <2>1. CASE pc' = "tokenize"
    <3>1. Asked' = chain'
      BY <2>1 DEF Asked
    <3>2. Uncut(chain') => text' = Rendered(chain')
      BY <2>1, UncutShown
    <3> QED
      BY <2>1, <3>1, <3>2 DEF PromptInv
  <2>2. CASE pc' = "mask"
    <3>1. Asked' = chain
      BY <1>4, <1>6, <2>2 DEF Asked, Heard
    <3>2. Uncut(chain) => prompt = Templated(Rendered(chain))
      BY DEF ChatInv, PromptInv, Asked
    <3>3. prompt' = prompt
      BY DEF rollout
    <3> QED
      BY <2>2, <3>1, <3>2, <3>3 DEF PromptInv
  <2> QED
    BY <2>1, <2>2
<1>10. SpansInv'
  <2>1. spans' = spans /\ pc' # "listen"
    BY DEF rollout
  <2>2. ASSUME NEW n \in 1 .. L
        PROVE  /\ chain'[responses'[n] + 1].len > 0
               /\ spans[n][2] = spans[n][1] + chain'[responses'[n] + 1].len
               /\ LET heard == SubSeq(chain', 1, responses'[n])
                  IN  Uncut(heard) => spans[n][1] = PrefixLen + Size(heard) + SuffixLen
    <3>1. chain'[responses'[n] + 1] = chain[responses[n] + 1]
      <4>1. responses[n] + 1 \in DOMAIN chain /\ responses[n] + 1 \in DOMAIN Replied
        BY <1>1, <1>3
      <4> QED
        BY <1>3, <1>4, <4>1 DEF Starts
    <3> QED
      BY <1>1, <1>7, <3>1 DEF ChatInv, SpansInv
  <2>3. /\ chain'[responses'[L + 1] + 1].len > 0
        /\ spans[L + 1][2] = spans[L + 1][1] + chain'[responses'[L + 1] + 1].len
        /\ LET heard == SubSeq(chain', 1, responses'[L + 1])
           IN  Uncut(heard) => spans[L + 1][1] = PrefixLen + Size(heard) + SuffixLen
    <3>1. chain'[responses'[L + 1] + 1] = m
      <4>1. Len(chain) + 1 \in DOMAIN Replied
        BY <1>1, <1>3
      <4> QED
        BY <1>3, <1>4, <4>1 DEF Starts
    <3>2. Uncut(chain) => Len(prompt) = PrefixLen + Size(chain) + SuffixLen
      BY <1>1, PromptLength DEF ChatInv, PromptInv, Asked
    <3>3. spans[L + 1][1] = Len(prompt) /\ spans[L + 1][2] = Len(prompt) + m.len
      BY <1>2
    <3> DEFINE at == responses'[L + 1]
    <3> HIDE DEF m, L, at
    <3>4. chain'[at + 1].len > 0 /\ spans[L + 1][2] = spans[L + 1][1] + chain'[at + 1].len
      BY <1>2, <3>1, <3>3 DEF at
    <3>5. LET heard == SubSeq(chain', 1, at)
          IN  Uncut(heard) => spans[L + 1][1] = PrefixLen + Size(heard) + SuffixLen
      BY <1>6, <3>2, <3>3 DEF at
    <3> QED
      BY <3>4, <3>5 DEF at
  <2>4. \A n \in 1 .. L + 1 : n \in 1 .. L \/ n = L + 1
    BY <1>1
  <2> HIDE DEF L
  <2>5. \A n \in DOMAIN responses' :
          /\ chain'[responses'[n] + 1].len > 0
          /\ spans[n][2] = spans[n][1] + chain'[responses'[n] + 1].len
          /\ LET heard == SubSeq(chain', 1, responses'[n])
             IN  Uncut(heard) => spans[n][1] = PrefixLen + Size(heard) + SuffixLen
    <3> SUFFICES ASSUME NEW n \in 1 .. L + 1
                 PROVE  /\ chain'[responses'[n] + 1].len > 0
                        /\ spans[n][2] = spans[n][1] + chain'[responses'[n] + 1].len
                        /\ LET heard == SubSeq(chain', 1, responses'[n])
                           IN  Uncut(heard) => spans[n][1] = PrefixLen + Size(heard) + SuffixLen
      BY <1>4
    <3>1. CASE n \in 1 .. L
      BY <2>2, <3>1
    <3>2. CASE n = L + 1
      BY <2>3, <3>2
    <3> QED
      BY <2>4, <3>1, <3>2
  <2>6. Len(spans') = Len(responses') + 0
    BY <1>1, <1>2, <1>4, <2>1
  <2> QED
    BY <2>1, <2>5, <2>6 DEF SpansInv, Heard
<1>11. MaskedInv'
  BY DEF MaskedInv
<1> QED
  BY <1>8, <1>9, <1>10, <1>11 DEF ChatInv

LEMMA NextChat == IInv /\ ChatInv /\ IInv' /\ [Next]_vars => ChatInv'
<1> SUFFICES ASSUME IInv, ChatInv, IInv', [Next]_vars PROVE ChatInv'
  OBVIOUS
<1>1. CASE Tokenize
  <2>1. pc = "tokenize" /\ prompt' = Templated(text) /\ UNCHANGED <<chain, responses, observations, shown, spans, turn>>
    BY <1>1 DEF Tokenize, chat
  <2>2. pc' = "generate"
    BY <1>1 DEF Tokenize, IInv
  <2>3. Asked = chain /\ Asked' = chain
    BY <2>1, <2>2 DEF Asked
  <2>4. PromptInv'
    BY <2>1, <2>2, <2>3 DEF ChatInv, PromptInv
  <2>5. ListsInv' /\ SpansInv' /\ MaskedInv'
    BY <2>1, <2>2 DEF ChatInv, ListsInv, SpansInv, MaskedInv, Heard
  <2> QED
    BY <2>4, <2>5 DEF ChatInv
<1>2. CASE Generate
  <2>1. pc = "generate" /\ pc' = "listen" /\ UNCHANGED <<chain, responses, observations, shown, text, prompt, turn>>
    BY <1>2 DEF Generate, chat
  <2>2. PICK len \in ReplyLens : spans' = Append(spans, <<Len(prompt), Len(prompt) + Attended(len)>>)
    BY <1>2 DEF Generate
  <2>3. Asked' = Asked
    BY <2>1 DEF Asked
  <2>4. PromptInv' /\ ListsInv' /\ MaskedInv'
    BY <2>1, <2>3 DEF ChatInv, PromptInv, ListsInv, MaskedInv
  <2>5. SpansInv'
    <3>1. spans \in Seq(Nat \X Nat) /\ Len(spans) = Len(responses) /\ responses \in Seq(Nat)
      BY <2>1 DEF IInv, ChatInv, SpansInv, ListsInv, Lists, Enumerates
    <3>2. Attended(len) \in Nat /\ Len(prompt) \in Nat
      BY LengthAssumption, AttendedBound DEF IInv
    <3>3. Len(spans') = Len(responses) + 1 /\ \A n \in DOMAIN responses : spans'[n] = spans[n]
      BY <2>2, <3>1, <3>2
    <3> QED
      BY <2>1, <3>3 DEF ChatInv, SpansInv, Heard
  <2> QED
    BY <2>4, <2>5 DEF ChatInv
<1>3. ASSUME pc = "listen"
      PROVE  /\ Replied \in Seq(Messages) /\ Starts(Replied, Replied)
             /\ Lists(Replied, RepliedAt, observations)
             /\ \A len \in ObservationLens :
                  LET observed == Append(Replied, Message("assistant", 0, len))
                  IN  /\ observed \in Seq(Messages) /\ Starts(Replied, observed)
                      /\ Lists(observed, RepliedAt, Append(observations, Len(Replied)))
  <2> DEFINE m == Message("agent", turn + 1, Attended(sampled))
  <2>1. /\ chain \in Seq(Messages) /\ sampled \in ReplyLens /\ turn \in 0 .. MaxIter - 1
        /\ Lists(chain, responses, observations)
    BY <1>3 DEF IInv, ChatInv, ListsInv
  <2>2. m \in Messages /\ m.role = "agent" /\ m.turn > 0
    BY <2>1, MessageTypes, TurnAssumption DEF Message
  <2>3. Replied \in Seq(Messages) /\ Lists(Replied, RepliedAt, observations)
    BY <2>1, <2>2, ListsGrow DEF Replied, RepliedAt
  <2>4. Starts(Replied, Replied)
    BY <2>3 DEF Starts
  <2>5. ASSUME NEW len \in ObservationLens
        PROVE  LET observed == Append(Replied, Message("assistant", 0, len))
               IN  /\ observed \in Seq(Messages) /\ Starts(Replied, observed)
                   /\ Lists(observed, RepliedAt, Append(observations, Len(Replied)))
    <3> DEFINE o == Message("assistant", 0, len)
    <3>1. o \in Messages /\ o.role = "assistant" /\ o.turn = 0
      BY MessageTypes DEF Message
    <3> HIDE DEF o
    <3>2. Append(Replied, o) \in Seq(Messages) /\ Starts(Replied, Append(Replied, o))
      BY <2>3, <2>4, <3>1, StartsAppend
    <3>3. Lists(Append(Replied, o), RepliedAt, Append(observations, Len(Replied)))
      BY <2>3, <3>1, ListsGrow
    <3> QED
      BY <3>2, <3>3 DEF o
  <2> QED
    BY <2>3, <2>4, <2>5
<1>4. ASSUME NEW msgs \in Seq(Messages), WriteInFile(msgs) \/ NoMoreTurns(msgs), pc = "listen",
             UNCHANGED rollout, responses' = RepliedAt, Starts(Replied, msgs),
             Lists(msgs, responses', observations')
      PROVE  ChatInv'
  <2>1. Replied \in Seq(Messages)
    BY <1>3, <1>4
  <2>2. /\ chain' = msgs \/ chain' = Append(msgs, Message("system", 0, HintLen))
        /\ shown' = Shown(chain', responses', observations')
        /\ \/ pc' = "tokenize" /\ text' = Truncated(Rendered(shown'))
           \/ pc' = "mask"
    BY <1>4 DEF WriteInFile, NoMoreTurns
  <2>3. chain' \in Seq(Messages) /\ Starts(Replied, chain') /\ Lists(chain', responses', observations')
    <3> DEFINE h == Message("system", 0, HintLen)
    <3>1. h \in Messages /\ h.role = "system" /\ h.turn = 0
      BY MessageTypes DEF Message
    <3> HIDE DEF h
    <3>2. Append(msgs, h) \in Seq(Messages) /\ Starts(Replied, Append(msgs, h))
      BY <1>4, <2>1, <3>1, StartsAppend
    <3>3. Lists(Append(msgs, h), responses', observations')
      BY <1>4, <3>1, ListsGrow
    <3> QED
      BY <1>4, <2>2, <3>2, <3>3 DEF h
  <2> QED
    BY <1>4, <2>2, <2>3, ChatAfterTurn
<1>5. CASE Stop
  BY <1>3, <1>5, ChatAfterTurn DEF Stop
<1>6. CASE Observe
  <2>1. PICK len \in ObservationLens :
          LET observed == Append(Replied, Message("assistant", 0, len))
          IN  /\ observations' = Append(observations, Len(Replied))
              /\ WriteInFile(observed) \/ NoMoreTurns(observed)
    BY <1>6 DEF Observe
  <2>2. pc = "listen" /\ responses' = RepliedAt /\ UNCHANGED rollout
    BY <1>6 DEF Observe
  <2> QED
    BY <1>3, <1>4, <2>1, <2>2
<1>7. CASE Prompt
  BY <1>3, <1>4, <1>7 DEF Prompt
<1>8. CASE Mask
  <2>1. /\ pc = "mask" /\ pc' = "scored"
        /\ UNCHANGED <<chain, responses, observations, shown, text, prompt, spans, turn>>
    BY <1>8 DEF Mask, chat
  <2>2. MaskedInv'
    BY <1>8, <2>1 DEF Mask, MaskedInv, Columns, Start
  <2>3. Asked' = Asked
    BY <2>1 DEF Asked, Heard
  <2>4. PromptInv' /\ ListsInv' /\ SpansInv'
    BY <2>1, <2>3 DEF ChatInv, PromptInv, ListsInv, SpansInv, Heard
  <2> QED
    BY <2>2, <2>4 DEF ChatInv
<1>9. CASE UNCHANGED vars
  BY <1>9 DEF vars, chat, rollout, ChatInv, ListsInv, PromptInv, SpansInv, MaskedInv, Asked, Heard, Start
<1> QED
  BY <1>1, <1>2, <1>5, <1>6, <1>7, <1>8, <1>9 DEF Next, Done

-----------------------------------------------------------------------------
(* What is shown of the chat. *)

\* The dropped messages of a role are those with enough later ones.
LEMMA DroppedListed ==
  ASSUME NEW msgs, NEW role, NEW list, Enumerates(list, msgs, role), NEW keep \in Nat,
         NEW k \in DOMAIN msgs, DOMAIN msgs \subseteq Nat
  PROVE  k - 1 \in Dropped(list, keep) <=>
           /\ msgs[k].role = role
           /\ ~(Cardinality(After(msgs, role, k)) < keep)
<1>1. /\ Len(list) \in Nat /\ DOMAIN list = 1 .. Len(list) /\ k \in Nat
      /\ \A i \in 1 .. Len(list) : list[i] \in Nat /\ list[i] + 1 \in DOMAIN msgs /\ msgs[list[i] + 1].role = role
  BY DEF Enumerates
<1>2. \A i, j \in 1 .. Len(list) : list[i] = list[j] => i = j
  <2> SUFFICES ASSUME NEW i \in 1 .. Len(list), NEW j \in 1 .. Len(list), list[i] = list[j]
               PROVE  i = j
    OBVIOUS
  <2>1. /\ i < j => list[i] < list[j]
        /\ j < i => list[j] < list[i]
    BY <1>1 DEF Enumerates
  <2>2. i \in Nat /\ j \in Nat /\ list[i] \in Nat /\ list[j] \in Nat
    BY <1>1
  <2> QED
    BY <2>1, <2>2
<1>3. CASE msgs[k].role # role
  <2>1. \A i \in 1 .. Len(list) : list[i] # k - 1
    BY <1>1, <1>3
  <2> QED
    BY <1>1, <1>3, <2>1 DEF Dropped
<1>4. CASE msgs[k].role = role
  <2>1. PICK i \in 1 .. Len(list) : list[i] + 1 = k
    BY <1>1, <1>4 DEF Enumerates
  <2>2. After(msgs, role, k) = {list[j] + 1 : j \in i + 1 .. Len(list)}
    <3>1. i \in DOMAIN list
      BY <1>1
    <3>2. After(msgs, role, list[i] + 1) = {list[j] + 1 : j \in i + 1 .. Len(list)}
      BY <3>1, AfterPosition
    <3> QED
      BY <2>1, <3>2
  <2>3. Cardinality({list[j] + 1 : j \in i + 1 .. Len(list)}) = Len(list) - i
    <3>1. i \in 0 .. Len(list)
      BY <1>1
    <3> QED
      BY <3>1, ListedAfter
  <2>4. k - 1 \in Dropped(list, keep) <=> i + keep <= Len(list)
    <3>1. list[i] = k - 1
      BY <1>1, <2>1
    <3>2. k - 1 \in Dropped(list, keep) <=>
            \E j \in 1 .. Len(list) : j + keep <= Len(list) /\ list[j] = k - 1
      BY <1>1 DEF Dropped
    <3> QED
      BY <1>2, <3>1, <3>2
  <2>5. Cardinality(After(msgs, role, k)) = Len(list) - i
    BY <2>2, <2>3, Zenon
  <2>6. i + keep <= Len(list) <=> ~(Len(list) - i < keep)
    BY <1>1
  <2> QED
    BY <1>4, <2>4, <2>5, <2>6
<1> QED
  BY <1>3, <1>4

LEMMA RecentShown == IInv /\ ListsInv => ShownIsRecent
<1> SUFFICES ASSUME IInv, ListsInv, turn > 0 PROVE ShownIsRecent
  BY DEF ShownIsRecent
<1> DEFINE Later(role, k) == {j \in DOMAIN chain : j > k /\ chain[j].role = role}
           Recent(k) == CASE chain[k].role = "agent" ->
                               Cardinality(Later("agent", k)) < ResponsesToKeep
                          [] chain[k].role = "assistant" ->
                               Cardinality(Later("assistant", k)) < ObservationsToKeep
                          [] OTHER -> TRUE
           InOrder(k) == Cardinality({j \in 1 .. k - 1 : Recent(j)}) + 1
           gone == Dropped(responses, ResponsesToKeep) \cup Dropped(observations, ObservationsToKeep)
           kept == {k \in DOMAIN chain : k - 1 \notin gone}
           rank == [x \in kept |-> Cardinality({y \in kept : y < x})]
<1>1. /\ chain \in Seq(Messages) /\ Len(chain) \in Nat /\ DOMAIN chain = 1 .. Len(chain)
      /\ Enumerates(responses, chain, "agent") /\ Enumerates(observations, chain, "assistant")
      /\ ResponsesToKeep \in Nat /\ ObservationsToKeep \in Nat
  BY TurnAssumption DEF IInv, ListsInv, Lists
<1>2. DOMAIN chain \subseteq Nat
  BY <1>1
<1>3. ASSUME NEW k \in DOMAIN chain
      PROVE  Recent(k) <=> k \in kept
  <2>4. Later("agent", k) = After(chain, "agent", k) /\ Later("assistant", k) = After(chain, "assistant", k)
    BY DEF After
  <2> HIDE DEF Later
  <2>1. k - 1 \in Dropped(responses, ResponsesToKeep) <=>
          chain[k].role = "agent" /\ ~(Cardinality(Later("agent", k)) < ResponsesToKeep)
    BY <1>1, <1>2, <2>4, DroppedListed
  <2>2. k - 1 \in Dropped(observations, ObservationsToKeep) <=>
          chain[k].role = "assistant" /\ ~(Cardinality(Later("assistant", k)) < ObservationsToKeep)
    BY <1>1, <1>2, <2>4, DroppedListed
  <2>3. "agent" # "assistant"
    OBVIOUS
  <2> QED
    BY <2>1, <2>2, <2>3
<1>4. kept \in SUBSET Nat /\ kept \in SUBSET (1 .. Len(chain))
  BY <1>1
<1>5. IsFiniteSet(kept) /\ Cardinality(kept) \in Nat
  <2>1. 1 \in Int /\ Len(chain) \in Int
    BY <1>1
  <2>2. IsFiniteSet(1 .. Len(chain))
    BY <2>1, FS_Interval
  <2> HIDE DEF kept
  <2> QED
    BY <1>4, <2>2, FS_Subset, FS_CardinalityType
<1>6. rank \in Bijection(kept, 0 .. Cardinality(kept) - 1)
  <2> HIDE DEF kept
  <2> QED
    BY <1>4, <1>5, RanksOfNumbers
<1>7. shown = [n \in 1 .. Cardinality(kept) |->
                 chain[CHOOSE k \in kept : Cardinality({j \in kept : j < k}) = n - 1]]
  BY DEF ListsInv, Shown
<1>8. {k \in DOMAIN chain : Recent(k)} = kept
  <2> HIDE DEF Recent
  <2> QED
    BY <1>3
<1>9. Len(shown) = Cardinality({k \in DOMAIN chain : Recent(k)})
  <2> DEFINE g(n) == chain[CHOOSE k \in kept : Cardinality({j \in kept : j < k}) = n - 1]
             N == Cardinality(kept)
  <2>1. shown = [n \in 1 .. N |-> g(n)] /\ N \in Nat
    BY <1>5, <1>7
  <2>2. Len(shown) = N
    <3> HIDE DEF g, N
    <3> QED
      BY <2>1
  <2> HIDE DEF kept, Recent
  <2> QED
    BY <1>8, <2>2, Zenon
<1>10. ASSUME NEW k \in DOMAIN chain, Recent(k)
       PROVE  shown[InOrder(k)] = chain[k]
  <2>1. k \in kept
    BY <1>3, <1>10
  <2>2. {j \in 1 .. k - 1 : Recent(j)} = {j \in kept : j < k}
    <3>1. \A j \in 1 .. k - 1 : j \in DOMAIN chain /\ j < k
      BY <1>1
    <3>2. \A j \in kept : j \in DOMAIN chain /\ (j < k => j \in 1 .. k - 1)
      BY <1>1
    <3> HIDE DEF kept, Recent
    <3> QED
      BY <1>3, <3>1, <3>2
  <2>3. InOrder(k) = rank[k] + 1
    <3> HIDE DEF kept, Recent
    <3> QED
      BY <2>1, <2>2
  <2> HIDE DEF InOrder
  <2>4. rank[k] \in 0 .. Cardinality(kept) - 1
    <3> HIDE DEF rank, kept
    <3> QED
      BY <1>6, <2>1 DEF Bijection, Injection
  <2>5. InOrder(k) \in 1 .. Cardinality(kept) /\ InOrder(k) - 1 = rank[k]
    <3> HIDE DEF rank, kept
    <3> QED
      BY <1>5, <2>3, <2>4
  <2>6. \A x \in kept : rank[x] = rank[k] => x = k
    <3> HIDE DEF rank, kept
    <3> QED
      BY <1>6, <2>1 DEF Bijection, Injection, IsInjective
  <2>7. (CHOOSE x \in kept : Cardinality({j \in kept : j < x}) = rank[k]) = k
    <3>1. \A x \in kept : rank[x] = Cardinality({j \in kept : j < x})
      OBVIOUS
    <3> HIDE DEF rank, kept
    <3> QED
      BY <2>1, <2>6, <3>1
  <2> HIDE DEF rank, kept
  <2> QED
    BY <1>7, <2>5, <2>7
<1> QED
  BY <1>9, <1>10 DEF ShownIsRecent

-----------------------------------------------------------------------------
(* What the mask covers. *)

LEMMA TemplatedAt ==
  ASSUME NEW t, IsSequence(t), NEW i \in 1 .. PrefixLen + Len(t) + SuffixLen
  PROVE  Templated(t)[i] = IF i \in PrefixLen + 1 .. PrefixLen + Len(t) THEN t[i - PrefixLen] ELSE 0
<1> DEFINE S == {t[k] : k \in DOMAIN t} \cup {0}
           a == Zeros(PrefixLen)
           z == Zeros(SuffixLen)
<1>1. t \in Seq(S) /\ PrefixLen \in Nat /\ SuffixLen \in Nat /\ Len(t) \in Nat
  BY LengthAssumption DEF IsSequence
<1>2. a \in Seq(S) /\ Len(a) = PrefixLen /\ \A k \in 1 .. PrefixLen : a[k] = 0
  BY <1>1 DEF Zeros
<1>3. z \in Seq(S) /\ Len(z) = SuffixLen /\ \A k \in 1 .. SuffixLen : z[k] = 0
  BY <1>1 DEF Zeros
<1> HIDE DEF a, z, S
<1>4. /\ a \o t \in Seq(S) /\ Len(a \o t) = PrefixLen + Len(t)
      /\ \A k \in 1 .. PrefixLen : (a \o t)[k] = 0
      /\ \A k \in PrefixLen + 1 .. PrefixLen + Len(t) : (a \o t)[k] = t[k - PrefixLen]
  BY <1>1, <1>2
<1>5. Templated(t) = (a \o t) \o z
  BY DEF Templated, a, z
<1>6. CASE i <= PrefixLen + Len(t)
  <2>1. Templated(t)[i] = (a \o t)[i]
    BY <1>1, <1>3, <1>4, <1>5, <1>6
  <2> QED
    BY <1>1, <1>4, <1>6, <2>1
<1>7. CASE i > PrefixLen + Len(t)
  <2>1. i - (PrefixLen + Len(t)) \in 1 .. SuffixLen
    BY <1>1, <1>7
  <2>2. Templated(t)[i] = z[i - (PrefixLen + Len(t))]
    BY <1>1, <1>3, <1>4, <1>5, <1>7
  <2> QED
    BY <1>1, <1>3, <1>7, <2>1, <2>2
<1> QED
  BY <1>1, <1>6, <1>7

\* Of an uncut chat nothing was cut when it was shorter.
LEMMA UncutBeginning ==
  ASSUME NEW msgs \in Seq(Messages), Uncut(msgs), NEW k \in DOMAIN msgs, msgs[k].len > 0
  PROVE  /\ Uncut(Beginning(msgs, k))
         /\ Size(Beginning(msgs, k)) + HeaderLen + msgs[k].len <= Size(msgs)
<1> DEFINE b == Beginning(msgs, k)
           In(s, role) == {i \in DOMAIN s : s[i].role = role}
<1>1. /\ Len(msgs) \in Nat /\ DOMAIN msgs = 1 .. Len(msgs) /\ k \in Nat
      /\ DOMAIN b = 1 .. k - 1 /\ \A i \in 1 .. k - 1 : b[i] = msgs[i]
  <2>1. k \in 1 .. Len(msgs) + 1
    OBVIOUS
  <2> QED
    BY <2>1, BeginningType
<1>2. ASSUME NEW role PROVE Cardinality(In(b, role)) <= Cardinality(In(msgs, role))
                            /\ Cardinality(In(b, role)) \in Nat /\ Cardinality(In(msgs, role)) \in Nat
  <2>1. In(b, role) \in SUBSET In(msgs, role)
    <3>1. \A i \in 1 .. k - 1 : i \in DOMAIN msgs
      BY <1>1
    <3> HIDE DEF b
    <3> QED
      BY <1>1, <3>1
  <2>2. IsFiniteSet(In(msgs, role))
    <3>1. 1 \in Int /\ Len(msgs) \in Int
      BY <1>1
    <3>2. IsFiniteSet(1 .. Len(msgs))
      BY <3>1, FS_Interval
    <3>3. In(msgs, role) \in SUBSET (1 .. Len(msgs))
      BY <1>1
    <3> QED
      BY <3>2, <3>3, FS_Subset
  <2> HIDE DEF In
  <2> QED
    BY <2>1, <2>2, FS_Subset, FS_CardinalityType
<1>3. /\ Size(b) \in Nat /\ Size(msgs) \in Nat /\ HeaderLen \in Nat /\ msgs[k].len \in Nat
  <2>1. msgs[k] \in Messages
    OBVIOUS
  <2> QED
    BY <2>1, SizesOf, MessageType, LengthAssumption
<1>4. Size(b) + HeaderLen + msgs[k].len <= Size(msgs)
  <2>1. HeaderLen + msgs[k].len \in 1 .. HeaderLen + msgs[k].len
    BY <1>3
  <2>2. Size(b) + (HeaderLen + msgs[k].len) \in 1 .. Size(msgs)
    BY <2>1, RenderedToken
  <2> QED
    BY <1>3, <2>2
<1>5. ResponsesToKeep \in Nat /\ ObservationsToKeep \in Nat /\ TokensToKeep \in Nat
  BY TurnAssumption, BufferAssumption, LengthAssumption DEF TokensToKeep
<1>6. /\ Cardinality(In(msgs, "agent")) <= ResponsesToKeep
      /\ Cardinality(In(msgs, "assistant")) <= ObservationsToKeep
      /\ Size(msgs) < TokensToKeep
  BY DEF Uncut, Size
<1>7. /\ Cardinality(In(b, "agent")) <= ResponsesToKeep
      /\ Cardinality(In(b, "assistant")) <= ObservationsToKeep
      /\ Size(b) < TokensToKeep
  <2> HIDE DEF In, b
  <2> QED
    BY <1>2, <1>3, <1>4, <1>5, <1>6
<1>8. Uncut(b)
  BY <1>7 DEF Uncut, Size
<1> QED
  BY <1>4, <1>8

\* The replies in the last prompt: n is the number of the reply.
LEMMA EarlierReplies ==
  ASSUME IInv, ChatInv, pc = "scored", Uncut(Heard(Len(responses)))
  PROVE  LET m == Heard(Len(responses))
             L == Len(responses)
         IN  /\ m \in Seq(Messages) /\ L \in Nat \ {0} /\ Size(m) \in Nat
             /\ prompt = Templated(Rendered(m))
             /\ \A n \in 1 .. L - 1 :
                  /\ responses[n] \in Nat /\ responses[n] + 1 \in DOMAIN m
                  /\ m[responses[n] + 1] = chain[responses[n] + 1]
                  /\ m[responses[n] + 1].turn > 0
                  /\ Beginning(m, responses[n] + 1) = Heard(n)
             /\ \A k \in DOMAIN m : m[k].turn > 0 => \E n \in 1 .. L - 1 : k = responses[n] + 1
<1> DEFINE L == Len(responses)
           m == Heard(L)
           b == responses[L]
<1>1. /\ chain \in Seq(Messages) /\ Len(chain) \in Nat /\ DOMAIN chain = 1 .. Len(chain)
      /\ L \in Nat \ {0} /\ DOMAIN responses = 1 .. L
      /\ \A n \in 1 .. L : responses[n] \in Nat /\ responses[n] + 1 \in DOMAIN chain
                           /\ chain[responses[n] + 1].role = "agent"
      /\ \A k \in DOMAIN chain : chain[k].role = "agent" => \E n \in 1 .. L : responses[n] + 1 = k
      /\ \A i, j \in 1 .. L : i < j => responses[i] < responses[j]
      /\ \A k \in DOMAIN chain : chain[k].turn > 0 <=> chain[k].role = "agent"
  <2>1. chain \in Seq(Messages) /\ Lists(chain, responses, observations) /\ responses # << >>
    BY DEF IInv, ChatInv, ListsInv
  <2> QED
    BY <2>1 DEF Lists, Enumerates
<1>2. L \in 1 .. L /\ b \in 0 .. Len(chain) /\ b \in Nat
  BY <1>1
<1>3. m \in Seq(Messages) /\ Len(m) = b /\ DOMAIN m = 1 .. b /\ \A k \in 1 .. b : m[k] = chain[k]
  BY <1>1, <1>2 DEF Heard
<1>4. prompt = Templated(Rendered(m))
  BY DEF ChatInv, PromptInv, Asked
<1>5. Size(m) \in Nat
  BY <1>2, <1>3, TokensFinite
<1>6. ASSUME NEW n \in 1 .. L - 1
      PROVE  /\ responses[n] \in Nat /\ responses[n] + 1 \in DOMAIN m
             /\ m[responses[n] + 1] = chain[responses[n] + 1]
             /\ m[responses[n] + 1].turn > 0
             /\ Beginning(m, responses[n] + 1) = Heard(n)
  <2>1. n \in 1 .. L /\ n < L
    BY <1>1
  <2>2. responses[n] \in Nat /\ responses[n] < b
    BY <1>1, <1>2, <2>1
  <2>3. responses[n] + 1 \in 1 .. b
    BY <1>2, <2>2
  <2>4. m[responses[n] + 1] = chain[responses[n] + 1] /\ m[responses[n] + 1].turn > 0
    BY <1>1, <1>3, <2>1, <2>3
  <2>5. SubSeq(chain, 1, responses[n]) = SubSeq(m, 1, responses[n])
    <3>1. Starts(m, chain)
      BY <1>1, <1>2, <1>3 DEF Starts
    <3>2. responses[n] \in 0 .. Len(m)
      BY <1>2, <1>3, <2>2
    <3> HIDE DEF m
    <3> QED
      BY <1>1, <1>3, <3>1, <3>2, StartsAgree
  <2>6. (responses[n] + 1) - 1 = responses[n]
    BY <2>2
  <2> HIDE DEF m
  <2> QED
    BY <1>3, <2>2, <2>3, <2>4, <2>5, <2>6 DEF Beginning, Heard
<1>7. ASSUME NEW k \in DOMAIN m, m[k].turn > 0
      PROVE  \E n \in 1 .. L - 1 : k = responses[n] + 1
  <2>1. k \in 1 .. b /\ k \in DOMAIN chain /\ chain[k].turn > 0
    BY <1>1, <1>2, <1>3, <1>7
  <2>2. PICK n \in 1 .. L : responses[n] + 1 = k
    BY <1>1, <2>1
  <2>3. n # L
    BY <1>2, <2>1, <2>2
  <2>4. n \in 1 .. L - 1
    <3> HIDE DEF L
    <3> QED
      BY <1>1, <2>3
  <2> QED
    BY <2>2, <2>4
<1> HIDE DEF m
<1>8. /\ m \in Seq(Messages) /\ L \in Nat \ {0} /\ Size(m) \in Nat
      /\ prompt = Templated(Rendered(m))
      /\ \A n \in 1 .. L - 1 :
           /\ responses[n] \in Nat /\ responses[n] + 1 \in DOMAIN m
           /\ m[responses[n] + 1] = chain[responses[n] + 1]
           /\ m[responses[n] + 1].turn > 0
           /\ Beginning(m, responses[n] + 1) = Heard(n)
      /\ \A k \in DOMAIN m : m[k].turn > 0 => \E n \in 1 .. L - 1 : k = responses[n] + 1
  BY <1>1, <1>3, <1>4, <1>5, <1>6, <1>7
<1> QED
  BY <1>8 DEF m

LEMMA MaskMoves == IInv /\ ChatInv => MaskIsMovedReplies
<1> SUFFICES ASSUME IInv, ChatInv, pc = "scored", Uncut(Heard(Len(responses)))
             PROVE  MaskIsMovedReplies
  BY DEF MaskIsMovedReplies
<1> DEFINE L == Len(responses)
           m == Heard(L)
           M == MaxPromptLength
           P == PrefixLen
           S == SuffixLen
           H == HeaderLen
           N == Size(m)
           A == Attended(sampled)
           at(n) == Size(Heard(n))
           ln(n) == chain[responses[n] + 1].len
<1>1. /\ m \in Seq(Messages) /\ L \in Nat \ {0} /\ N \in Nat
      /\ prompt = Templated(Rendered(m))
      /\ \A n \in 1 .. L - 1 :
           /\ responses[n] \in Nat /\ responses[n] + 1 \in DOMAIN m
           /\ m[responses[n] + 1] = chain[responses[n] + 1]
           /\ m[responses[n] + 1].turn > 0
           /\ Beginning(m, responses[n] + 1) = Heard(n)
      /\ \A k \in DOMAIN m : m[k].turn > 0 => \E n \in 1 .. L - 1 : k = responses[n] + 1
  BY EarlierReplies
<1>2. /\ {M, P, S, H, MaxReply} \subseteq Nat /\ A \in 1 .. MaxReply
      /\ Len(prompt) = P + N + S /\ P + N + S <= M /\ turn \in Nat
  <2>1. {M, P, S, H, MaxReply} \subseteq Nat
    BY LengthAssumption
  <2>2. sampled \in ReplyLens /\ Len(prompt) \in 0 .. M /\ turn \in Nat
    BY DEF IInv
  <2>3. A \in 0 .. MaxReply /\ A > 0
    <3>1. sampled \in Nat
      BY <2>2, LengthAssumption
    <3> QED
      BY <2>2, <3>1, AttendedBound, AttendedPositive
  <2>4. Len(prompt) = P + N + S
    BY <1>1, PromptLength
  <2> QED
    BY <2>1, <2>2, <2>3, <2>4
<1>3. ASSUME NEW n \in 1 .. L - 1
      PROVE  /\ at(n) \in Nat /\ ln(n) \in Nat \ {0} /\ at(n) + H + ln(n) <= N
             /\ spans[n][1] = P + at(n) + S /\ spans[n][2] = P + at(n) + S + ln(n)
  <2>1. n \in DOMAIN responses
    <3>1. DOMAIN responses = 1 .. L
      BY DEF ChatInv, ListsInv, Lists, Enumerates
    <3> QED
      BY <1>1, <3>1
  <2>2. /\ ln(n) > 0 /\ spans[n][2] = spans[n][1] + ln(n)
        /\ Uncut(Heard(n)) => spans[n][1] = P + at(n) + S
    BY <2>1 DEF ChatInv, SpansInv
  <2>3. responses[n] + 1 \in DOMAIN m /\ m[responses[n] + 1].len = ln(n)
        /\ Beginning(m, responses[n] + 1) = Heard(n)
    BY <1>1
  <2>4. Uncut(Heard(n)) /\ at(n) + H + ln(n) <= N
    <3> HIDE DEF m
    <3> QED
      BY <1>1, <2>2, <2>3, UncutBeginning DEF m
  <2>5. at(n) \in Nat /\ ln(n) \in Nat
    <3>1. m[responses[n] + 1] \in Messages
      BY <1>1, <2>3
    <3>2. Size(Beginning(m, responses[n] + 1)) \in Nat
      BY <1>1, <2>3, SizesOf
    <3> QED
      BY <2>3, <3>1, <3>2, MessageType
  <2> QED
    BY <2>2, <2>4, <2>5
<1>4. /\ Len(spans) = L /\ DOMAIN spans = 1 .. L
      /\ spans[L][1] = P + N + S /\ spans[L][2] = P + N + S + A
  <2>1. Len(spans) = L + 0 /\ spans \in Seq(Nat \X Nat)
        /\ spans[Len(spans)] = <<Len(prompt), Len(prompt) + A>>
    BY DEF IInv, ChatInv, SpansInv
  <2>2. Len(spans) = L /\ DOMAIN spans = 1 .. L
    BY <1>1, <2>1
  <2> QED
    BY <1>2, <2>1, <2>2
<1> DEFINE base == Start + P
<1>5. Start \in Nat /\ Start + (P + N + S) = M /\ base \in Nat /\ base + N + S = M
  <2>1. Start = M - (P + N + S) /\ N \in Nat /\ P \in Nat /\ S \in Nat /\ M \in Nat
    BY <1>1, <1>2 DEF Start
  <2> HIDE DEF N
  <2> QED
    BY <1>2, <2>1
\* The prompt's tokens of replies.
<1>6. ASSUME NEW e \in Columns, e < M
      PROVE  Owner(e) > 0 <=> \E n \in 1 .. L - 1 : \E i \in 0 .. ln(n) - 1 : e = base + at(n) + H + i
  <2>1. IsSequence(Rendered(m)) /\ Len(Rendered(m)) = N
    BY <1>1, RenderedSequence, RenderedLength
  <2>2. ASSUME NEW x \in 1 .. P + N + S
        PROVE  prompt[x] = IF x \in P + 1 .. P + N THEN Rendered(m)[x - P] ELSE 0
    <3> HIDE DEF m
    <3> QED
      BY <1>1, <2>1, TemplatedAt
  <2>3. CASE e < Start
    <3>1. Owner(e) = 0
      BY <1>2, <1>5, <2>3 DEF Owner, Columns
    <3>2. ASSUME NEW n \in 1 .. L - 1, NEW i \in 0 .. ln(n) - 1 PROVE e # base + at(n) + H + i
      <4>1. /\ at(n) \in Nat /\ ln(n) \in Nat /\ P \in Nat /\ H \in Nat
            /\ Start \in Nat /\ i \in Nat
        BY <1>2, <1>3, <1>5
      <4>2. PICK t \in Nat, z \in Nat : t = at(n) /\ z = Start
        BY <4>1
      <4>3. e < z /\ i \in Nat
        BY <2>3, <4>1, <4>2
      <4>4. e # z + P + t + H + i
        <5> HIDE DEF at, ln, base
        <5> QED
          BY <4>1, <4>3
      <4> HIDE DEF at, ln
      <4> QED
        BY <4>2, <4>4
    <3> QED
      BY <3>1, <3>2
  <2>4. CASE e >= Start
    <3> DEFINE x == e - Start + 1
    <3>1. x \in 1 .. P + N + S /\ x \in Nat /\ e = Start + x - 1
      BY <1>2, <1>5, <2>4, <1>6 DEF Columns
    <3>2. Owner(e) = prompt[x]
      BY <1>2, <1>5, <2>4, <1>6 DEF Owner, Columns
    <3>3. ASSUME NEW n \in 1 .. L - 1, NEW i \in 0 .. ln(n) - 1, e = base + at(n) + H + i
          PROVE  Owner(e) > 0
      <4> DEFINE p == H + i + 1
                 c == at(n) + p
      <4>1. at(n) \in Nat /\ ln(n) \in Nat \ {0} /\ at(n) + H + ln(n) <= N /\ H \in Nat /\ P \in Nat
            /\ Start \in Nat /\ N \in Nat
        BY <1>1, <1>2, <1>3, <1>5
      <4>2. p \in 1 .. H + ln(n) /\ p > H /\ c \in 1 .. N
        <5> HIDE DEF at, ln, N
        <5> QED
          BY <4>1
      <4>3. x = P + c
        <5>1. e = (Start + P) + at(n) + H + i /\ i \in Nat
          BY <1>3, <3>3
        <5>2. PICK t \in Nat, z \in Nat, j \in Nat : t = at(n) /\ z = Start /\ j = i
          BY <4>1, <5>1
        <5>3. ((z + P) + t + H + j) - z + 1 = P + (t + (H + j + 1))
          BY <4>1
        <5> HIDE DEF at, ln, N
        <5> QED
          BY <5>1, <5>2, <5>3
      <4>4. Rendered(m)[c] = m[responses[n] + 1].turn
        <5>1. /\ responses[n] + 1 \in DOMAIN m /\ m[responses[n] + 1].len = ln(n)
              /\ Beginning(m, responses[n] + 1) = Heard(n)
          BY <1>1
        <5>2. Rendered(m)[Size(Beginning(m, responses[n] + 1)) + p] =
                IF p > H THEN m[responses[n] + 1].turn ELSE 0
          <6> HIDE DEF m, p
          <6> QED
            BY <1>1, <4>2, <5>1, RenderedToken
        <5> QED
          BY <4>2, <5>1, <5>2
      <4>5. prompt[x] = Rendered(m)[c]
        <5>1. x \in P + 1 .. P + N /\ x - P = c
          <6> HIDE DEF c, x, N
          <6> QED
            BY <4>1, <4>2, <4>3
        <5> HIDE DEF c, x, N
        <5> QED
          BY <2>2, <3>1, <5>1
      <4> QED
        BY <1>1, <3>2, <4>4, <4>5
    <3>4. ASSUME Owner(e) > 0
          PROVE  \E n \in 1 .. L - 1 : \E i \in 0 .. ln(n) - 1 : e = base + at(n) + H + i
      <4> DEFINE c == x - P
      <4>1. x \in P + 1 .. P + N /\ prompt[x] = Rendered(m)[c]
        <5>1. ~(0 > 0)
          OBVIOUS
        <5> HIDE DEF x, N
        <5> QED
          BY <2>2, <3>1, <3>2, <3>4, <5>1
      <4>2. c \in 1 .. N
        <5> HIDE DEF x, N
        <5> QED
          BY <1>1, <1>2, <3>1, <4>1
      <4>0. PICK k \in DOMAIN m : \E p \in 1 .. H + m[k].len : c = Size(Beginning(m, k)) + p
        <5> HIDE DEF m, c
        <5> QED
          BY <1>1, <4>2, RenderedAt
      <4>3. PICK p \in 1 .. H + m[k].len : c = Size(Beginning(m, k)) + p
        BY <4>0
      <4>4. Rendered(m)[c] = IF p > H THEN m[k].turn ELSE 0
        <5> HIDE DEF m, c
        <5> QED
          BY <1>1, <4>3, RenderedToken
      <4>5. p > H /\ m[k].turn > 0
        <5>1. ~(0 > 0)
          OBVIOUS
        <5> HIDE DEF m, c, x
        <5> QED
          BY <3>2, <3>4, <4>1, <4>4, <5>1
      <4>6. PICK n \in 1 .. L - 1 : k = responses[n] + 1
        BY <1>1, <4>5
      <4>7. m[k].len = ln(n) /\ Beginning(m, k) = Heard(n)
        BY <1>1, <4>6
      <4>8. c = at(n) + p /\ p \in 1 .. H + ln(n)
        BY <4>3, <4>7
      <4> DEFINE i == p - H - 1
      <4>9. i \in 0 .. ln(n) - 1 /\ e = base + at(n) + H + i
        <5>1. at(n) \in Nat /\ ln(n) \in Nat /\ H \in Nat /\ P \in Nat /\ Start \in Nat /\ p \in Nat
          <6>1. p \in Nat
            <7>1. H \in Nat /\ ln(n) \in Nat
              BY <1>2, <1>3
            <7> HIDE DEF ln
            <7> QED
              BY <4>8, <7>1
          <6> QED
            BY <1>2, <1>3, <1>5, <6>1
        <5>2. x = P + (at(n) + p)
          <6> HIDE DEF x, at
          <6> QED
            BY <3>1, <4>8, <5>1
        <5>3. p \in 1 .. H + ln(n) /\ p > H /\ e = Start + x - 1 /\ x \in Nat
          BY <3>1, <4>5, <4>8
        <5>4. PICK t \in Nat, l \in Nat, z \in Nat : t = at(n) /\ l = ln(n) /\ z = Start
          BY <5>1
        <5>5. p \in 1 .. H + l /\ e = z + x - 1 /\ x = P + (t + p)
          BY <5>2, <5>3, <5>4
        <5>6. p - H - 1 \in 0 .. l - 1
          <6> HIDE DEF x, at, ln
          <6> QED
            BY <5>1, <5>3, <5>5
        <5>7. z + (P + (t + p)) - 1 = (z + P) + t + H + (p - H - 1)
          <6> HIDE DEF x, at, ln
          <6> QED
            BY <5>1
        <5>8. e = z + (P + (t + p)) - 1
          BY <5>5
        <5> HIDE DEF x, at, ln
        <5> QED
          BY <5>4, <5>6, <5>7, <5>8
      <4> QED
        BY <4>9
    <3> QED
      BY <3>3, <3>4
  <2>5. e \in Nat /\ Start \in Nat
    BY <1>5 DEF Columns
  <2> QED
    BY <2>3, <2>4, <2>5
<1>7. ASSUME NEW e \in Columns, e >= M
      PROVE  Owner(e) > 0 <=> e < M + A
  <2>1. e \in Nat /\ M \in Nat /\ A \in Nat /\ A > 0 /\ turn + 1 > 0 /\ ~(0 > 0)
    BY <1>2 DEF Columns
  <2>2. e \notin Start .. M - 1 /\ (e \in M .. M + A - 1 <=> e < M + A)
    BY <1>5, <1>7, <2>1
  <2> HIDE DEF A
  <2> QED
    BY <2>1, <2>2 DEF Owner, A
\* The columns of the mask, span by span.
<1>8. ASSUME NEW c \in Columns
      PROVE  c \in mask <=>
               \/ \E n \in 1 .. L - 1 : \E i \in 0 .. ln(n) - 1 : c = base + at(n) + S + i
               \/ M <= c /\ c < M + A
  <2>1. c \in mask <=> \E k \in 1 .. L : spans[k][1] + Start <= c /\ c < spans[k][2] + Start
    BY <1>4 DEF ChatInv, MaskedInv
  <2>2. c \in Nat /\ Start \in Nat /\ M \in Nat /\ A \in Nat
    BY <1>2, <1>5 DEF Columns
  <2>3. spans[L][1] + Start <= c /\ c < spans[L][2] + Start <=> M <= c /\ c < M + A
    <3>1. spans[L][1] + Start = M /\ spans[L][2] + Start = M + A
      <4>1. N \in Nat /\ P \in Nat /\ S \in Nat
        BY <1>1, <1>2
      <4>2. PICK k \in Nat, z \in Nat, a \in Nat : k = N /\ z = Start /\ a = A
        BY <2>2, <4>1
      <4> HIDE DEF N, A
      <4>3. z + (P + k + S) = M /\ spans[L][1] = P + k + S /\ spans[L][2] = P + k + S + a
        BY <1>4, <1>5, <4>2
      <4>4. (P + k + S) + z = M /\ (P + k + S + a) + z = M + a
        BY <2>2, <4>1, <4>3
      <4> QED
        BY <4>2, <4>3, <4>4
    <3> QED
      BY <3>1
  <2>4. ASSUME NEW k \in 1 .. L - 1
        PROVE  spans[k][1] + Start <= c /\ c < spans[k][2] + Start <=>
                 \E i \in 0 .. ln(k) - 1 : c = base + at(k) + S + i
    <3>1. /\ at(k) \in Nat /\ ln(k) \in Nat \ {0} /\ P \in Nat /\ S \in Nat
          /\ spans[k][1] = P + at(k) + S /\ spans[k][2] = P + at(k) + S + ln(k)
      BY <1>2, <1>3
    <3>2. PICK t \in Nat, l \in Nat, z \in Nat : t = at(k) /\ l = ln(k) /\ z = Start
      BY <2>2, <3>1
    <3> HIDE DEF at, ln
    <3>3. spans[k][1] + Start = P + t + S + z /\ spans[k][2] + Start = P + t + S + l + z
      BY <3>1, <3>2
    <3>4. P + t + S + z <= c /\ c < P + t + S + l + z <=>
            \E i \in 0 .. l - 1 : c = (z + P) + t + S + i
      <4>1. ASSUME P + t + S + z <= c, c < P + t + S + l + z
            PROVE  \E i \in 0 .. l - 1 : c = (z + P) + t + S + i
        <5> DEFINE j == c - (P + t + S + z)
        <5>1. j \in 0 .. l - 1 /\ c = (z + P) + t + S + j
          BY <2>2, <3>1, <4>1
        <5> QED
          BY <5>1
      <4>2. ASSUME NEW i \in 0 .. l - 1, c = (z + P) + t + S + i
            PROVE  P + t + S + z <= c /\ c < P + t + S + l + z
        <5>1. i \in Nat /\ i < l /\ P \in Nat /\ S \in Nat
          BY <3>1
        <5>2. P + t + S + z <= (z + P) + t + S + i /\ (z + P) + t + S + i < P + t + S + l + z
          BY <5>1
        <5> QED
          BY <4>2, <5>2
      <4> QED
        BY <4>1, <4>2
    <3> QED
      BY <3>2, <3>3, <3>4
  <2>5. \A k \in 1 .. L : k \in 1 .. L - 1 \/ k = L
    BY <1>1
  <2>6. \A k \in 1 .. L - 1 : k \in 1 .. L
    BY <1>1
  <2>7. L \in 1 .. L
    BY <1>1
  <2> HIDE DEF L, M, A, at, ln, base
  <2> QED
    BY <2>1, <2>3, <2>4, <2>5, <2>6, <2>7
<1> DEFINE Earlier == {c \in ReplyColumns : c < MaxPromptLength}
           Last == ReplyColumns \ Earlier
           moved == {c \in Columns : c + HeaderLen \in {e + SuffixLen : e \in Earlier}}
<1>9. \A e : e \in Earlier <=>
        e \in Columns /\ e < M /\ \E n \in 1 .. L - 1 : \E i \in 0 .. ln(n) - 1 : e = base + at(n) + H + i
  <2> HIDE DEF at, ln, base, L
  <2> QED
    BY <1>6 DEF ReplyColumns
<1>10. \A e : e \in Last <=> e \in Columns /\ M <= e /\ e < M + A
  <2>1. \A e \in Columns : e \in Nat /\ (e >= M <=> ~(e < M)) /\ (e >= M <=> M <= e)
    BY <1>2 DEF Columns
  <2>2. \A e : e \in Last <=> e \in Columns /\ Owner(e) > 0 /\ ~(e < M)
    BY DEF ReplyColumns
  <2> HIDE DEF Last, A
  <2> QED
    BY <1>7, <2>1, <2>2
<1>11. ASSUME NEW n \in 1 .. L - 1, NEW i \in 0 .. ln(n) - 1
       PROVE  /\ base + at(n) + H + i \in Columns /\ base + at(n) + H + i < M
              /\ base + at(n) + S + i \in Columns
              /\ Start <= base + at(n) + S + i /\ base + at(n) + S + i < M
  <2>1. /\ at(n) \in Nat /\ ln(n) \in Nat /\ at(n) + H + ln(n) <= N
        /\ P \in Nat /\ S \in Nat /\ H \in Nat /\ N \in Nat /\ M \in Nat /\ MaxReply \in Nat
        /\ base \in Nat /\ Start \in Nat /\ base + N + S = M /\ Start <= base
    <3>1. at(n) \in Nat /\ ln(n) \in Nat /\ at(n) + H + ln(n) <= N
      BY <1>3
    <3>2. /\ P \in Nat /\ S \in Nat /\ H \in Nat /\ N \in Nat /\ M \in Nat /\ MaxReply \in Nat
          /\ base \in Nat /\ Start \in Nat /\ base + N + S = M
      BY <1>1, <1>2, <1>5
    <3>3. Start <= base
      <4> HIDE DEF N
      <4> QED
        BY <3>2
    <3> QED
      BY <3>1, <3>2, <3>3
  <2>2. i \in Nat /\ i + 1 <= ln(n)
    <3> HIDE DEF ln
    <3> QED
      BY <2>1
  <2>3. PICK t \in Nat, l \in Nat, b \in Nat, k \in Nat, z \in Nat :
          t = at(n) /\ l = ln(n) /\ b = base /\ k = N /\ z = Start
    BY <2>1
  <2> HIDE DEF at, ln, base, N
  <2>4. t + H + l <= k /\ i + 1 <= l /\ b + k + S = M /\ z <= b
    BY <2>1, <2>2, <2>3
  <2>5. b + t + H + i \in Nat /\ b + t + H + i < M
    BY <2>1, <2>2, <2>4
  <2>6. b + t + S + i \in Nat /\ z <= b + t + S + i /\ b + t + S + i < M
    BY <2>1, <2>2, <2>4
  <2>7. \A c \in Nat : c < M => c \in Columns
    BY <2>1 DEF Columns
  <2> QED
    BY <2>3, <2>5, <2>6, <2>7
<1>12. ASSUME NEW c \in Columns
       PROVE  c \in moved <=>
                \E n \in 1 .. L - 1 : \E i \in 0 .. ln(n) - 1 : c = base + at(n) + S + i
  <2>1. c \in moved <=> \E e \in Earlier : c + H = e + S
    OBVIOUS
  <2>2. ASSUME NEW n \in 1 .. L - 1, NEW i \in 0 .. ln(n) - 1, c = base + at(n) + S + i
        PROVE  \E e \in Earlier : c + H = e + S
    <3>1. base + at(n) + H + i \in Earlier
      <4> HIDE DEF Earlier
      <4> QED
        BY <1>9, <1>11
    <3>2. c + H = (base + at(n) + H + i) + S
      <4>1. at(n) \in Nat /\ {S, H, base} \subseteq Nat /\ i \in Int
        BY <1>2, <1>3, <1>5
      <4>2. PICK t \in Nat, b \in Nat : t = at(n) /\ b = base
        BY <4>1
      <4>3. (b + t + S + i) + H = (b + t + H + i) + S
        BY <4>1
      <4> HIDE DEF at, base
      <4> QED
        BY <2>2, <4>2, <4>3
    <3> QED
      BY <3>1, <3>2
  <2>3. ASSUME NEW e \in Earlier, c + H = e + S
        PROVE  \E n \in 1 .. L - 1 : \E i \in 0 .. ln(n) - 1 : c = base + at(n) + S + i
    <3>1. PICK n \in 1 .. L - 1 : \E i \in 0 .. ln(n) - 1 : e = base + at(n) + H + i
      <4> HIDE DEF Earlier
      <4> QED
        BY <1>9
    <3>2. PICK i \in 0 .. ln(n) - 1 : e = base + at(n) + H + i
      BY <3>1
    <3>3. c = base + at(n) + S + i
      <4>1. at(n) \in Nat /\ {S, H, base, c} \subseteq Nat /\ i \in Int
        BY <1>2, <1>3, <1>5 DEF Columns
      <4>2. c + H = (base + at(n) + H + i) + S
        BY <2>3, <3>2
      <4>3. PICK t \in Nat, b \in Nat : t = at(n) /\ b = base
        BY <4>1
      <4> HIDE DEF at, ln, base
      <4>4. c + H = (b + t + H + i) + S
        BY <4>2, <4>3
      <4>5. c = b + t + S + i
        <5>1. c \in Nat /\ S \in Nat /\ H \in Nat /\ i \in Int
          BY <4>1
        <5> HIDE DEF L
        <5> QED
          BY <4>4, <5>1
      <4> QED
        BY <4>3, <4>5
    <3> QED
      BY <3>3
  <2> HIDE DEF moved, Earlier
  <2> QED
    BY <2>1, <2>2, <2>3
<1>13. mask \subseteq Columns
  BY DEF ChatInv, MaskedInv
<1>14. mask = moved \cup Last
  <2>1. moved \subseteq Columns /\ Last \subseteq Columns
    BY DEF ReplyColumns
  <2> HIDE DEF moved, Last, at, ln, base, L, A
  <2> QED
    BY <1>8, <1>10, <1>12, <1>13, <2>1
<1>15. mask \subseteq AttendedColumns
  <2> SUFFICES ASSUME NEW c \in mask PROVE c \in Start .. M + A - 1
    BY DEF AttendedColumns
  <2>1. c \in Columns /\ {c, M, A, Start} \subseteq Nat /\ Start <= M /\ A > 0
    <3>1. c \in Columns /\ {M, A, Start, P, N, S} \subseteq Nat /\ Start + (P + N + S) = M
      BY <1>1, <1>2, <1>5, <1>13
    <3>2. c \in Nat
      BY <3>1 DEF Columns
    <3>3. A > 0
      BY <1>2
    <3>4. Start <= M
      <4> HIDE DEF N
      <4> QED
        BY <3>1
    <3> QED
      BY <3>1, <3>2, <3>3, <3>4
  <2>2. CASE M <= c /\ c < M + A
    BY <2>1, <2>2
  <2>3. CASE \E n \in 1 .. L - 1 : \E i \in 0 .. ln(n) - 1 : c = base + at(n) + S + i
    <3>1. Start <= c /\ c < M
      <4> HIDE DEF at, ln, base, L
      <4> QED
        BY <1>11, <2>3
    <3> QED
      BY <2>1, <3>1
  <2> QED
    BY <1>8, <2>1, <2>2, <2>3
<1> QED
  BY <1>14, <1>15 DEF MaskIsMovedReplies

\* What the lists, the prompt and the spans of a rollout are in every state
\* (agent.py: _truncate_chat_chain; rollout_manager.py: get_single_rollout).
THEOREM ChatInvariance == Spec => []ChatInv
<1>1. Init => ChatInv
  BY InitChat
<1>2. IInv /\ ChatInv /\ IInv' /\ [Next]_vars => ChatInv'
  BY NextChat
<1> QED
  BY <1>1, <1>2, MaskInvariance, PTL DEF Spec

\* The model is shown the newest replies and observations and all the rest, and as long as nothing
\* is dropped or cut, the mask has a column for each token of a reply, the earlier ones moved by the
\* same distance (agent.py:669, rollout_manager.py:33 and 83).
THEOREM RepliesAreMasked == Spec => []ShownAndMasked
<1>1. IInv /\ ChatInv => ShownAndMasked
  BY RecentShown, MaskMoves DEF ShownAndMasked, ChatInv
<1> QED
  BY <1>1, MaskInvariance, ChatInvariance, PTL

=============================================================================
