---------------------------- MODULE RewardScores ----------------------------
(***************************************************************************)
(* The functions that score a response by its text:                        *)
(* src/verl/utils/reward_score (math, gsm8k, multiply, countdown), chosen  *)
(* by data source in main_eval.py.  A text is a sequence of tokens: one    *)
(* for each marker ("\boxed", "<answer>", "#### ", "\frac", "\text{ "),    *)
(* one for every other character that matters.                             *)
(***************************************************************************)
EXTENDS Integers, Sequences, FiniteSets, SequencesExt

\* An exception, and the absence of an answer (None).
Failure == <<"raised">>
NoAnswer == <<"none">>
Bind(x, F(_)) == IF x \in {Failure, NoAnswer} THEN x ELSE F(x)

\* str.split and str.replace at a token; what stands before and after the first.
Pieces(s, sep) ==
  FoldLeft(LAMBDA acc, t : IF t = sep THEN Append(acc, <<>>) ELSE [acc EXCEPT ![Len(acc)] = Append(@, t)],
           <<<<>>>>, s)
Dropping(s, noise) == SelectSeq(s, LAMBDA t : t \notin noise)
Places(s, t) == {i \in DOMAIN s : s[i] = t}
First(S) == CHOOSE i \in S : \A j \in S : i <= j
Final(S) == CHOOSE i \in S : \A j \in S : j <= i
From(s, i) == SubSeq(s, i, Len(s))

Digits == {"0", "1", "2", "3", "4", "5"}
DigitOf == [d \in Digits |-> CHOOSE n \in 0 .. 5 : ToString(n) = d]
IsInt(s) == s # <<>> /\ \A i \in DOMAIN s : s[i] \in Digits
NatOf(s) == FoldLeft(LAMBDA n, d : 10 * n + DigitOf[d], 0, s)

-----------------------------------------------------------------------------
(* math.py. *)

\* "\\boxed " somewhere: a box without braces.
Spaced(s) == {i \in Places(s, "\\boxed") : i < Len(s) /\ s[i + 1] = " "}

\* A box without braces comes first, then the last box, then the last \fbox;
\* from there to the brace that closes the first one opened.
LastBoxedOnlyString(s) ==
  LET box    == Places(s, "\\boxed")
      from   == IF box # {} THEN box ELSE Places(s, "\\fbox")
      open(i) == Cardinality({j \in Places(s, "{") : Final(from) <= j /\ j <= i})
                 - Cardinality({j \in Places(s, "}") : Final(from) <= j /\ j <= i})
      ends   == {i \in Places(s, "}") : i >= Final(from) /\ open(i) = 0}
  IN  IF Spaced(s) # {} THEN <<"\\boxed", " ">> \o Pieces(From(s, Final(Spaced(s)) + 2), "$")[1]
      ELSE IF from = {} \/ ends = {} THEN NoAnswer
      ELSE SubSeq(s, Final(from), First(ends))

RemoveBoxed(s) ==
  IF Spaced(s) # {} THEN IF 1 \in Spaced(s) THEN From(s, 3) ELSE Failure
  ELSE IF Len(s) > 2 /\ SubSeq(s, 1, 2) = <<"\\boxed", "{">> /\ Last(s) = "}" THEN SubSeq(s, 3, Len(s) - 1)
  ELSE Failure

RemoveRightUnits(s) ==
  LET ps == Pieces(s, "\\text{ ") IN IF Len(ps) > 2 THEN Failure ELSE ps[1]

\* What follows each marker, rewritten; the marker itself is put back.
Rewritten(s, marker, New(_)) ==
  LET ps == Pieces(s, marker)
  IN  ps[1] \o FlattenSeq([i \in 1 .. Len(ps) - 1 |-> <<marker>> \o New(ps[i + 1])])

FixSqrt(s) ==
  IF \E i \in 2 .. Len(Pieces(s, "\\sqrt")) : Pieces(s, "\\sqrt")[i] = <<>> THEN Failure
  ELSE Rewritten(s, "\\sqrt", LAMBDA p : IF p[1] = "{" THEN p ELSE <<"{", p[1], "}">> \o Tail(p))


\* \frac12 becomes \frac{1}{2}; the string is given back at the first piece of
\* one character, and an empty piece before that raises.
FixFracs(s) ==
  LET ps    == Pieces(s, "\\frac")
      short == {i \in 2 .. Len(ps) : ps[i] = <<>> \/ (Len(ps[i]) = 1 /\ ps[i][1] # "{")}
      braced(p) == IF p[1] = "{" THEN p
                   ELSE <<"{", p[1], "}">> \o (IF p[2] = "{" THEN <<"{">> ELSE <<"{", p[2], "}">>) \o From(p, 3)
  IN  IF short = {} THEN Rewritten(s, "\\frac", braced)
      ELSE IF ps[First(short)] = <<>> THEN Failure ELSE s

\* int() of anything else is a ValueError, which the function does not catch.
FixASlashB(s) ==
  LET ps == Pieces(s, "/")
      plain(p) == Len(p) = 1 \/ p[1] # "0"
  IN  IF Len(ps) # 2 THEN s
      ELSE IF ~ IsInt(ps[1]) \/ ~ IsInt(ps[2]) THEN Failure
      ELSE IF plain(ps[1]) /\ plain(ps[2]) THEN <<"\\frac", "{">> \o ps[1] \o <<"}", "{">> \o ps[2] \o <<"}">>
      ELSE s

\* " ." and "{." get a zero, and so does a leading point.
ZeroBeforePoint(s) ==
  FlattenSeq([i \in DOMAIN s |->
    IF s[i] = "." /\ (i = 1 \/ s[i - 1] \in {" ", "{"}) THEN <<"0", ".">> ELSE <<s[i]>>])
AfterEquals(s) ==
  LET ps == Pieces(s, "=") IN IF Len(ps) = 2 /\ Len(ps[1]) <= 2 THEN ps[2] ELSE s

StripString(s) ==
  LET plain == ReplaceAll(ReplaceAll(Dropping(s, {"\n", "\\!", "\\left", "\\right", "^\\circ", "\\$"}), "\\dfrac", "\\frac"),
                          "\\tfrac", "\\frac")
      rest(u) ==
        LET z == ZeroBeforePoint(Dropping(u, {"\\%"}))
            half(f) == IF f = <<"0", ".", "5">> THEN <<"\\frac", "{", "1", "}", "{", "2", "}">> ELSE f
        IN  IF z = <<>> THEN z
            ELSE Bind(Bind(FixSqrt(AfterEquals(z)), LAMBDA r : FixFracs(Dropping(r, {" "}))),
                      LAMBDA f : FixASlashB(half(f)))
  IN  Bind(RemoveRightUnits(plain), rest)

\* If either string cannot be normalised, the strings themselves are compared.
IsEquiv(a, b) ==
  IF Failure \in {StripString(a), StripString(b)} THEN a = b ELSE StripString(a) = StripString(b)

MathScore(text, truth) ==
  LET boxed  == LastBoxedOnlyString(text)
      answer == Bind(boxed, RemoveBoxed)
  IN  IF answer \in {NoAnswer, Failure} THEN "none" ELSE IF IsEquiv(answer, truth) THEN "full" ELSE "none"

-----------------------------------------------------------------------------
(* gsm8k.py, multiply.py and countdown.py. *)

NumberChars == Digits \cup {".", ","}
RunFrom(s, i) ==
  SubSeq(s, i, Final({i - 1} \cup {j \in i .. Len(s) : \A k \in i .. j : s[k] \in NumberChars}))

\* The first "#### " before a number, which loses its commas but keeps a final point.
Signed(s, i) == IF i <= Len(s) /\ s[i] = "-" THEN i + 1 ELSE i
GsmAnswer(s) ==
  LET marks == {i \in Places(s, "#### ") : Signed(s, i + 1) \in {j \in DOMAIN s : s[j] \in NumberChars}}
      from  == First(marks) + 1
  IN  IF marks = {} THEN NoAnswer
      ELSE Dropping(SubSeq(s, from, Signed(s, from) - 1) \o RunFrom(s, Signed(s, from)), {","})
GsmScore(text, truth) == IF GsmAnswer(text) = truth THEN "full" ELSE "none"

\* What stands after the first marker of the assistant's turn.
AfterMarker(s, markers) ==
  LET m == {t \in markers : Places(s, t) # {}}
  IN  IF m = {} THEN NoAnswer
      ELSE From(s, First(Places(s, IF "Assistant:" \in m THEN "Assistant:" ELSE "<|im_start|>assistant")) + 1)

\* The last match of <answer>(.*?)</answer>, which does not cross a line.
LastAnswer(s) ==
  FoldLeft(LAMBDA m, t :
      IF t = "</answer>" /\ m.open THEN [open |-> FALSE, in |-> <<>>, last |-> m.in]
      ELSE IF t = "\n" THEN [m EXCEPT !.open = FALSE, !.in = <<>>]
      ELSE IF m.open THEN [m EXCEPT !.in = Append(@, t)]
      ELSE [m EXCEPT !.open = t = "<answer>"],
    [open |-> FALSE, in |-> <<>>, last |-> NoAnswer], s).last

MultiplyScore(text, truth) ==
  LET answer == Bind(AfterMarker(text, {"Assistant:"}), LastAnswer)
  IN  IF answer = NoAnswer \/ ~ IsInt(answer) THEN "none"
      ELSE IF NatOf(answer) = NatOf(truth) THEN "full" ELSE "format"

\* The numbers of an equation, in order, and its value, if eval gives one (of
\* one operation; None otherwise).
Numbers(eq) ==
  LET runs == Pieces([i \in DOMAIN eq |-> IF eq[i] \in Digits THEN eq[i] ELSE " "], " ")
      some == SelectSeq(runs, LAMBDA r : r # <<>>)
  IN  SortSeq([i \in DOMAIN some |-> NatOf(some[i])], <)
Evaluate(eq) ==
  LET op == {i \in DOMAIN eq : eq[i] \notin Digits}
      a  == NatOf(SubSeq(eq, 1, First(op) - 1))
      b  == NatOf(From(eq, First(op) + 1))
  IN  IF IsInt(eq) THEN {NatOf(eq)}
      ELSE IF Cardinality(op) # 1 \/ First(op) \in {1, Len(eq)} THEN {}
      ELSE CASE eq[First(op)] = "+" -> {a + b}
             [] eq[First(op)] = "-" -> {a - b}
             [] eq[First(op)] = "*" -> {a * b}
             [] OTHER               -> {}

\* The last line's last answer: every number given used once, and the target hit.
CountdownScore(text, truth) ==
  LET line == Bind(AfterMarker(text, {"Assistant:", "<|im_start|>assistant"}), LAMBDA s : Last(Pieces(s, "\n")))
      eq   == Bind(line, LastAnswer)
  IN  IF eq = NoAnswer THEN "none"
      ELSE IF Numbers(eq) # SortSeq(truth.numbers, <) THEN "format"
      ELSE IF truth.target \in Evaluate(eq) THEN "full" ELSE "format"

-----------------------------------------------------------------------------
(* What scores mean. *)

\* main_eval.py: a question is passed when one of its responses gets the full score.
Passes(responses, truth) == \E i \in DOMAIN responses : MathScore(responses[i], truth) = "full"

\* The value a reader gives a string, as <<numerator, denominator>>, in the
\* notations of the dataset; <<0, 0>> for anything else.
IsDecimal(s) ==
  /\ \A i \in DOMAIN s : s[i] \in Digits \cup {"."}
  /\ Cardinality(Places(s, ".")) <= 1 /\ \E i \in DOMAIN s : s[i] \in Digits
DecimalOf(s) ==
  LET after == IF Places(s, ".") = {} THEN 0 ELSE Len(s) - First(Places(s, "."))
  IN  <<NatOf(Dropping(s, {"."})), 10 ^ after>>
Over(a, b) == <<DecimalOf(a)[1] * DecimalOf(b)[2], DecimalOf(a)[2] * DecimalOf(b)[1]>>
Argument(s) == IF Len(s) = 1 THEN s
               ELSE IF Len(s) > 2 /\ s[1] = "{" /\ Last(s) = "}" THEN SubSeq(s, 2, Len(s) - 1) ELSE <<"?">>
ValueOf(s) ==
  LET said == Dropping(Pieces(s, "\\text{ ")[1], {"\\!", "\\$", "\\%", " "})
      w    == IF Len(said) > 2 /\ said[1] = "k" /\ said[2] = "=" THEN From(said, 3) ELSE said
      slash == {i \in Places(w, "/") : IsDecimal(SubSeq(w, 1, i - 1)) /\ IsDecimal(From(w, i + 1))}
      split == {i \in 3 .. Len(w) : w[1] \in {"\\frac", "\\dfrac"} /\ IsDecimal(Argument(SubSeq(w, 2, i - 1)))
                                     /\ IsDecimal(Argument(From(w, i)))}
  IN  IF IsDecimal(w) THEN DecimalOf(w)
      ELSE IF slash # {} THEN Over(SubSeq(w, 1, First(slash) - 1), From(w, First(slash) + 1))
      ELSE IF split # {} THEN Over(Argument(SubSeq(w, 2, First(split) - 1)), Argument(From(w, First(split))))
      ELSE <<0, 0>>
SameValue(a, b) ==
  LET x == ValueOf(a)
      y == ValueOf(b)
  IN  x # <<0, 0>> /\ y # <<0, 0>> /\ x[1] * y[2] = y[1] * x[2]

\* The contents of a text's boxes: up to the brace that closes the first.
Boxes(s) ==
  {SubSeq(s, i + 2, j - 1) : <<i, j>> \in
     {<<i, j>> \in (DOMAIN s) \X (DOMAIN s) :
        /\ i + 1 < j /\ s[i] = "\\boxed" /\ s[i + 1] = "{" /\ s[j] = "}"
        /\ \A k \in i + 1 .. j :
             LET depth == Cardinality({l \in i + 1 .. k : s[l] = "{"}) - Cardinality({l \in i + 1 .. k : s[l] = "}"})
             IN  (depth > 0) = (k # j)}}

\* The answers a text tags, with where they end.
Tagged(s) ==
  {<<j, Dropping(SubSeq(s, i + 1, j - 1), {" "})>> : <<i, j>> \in
     {<<i, j>> \in Places(s, "<answer>") \X Places(s, "</answer>") :
        i < j /\ \A k \in i + 1 .. j - 1 : s[k] \notin {"<answer>", "</answer>", "\n"}}}

\* The answer a text boxes.  A box without braces wins wherever it stands, and
\* ends at the next dollar; the last box counts otherwise.  An \fbox is found
\* and then refused.
BoxedAnswers(s) ==
  LET spaced == Spaced(s)
      boxes  == Places(s, "\\boxed")
  IN  IF spaced # {}
      THEN {SubSeq(s, Final(spaced) + 2, j) : j \in
              {j \in Final(spaced) + 1 .. Len(s) :
                 /\ \A k \in Final(spaced) + 2 .. j : s[k] # "$"
                 /\ j = Len(s) \/ s[j + 1] = "$"}}
      ELSE IF boxes = {} THEN {} ELSE Boxes(From(s, Final(boxes)))

\* The numbers a text marks, with where they begin: as long as they can be.
IsGsmNumber(s) ==
  \E d \in {s, IF s # <<>> /\ s[1] = "-" THEN Tail(s) ELSE s} : d # <<>> /\ \A i \in DOMAIN d : d[i] \in NumberChars
MarkedNumbers(s) ==
  {<<i, SubSeq(s, i + 1, j)>> : <<i, j>> \in
     {<<i, j>> \in Places(s, "#### ") \X DOMAIN s :
        /\ i < j /\ IsGsmNumber(SubSeq(s, i + 1, j))
        /\ j < Len(s) => ~ IsGsmNumber(SubSeq(s, i + 1, j + 1))}}

\* The answer by which a text is judged is the right one: what it boxes, the
\* first number it marks (a later correction is not read), its last tag.
OwnAnswer(source, text, truth) ==
  LET tags    == Tagged(text)
      last    == (CHOOSE t \in tags : \A u \in tags : u[1] <= t[1])[2]
      numbers == MarkedNumbers(text)
  IN  CASE source = "math" -> \E c \in BoxedAnswers(text) : SameValue(c, truth)
        [] source = "gsm8k" ->
             \E n \in numbers : (\A m \in numbers : n[1] <= m[1]) /\ Dropping(n[2], {","}) = truth
        [] source = "multiply"  -> tags # {} /\ NatOf(last) = NatOf(truth)
        [] source = "countdown" -> /\ tags # {} /\ truth.target \in Evaluate(last)
                                   /\ \A n \in 0 .. 99 : Len(SelectSeq(Numbers(last), LAMBDA m : m = n))
                                                          = Len(SelectSeq(truth.numbers, LAMBDA m : m = n))

ScoreOf(source, text, truth) ==
  CASE source = "math"      -> MathScore(text, truth)
    [] source = "gsm8k"     -> GsmScore(text, truth)
    [] source = "multiply"  -> MultiplyScore(text, truth)
    [] source = "countdown" -> CountdownScore(text, truth)
=============================================================================
