------------------------------ MODULE MCSftTrainer ------------------------------
(***************************************************************************)
(* Two ranks and two epochs; four rows and three, whose prompts and        *)
(* responses differ in length and one of which is longer than a batch may  *)
(* be; batches of one or two rows per rank in micro-batches of one, or of  *)
(* two and a smaller one; a validation set that fills a batch or none.     *)
(***************************************************************************)
EXTENDS SftTrainer, TLC

Row(p, n) == [prompt |-> p, response |-> n]
Rows == <<Row(1, 2), Row(2, 1), Row(1, 1), Row(3, 3)>>
Val(n) == [i \in 1 .. n |-> Row(1, 1)]
Setting(b, m, len, cut, balance, train, val) ==
  [trainBatch |-> b, microBatch |-> m, maxLength |-> len, truncation |-> cut, balance |-> balance,
   train |-> train, val |-> val]

\* All of three and four items, the rotations of six.
MCOrders(n) ==
  IF n <= 4 THEN Permutations(1 .. n)
  ELSE {[i \in 1 .. n |-> ((i + k) % n) + 1] : k \in 1 .. n}

MCSettings ==
  {Setting(4, 2, 6, "error", balance, Rows, Val(2)) : balance \in BOOLEAN}
  \cup {Setting(2, 2, 4, cut, TRUE, Rows, Val(3)) : cut \in {"left", "right", "error"}}
  \cup {Setting(2, 4, 5, "right", balance, SubSeq(Rows, 2, 4), Val(4)) : balance \in BOOLEAN}
  \cup {Setting(6, 4, 6, "right", TRUE, Rows \o SubSeq(Rows, 1, 2), Val(1)),
        Setting(2, 2, 2, "right", TRUE, SubSeq(Rows, 1, 3), Val(1)),
        Setting(2, 2, 6, "error", TRUE, SubSeq(Rows, 1, 2), Val(1) \o <<Row(4, 4)>>),
        Setting(3, 2, 6, "error", TRUE, Rows, Val(2))}
=============================================================================
