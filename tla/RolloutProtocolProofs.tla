----------------------- MODULE RolloutProtocolProofs -----------------------
(***************************************************************************)
(* The safety of the exchange of files for any number of rollouts,         *)
(* launchers, turns, crashes and resubmissions.  OrderInv of RolloutProtocol   *)
(* is inductive; the frame lemmas say what a step that leaves one side     *)
(* alone preserves, and each action has a lemma of its own.                *)
(***************************************************************************)
EXTENDS RolloutRefinement, FiniteSetTheorems, TLAPS

-----------------------------------------------------------------------------
(* Rows and files. *)

LEMMA PadSizeType ==
  ASSUME NEW rows \in Seq(Rollouts), Len(rows) > 0
  PROVE  PadSize(rows) \in Nat
BY WorldAssumption DEF PadSize

\* Every batch has a first row, padded or not.
LEMMA FirstRow ==
  ASSUME NEW b \in DOMAIN Batches
  PROVE  /\ Batches[b] \in Seq(Rollouts)
         /\ Len(Batches[b]) \in Nat \ {0}
         /\ PadSize(Batches[b]) \in Nat
         /\ PadSize(Batches[b]) <= Len(Batches[b])
         /\ DOMAIN Padded(Batches[b]) = 1 .. Len(Batches[b]) + PadSize(Batches[b])
         /\ 1 \in DOMAIN Padded(Batches[b])
<1>1. Batches[b] \in Seq(Rollouts) /\ Len(Batches[b]) \in Nat \ {0}
  BY BatchAssumption
<1>2. PadSize(Batches[b]) \in Nat
  BY <1>1, PadSizeType
<1> QED
  BY <1>1, <1>2, BatchAssumption DEF Padded

\* The row in progress has a rollout.
LEMMA RowType ==
  ASSUME TrainerOK
  PROVE  Rows \in Seq(Rollouts) /\ Len(Rows) \in Nat \ {0} /\ Row \in Rollouts
<1>1. /\ Rows \in Seq(Rollouts) /\ Len(Rows) \in Nat \ {0}
      /\ PadSize(Rows) \in Nat /\ PadSize(Rows) <= Len(Rows)
      /\ row \in 1 .. Len(Rows) + PadSize(Rows)
  BY FirstRow DEF TrainerOK, Rows
<1>2. CASE row <= Len(Rows)
  BY <1>1, <1>2 DEF Row, Padded
<1>3. CASE row > Len(Rows)
  BY <1>1, <1>3 DEF Row, Padded
<1> QED
  BY <1>1, <1>2, <1>3

\* What is written to a file makes it exist.
LEMMA Written ==
  /\ \A c \in Seq(Heard) : Exists(c)
  /\ Exists(<< >>) /\ Exists(<<0>>) /\ Exists(<<1>>) /\ Exists(<<"task">>)
  /\ \A k \in Kinds : Exists(<<k>>)
<1>1. << >> \in Seq(Heard) /\ (\A k \in Kinds : <<k>> \in Seq(Heard))
  BY DEF Heard
<1>2. <<0>> \in Seq({0, 1}) /\ <<1>> \in Seq({0, 1}) /\ <<"task">> \in Seq({"task"})
  OBVIOUS
<1> QED
  BY <1>1, <1>2, FileAssumption DEF Exists

LEMMA InitOrder == Init => OrderInv
<1> SUFFICES ASSUME Init PROVE OrderInv
  OBVIOUS
<1>1. 1 \in DOMAIN Batches
  BY BatchAssumption
<1>2. TypeOK
  BY <1>1, FirstRow, IterAssumption, BoundAssumption
  DEF Init, TypeOK, FilesOK, TrainerOK, AgentOK, ShellsOK, Rows, Texts, Scores, Prompts
<1>3. TurnsAlternate /\ OneVerdict /\ NeverUnscored /\ ProcessInv /\ FilesInv
  BY DEF Init, TurnsAlternate, OneVerdict, NeverUnscored, ProcessInv, FilesInv, Exists, Working
<1>4. TrainerInv /\ AgentInv
  BY <1>1, FirstRow DEF Init, TrainerInv, AgentInv, Working, Rows
<1> QED
  BY <1>2, <1>3, <1>4 DEF OrderInv

-----------------------------------------------------------------------------
(* Frames. *)

FilesPart == FilesOK /\ TurnsAlternate /\ OneVerdict /\ FilesInv
TrainerPart == TrainerOK /\ TrainerInv /\ NeverUnscored
AgentPart == AgentOK /\ ShellsOK /\ ProcessInv /\ AgentInv

LEMMA Parts == OrderInv <=> FilesPart /\ TrainerPart /\ AgentPart
BY DEF OrderInv, TypeOK, FilesPart, TrainerPart, AgentPart

LEMMA PartsAfter == FilesPart' /\ TrainerPart' /\ AgentPart' => OrderInv'
BY DEF OrderInv, TypeOK, FilesPart, TrainerPart, AgentPart

LEMMA FilesFrame ==
  ASSUME FilesPart, UNCHANGED files
  PROVE  FilesPart'
BY DEF FilesPart, files, FilesOK, TurnsAlternate, OneVerdict, FilesInv, Exists

\* The trainer's part of the invariant only asks that files exist.
LEMMA TrainerFrame ==
  ASSUME TrainerPart, UNCHANGED trainer,
         \A r \in Rollouts, i \in Iters :
           /\ Exists(out[r][i]) => Exists(out'[r][i])
           /\ Exists(inp[r][i]) => Exists(inp'[r][i])
  PROVE  TrainerPart'
<1>1. Row \in Rollouts /\ turn \in Iters /\ turn + 1 \in Iters
  BY RowType, IterAssumption DEF TrainerPart, TrainerOK, Iters
<1>2. Row' = Row /\ Rows' = Rows
  BY DEF trainer, Row, Rows
<1>3. TrainerOK' /\ NeverUnscored'
  BY <1>2 DEF TrainerPart, TrainerOK, NeverUnscored, trainer
<1>4. TrainerInv'
  BY <1>1, <1>2 DEF TrainerPart, TrainerInv, trainer, Exists
<1> QED
  BY <1>3, <1>4 DEF TrainerPart

\* A step of the trainer leaves the agent and its files alone.
LEMMA AgentFrame ==
  ASSUME AgentPart, UNCHANGED <<agent, shells, faults, inp, score, processed>>,
         \A r \in Rollouts, i \in Iters : Exists(out[r][i]) => Exists(out'[r][i])
  PROVE  AgentPart'
<1>1. AgentOK' /\ ShellsOK' /\ ProcessInv'
  BY DEF AgentPart, AgentOK, ShellsOK, ProcessInv, agent, shells, faults
<1>2. aturn \in Iters /\ (apc \in Working => rid \in Rollouts)
  BY IterAssumption DEF AgentPart, AgentOK, ProcessInv, Iters
<1>3. AgentInv'
  BY <1>2 DEF AgentPart, AgentInv, agent, Exists, Working
<1> QED
  BY <1>1, <1>3 DEF AgentPart

\* A container that stops leaves an agent's part that holds of no process.
LEMMA StopFrame ==
  ASSUME AgentPart, StopContainer, ShellsOK'
  PROVE  AgentPart'
<1>1. AgentOK'
  BY IterAssumption DEF StopContainer, AgentOK
<1>2. ProcessInv' /\ AgentInv'
  BY DEF StopContainer, ProcessInv, AgentInv, Working
<1> QED
  BY <1>1, <1>2 DEF AgentPart

-----------------------------------------------------------------------------
(* The trainer's steps. *)

\* The next row is a row.
LEMMA EndRowType ==
  ASSUME TrainerOK, EndRow, batch' = batch
  PROVE  /\ row' \in DOMAIN Padded(Rows)'
         /\ turn' = 0
         /\ tpc' \in {"generate", "reward"}
         /\ tpc' = "reward" => row' = 1
<1>1. /\ Rows' = Rows /\ Len(Rows) \in Nat \ {0} /\ PadSize(Rows) \in Nat
      /\ DOMAIN Padded(Rows) = 1 .. Len(Rows) + PadSize(Rows)
      /\ Len(Padded(Rows)) = Len(Rows) + PadSize(Rows)
  BY FirstRow DEF TrainerOK, Rows, Padded
<1> QED
  BY <1>1 DEF TrainerOK, EndRow

LEMMA FetchStep ==
  ASSUME OrderInv, Fetch
  PROVE  OrderInv'
<1> USE DEF Fetch
<1>1. FilesPart'
  BY Parts, FilesFrame
<1>2. AgentPart'
  BY Parts, AgentFrame DEF files
<1>3. TrainerPart'
  <2>1. Rows' = Rows /\ Len(Rows) \in Nat \ {0}
    BY Parts, RowType DEF Rows, TrainerPart
  <2> QED
    BY <2>1, Parts DEF TrainerPart, TrainerOK, TrainerInv, NeverUnscored
<1> QED
  BY <1>1, <1>2, <1>3, PartsAfter

\* What the two steps that write a reply have in common.
LEMMA ReplyFiles ==
  ASSUME FilesPart, TrainerPart, NEW c \in Texts, Exists(c),
         turn > 0 => Exists(inp[Row][turn]),
         out' = [out EXCEPT ![Row][turn] = c],
         UNCHANGED <<prompt0, inp, grade, score, processed>>
  PROVE  /\ FilesPart'
         /\ Exists(out'[Row][turn])
         /\ \A r \in Rollouts, i \in Iters : Exists(out[r][i]) => Exists(out'[r][i])
<1>1. Row \in Rollouts /\ turn \in Iters
  BY RowType, IterAssumption DEF TrainerPart, TrainerOK, Iters
<1>2. out \in [Rollouts -> [Iters -> Texts]]
  BY DEF FilesPart, FilesOK
<1>3. /\ \A r \in Rollouts, i \in Iters :
           out'[r][i] = IF r = Row /\ i = turn THEN c ELSE out[r][i]
      /\ out' \in [Rollouts -> [Iters -> Texts]]
  BY <1>1, <1>2
<1>4. FilesOK'
  BY <1>3 DEF FilesPart, FilesOK
<1>5. TurnsAlternate'
  <2>1. SUFFICES ASSUME NEW r \in Rollouts, NEW i \in Iters
                 PROVE  /\ i > 0 /\ Exists(inp[r][i]) => Exists(out'[r][i - 1])
                        /\ i > 0 /\ Exists(out'[r][i]) => Exists(inp[r][i])
                        /\ Exists(score[r][i]) => Exists(out'[r][i])
    BY DEF TurnsAlternate, Exists
  <2>2. i > 0 => i - 1 \in Iters
    BY IterAssumption DEF Iters
  <2> QED
    BY <1>1, <1>3, <2>2 DEF FilesPart, TurnsAlternate, Exists
<1>6. OneVerdict' /\ FilesInv'
  BY DEF FilesPart, OneVerdict, FilesInv, Exists
<1> QED
  BY <1>1, <1>3, <1>4, <1>5, <1>6 DEF FilesPart, Exists

LEMMA GenerateStep ==
  ASSUME OrderInv, Generate
  PROVE  OrderInv'
<1> USE DEF Generate
<1>1. Row' = Row /\ Rows' = Rows /\ (turn > 0 => Exists(inp[Row][turn]))
  BY Parts DEF Row, Rows, TrainerPart, TrainerInv
<1>2. FilesPart' /\ Exists(out'[Row][turn])
      /\ \A r \in Rollouts, i \in Iters : Exists(out[r][i]) => Exists(out'[r][i])
  BY <1>1, Parts, ReplyFiles, Written DEF Texts
<1>3. AgentPart'
  BY <1>2, Parts, AgentFrame
<1>4. TrainerPart'
  BY <1>1, <1>2, Parts DEF TrainerPart, TrainerOK, TrainerInv, NeverUnscored, Exists
<1> QED
  BY <1>2, <1>3, <1>4, PartsAfter

LEMMA WriteOutStep ==
  ASSUME OrderInv, WriteOut
  PROVE  OrderInv'
<1> USE DEF WriteOut
<1>1. Row' = Row /\ Rows' = Rows /\ Row \in Rollouts /\ turn \in Iters /\ reply \in Kinds
  BY Parts, RowType, IterAssumption DEF Row, Rows, TrainerPart, TrainerOK, Iters
<1>2. turn > 0 => Exists(inp[Row][turn])
  BY <1>1, Parts DEF FilesPart, TurnsAlternate, TrainerPart, TrainerInv
<1>3. FilesPart' /\ Exists(out'[Row][turn])
      /\ \A r \in Rollouts, i \in Iters : Exists(out[r][i]) => Exists(out'[r][i])
  BY <1>1, <1>2, Parts, ReplyFiles, Written DEF Texts
<1>4. AgentPart'
  BY <1>3, Parts, AgentFrame
<1>5. TrainerPart'
  BY <1>1, <1>3, Parts DEF TrainerPart, TrainerOK, TrainerInv, NeverUnscored, Exists
<1> QED
  BY <1>3, <1>4, <1>5, PartsAfter

LEMMA SeeScoreStep ==
  ASSUME OrderInv, SeeScore
  PROVE  OrderInv'
<1> USE DEF SeeScore
<1>1. FilesPart' /\ AgentPart'
  BY Parts, FilesFrame, AgentFrame DEF files
<1>2. TrainerPart'
  <2>1. Rows' = Rows /\ Len(Rows) \in Nat
    BY Parts, RowType DEF Rows, TrainerPart
  <2>2. TrainerOK'
    BY <2>1, Parts, EndRowType, IterAssumption DEF TrainerPart, TrainerOK
  <2> QED
    BY <2>1, <2>2, Parts, EndRowType DEF TrainerPart, TrainerInv, NeverUnscored
<1> QED
  BY <1>1, <1>2, PartsAfter

LEMMA SeeInputStep ==
  ASSUME OrderInv, SeeInput
  PROVE  OrderInv'
<1> USE DEF SeeInput
<1>1. FilesPart' /\ AgentPart'
  BY Parts, FilesFrame, AgentFrame DEF files
<1>2. TrainerPart'
  BY Parts DEF TrainerPart, TrainerOK, TrainerInv, NeverUnscored, Row, Rows, files, Exists
<1> QED
  BY <1>1, <1>2, PartsAfter

\* The agent asks for no turn past its own limit, so a trainer with as many
\* turns never leaves the loop here.
LEMMA ReadInputStep ==
  ASSUME OrderInv, ReadInput
  PROVE  OrderInv'
<1> USE DEF ReadInput
<1>1. FilesPart' /\ AgentPart'
  BY Parts, FilesFrame, AgentFrame DEF files
<1>2. /\ Rows' = Rows /\ Len(Rows) \in Nat /\ Row \in Rollouts
      /\ turn \in Nat /\ turn + 1 \in Iters
      /\ Exists(inp[Row][turn + 1])
  BY Parts, RowType, IterAssumption DEF Rows, TrainerPart, TrainerOK, TrainerInv, Iters
<1>3. CASE turn + 1 < TrainerMaxIter
  <2>1. Row' = Row
    BY <1>3 DEF Row, Rows
  <2>2. TrainerOK'
    BY <1>2, <1>3, Parts, IterAssumption DEF TrainerPart, TrainerOK
  <2>3. TrainerInv'
    BY <1>2, <1>3, <2>1, Parts DEF TrainerPart, TrainerInv, Exists, files
  <2> QED
    BY <1>1, <1>3, <2>2, <2>3, Parts, PartsAfter DEF TrainerPart, NeverUnscored
<1>4. CASE ~(turn + 1 < TrainerMaxIter)
  <2>1. TrainerMaxIter < AgentMaxIter
    BY <1>2, <1>4, Parts, IterAssumption DEF FilesPart, FilesInv
  <2>2. TrainerOK'
    BY <1>2, <1>4, Parts, EndRowType, IterAssumption DEF TrainerPart, TrainerOK
  <2>3. TrainerInv'
    BY <1>2, <1>4, Parts, EndRowType DEF TrainerPart, TrainerInv
  <2> QED
    BY <1>1, <2>1, <2>2, <2>3, IterAssumption, PartsAfter DEF TrainerPart, NeverUnscored
<1> QED
  BY <1>3, <1>4

LEMMA ReadScoreStep ==
  ASSUME OrderInv, ReadScore
  PROVE  OrderInv'
<1> USE DEF ReadScore
<1>1. FilesPart' /\ AgentPart'
  BY Parts, FilesFrame, AgentFrame DEF files
<1>2. TrainerPart'
  <2>1. Rows' = Rows /\ Rows \in Seq(Rollouts)
    BY Parts, RowType DEF Rows, TrainerPart
  <2>2. PICK r \in {Rows[k] : k \in DOMAIN Rows}, i \in Iters :
           /\ Exists(score[r][i])
           /\ IF score[r][i] = << >>
                THEN tpc' = "failed" /\ UNCHANGED rewarded
                ELSE /\ rewarded' = rewarded \cup {<<r, score[r][i][1]>>}
                     /\ UNCHANGED tpc
    OBVIOUS
  <2>3. r \in Rollouts
    BY <2>1
  <2>4. score[r][i] # << >> => score[r][i][1] \in {0, 1}
    BY <2>2, <2>3, Parts DEF FilesPart, FilesOK, Scores, Exists
  <2>5. TrainerOK'
    BY <2>1, <2>2, <2>3, <2>4, Parts DEF TrainerPart, TrainerOK
  <2> QED
    BY <2>1, <2>2, <2>5, Parts DEF TrainerPart, TrainerInv, NeverUnscored
<1> QED
  BY <1>1, <1>2, PartsAfter

LEMMA EndBatchStep ==
  ASSUME OrderInv, EndBatch
  PROVE  OrderInv'
<1> USE DEF EndBatch
<1>1. FilesPart' /\ AgentPart'
  BY Parts, FilesFrame, AgentFrame DEF files
<1>2. TrainerPart'
  <2>1. batch' \in DOMAIN Batches /\ row = 1 /\ turn = 0
    BY Parts, BatchAssumption DEF TrainerPart, TrainerOK, TrainerInv
  <2>2. Rows' = Batches[batch']
    BY DEF Rows
  <2> QED
    BY <2>1, <2>2, FirstRow, Parts DEF TrainerPart, TrainerOK, TrainerInv, NeverUnscored
<1> QED
  BY <1>1, <1>2, PartsAfter

-----------------------------------------------------------------------------
(* The agent's steps. *)

LEMMA OpenPromptStep ==
  ASSUME OrderInv, OpenPrompt
  PROVE  OrderInv'
<1> USE DEF OpenPrompt
<1>1. FilesPart'
  BY Parts DEF FilesPart, FilesOK, TurnsAlternate, OneVerdict, FilesInv, Exists, Prompts
<1>2. TrainerPart'
  BY Parts, TrainerFrame
<1>3. AgentPart'
  BY Parts DEF AgentPart, AgentOK, ShellsOK, ProcessInv, AgentInv, Working, shells, faults
<1> QED
  BY <1>1, <1>2, <1>3, PartsAfter

\* The list is read when no rollout is held, so it is current.
LEMMA PrimePromptStep ==
  ASSUME OrderInv, PrimePrompt
  PROVE  OrderInv'
<1> USE DEF PrimePrompt, ReadProcessed
<1>1. FilesPart'
  BY Parts DEF FilesPart, FilesOK, TurnsAlternate, OneVerdict, FilesInv, Exists, Prompts
<1>2. TrainerPart'
  BY Parts, TrainerFrame
<1>3. AgentPart'
  BY Parts DEF FilesPart, FilesOK, AgentPart, AgentOK, ShellsOK, ProcessInv, AgentInv, Working,
     shells, faults
<1> QED
  BY <1>1, <1>2, <1>3, PartsAfter

LEMMA SkipPromptStep ==
  ASSUME OrderInv, SkipPrompt
  PROVE  OrderInv'
<1> USE DEF SkipPrompt, ReadProcessed
<1>1. FilesPart'
  BY Parts, FilesFrame DEF files
<1>2. TrainerPart'
  BY Parts, TrainerFrame
<1>3. AgentPart'
  BY Parts DEF FilesPart, FilesOK, AgentPart, AgentOK, ShellsOK, ProcessInv, AgentInv, Working,
     shells, faults
<1> QED
  BY <1>1, <1>2, <1>3, PartsAfter

\* A rollout that is not on the current list has no prompt and no score.
LEMMA ClaimStep ==
  ASSUME OrderInv, Claim
  PROVE  OrderInv'
<1> USE DEF Claim
<1>1. FilesPart'
  BY Parts DEF FilesPart, FilesOK, TurnsAlternate, OneVerdict, FilesInv, Exists
<1>2. TrainerPart'
  BY Parts, TrainerFrame
<1>3. AgentPart'
  <2>1. PICK r \in Rollouts : r \notin seen /\ processed' = processed \cup {r} /\ rid' = r
    OBVIOUS
  <2>2. r \notin processed /\ aturn = 0 /\ chat = << >> /\ owner # None
    BY <2>1, Parts DEF AgentPart, ProcessInv, Working
  <2>3. AgentOK' /\ ShellsOK'
    BY <2>1, Parts DEF AgentPart, AgentOK, ShellsOK, shells, faults
  <2>4. ProcessInv'
    BY <2>1, <2>2, NoneAssumption DEF ProcessInv, Working, shells
  <2>5. AgentInv'
    <3>1. \A i \in Iters : ~Exists(inp[r][i]) /\ ~Exists(score[r][i])
      BY <2>2, Parts DEF FilesPart, FilesInv
    <3> QED
      BY <2>1, <2>2, <3>1 DEF AgentInv, Working, Exists
  <2> QED
    BY <2>3, <2>4, <2>5 DEF AgentPart
<1> QED
  BY <1>1, <1>2, <1>3, PartsAfter

\* What holds of the rollout in an agent's hands.
LEMMA Held ==
  ASSUME AgentPart, apc \in Working
  PROVE  /\ rid \in Rollouts /\ rid \in processed
         /\ aturn \in Iters /\ aturn + 1 \in Iters /\ aturn \in Nat
         /\ owner # None
BY IterAssumption DEF AgentPart, AgentOK, ProcessInv, Working, Iters

LEMMA ListenStep ==
  ASSUME OrderInv, Listen
  PROVE  OrderInv'
<1> DEFINE heard == IF out[rid][aturn] = << >> THEN "nothing" ELSE out[rid][aturn][1]
<1>1. apc = "listen" /\ apc \in Working
  BY DEF Listen, Working
<1>2. /\ rid \in Rollouts /\ rid \in processed
      /\ aturn \in Iters /\ aturn + 1 \in Iters /\ aturn \in Nat /\ owner # None
  BY <1>1, Parts, Held
<1>3. heard \in Heard /\ GradeOf(heard) \in Grades
  BY <1>2, Parts DEF Listen, FilesPart, FilesOK, Texts, Exists, Heard, GradeOf, Grades
<1>4. /\ chat' = Append(chat, heard)
      /\ grade' = [grade EXCEPT ![rid][aturn] = GradeOf(heard)]
      /\ apc' = IF GoesOn(heard) THEN "ask" ELSE "judge"
      /\ Exists(out[rid][aturn])
      /\ UNCHANGED <<prompt0, out, inp, score, processed, rid, aturn, seen>>
      /\ UNCHANGED <<trainer, shells, faults>>
  BY DEF Listen
<1> HIDE DEF heard
<1>5. FilesPart'
  <2>1. FilesOK'
    BY <1>2, <1>3, <1>4, Parts DEF FilesPart, FilesOK
  <2> QED
    BY <2>1, <1>4, Parts DEF FilesPart, TurnsAlternate, OneVerdict, FilesInv, Exists
<1>6. TrainerPart'
  BY <1>4, Parts, TrainerFrame
<1>7. AgentPart'
  <2>1. chat \in Seq(Heard) /\ chat' \in Seq(Heard) /\ Len(chat') = Len(chat) + 1
    BY <1>3, <1>4, Parts DEF AgentPart, AgentOK
  <2>2. AgentOK' /\ ShellsOK' /\ ProcessInv'
    BY <1>1, <1>2, <1>4, <2>1, Parts
    DEF AgentPart, AgentOK, ShellsOK, ProcessInv, Working, shells, faults
  <2>3. AgentInv'
    BY <1>1, <1>2, <1>4, <2>1, Parts DEF AgentPart, AgentInv, Working, Exists, GoesOn
  <2> QED
    BY <2>2, <2>3 DEF AgentPart
<1> QED
  BY <1>5, <1>6, <1>7, PartsAfter

\* What the two steps that write a prompt have in common.
LEMMA PromptFiles ==
  ASSUME FilesPart, AgentPart, apc \in {"ask", "fill"},
         NEW c \in Seq(Heard), Exists(c),
         inp' = [inp EXCEPT ![rid][aturn + 1] = c],
         UNCHANGED <<prompt0, out, grade, score, processed>>
  PROVE  /\ FilesPart'
         /\ Exists(inp'[rid][aturn + 1])
         /\ \A r \in Rollouts, i \in Iters :
              /\ Exists(inp[r][i]) => Exists(inp'[r][i])
              /\ r = rid /\ Exists(inp'[r][i]) => i <= aturn + 1
<1>1. /\ rid \in Rollouts /\ rid \in processed
      /\ aturn \in Iters /\ aturn + 1 \in Iters /\ aturn \in Nat
      /\ aturn + 1 \in 1 .. AgentMaxIter - 1
  BY Held, IterAssumption DEF AgentPart, AgentInv, Working
<1>2. /\ Exists(out[rid][aturn])
      /\ \A i \in Iters : ~Exists(score[rid][i])
      /\ \A i \in Iters : Exists(inp[rid][i]) => i <= aturn + 1
  BY <1>1 DEF AgentPart, AgentInv, Working, Iters
<1>3. inp \in [Rollouts -> [Iters -> {None} \cup Seq(Heard)]]
  BY DEF FilesPart, FilesOK
<1>4. /\ \A r \in Rollouts, i \in Iters :
           inp'[r][i] = IF r = rid /\ i = aturn + 1 THEN c ELSE inp[r][i]
      /\ inp' \in [Rollouts -> [Iters -> {None} \cup Seq(Heard)]]
  BY <1>1, <1>3
<1>5. FilesOK'
  BY <1>4 DEF FilesPart, FilesOK
<1>6. TurnsAlternate'
  <2>1. SUFFICES ASSUME NEW r \in Rollouts, NEW i \in Iters
                 PROVE  /\ i > 0 /\ Exists(inp'[r][i]) => Exists(out[r][i - 1])
                        /\ i > 0 /\ Exists(out[r][i]) => Exists(inp'[r][i])
                        /\ Exists(score[r][i]) => Exists(out[r][i])
    BY DEF TurnsAlternate, Exists
  <2> QED
    BY <1>1, <1>2, <1>4 DEF FilesPart, TurnsAlternate, Exists
<1>7. OneVerdict'
  <2>1. SUFFICES ASSUME NEW r \in Rollouts, NEW i \in Iters, Exists(score[r][i])
                 PROVE  /\ \A j \in Iters : Exists(score[r][j]) => j = i
                        /\ \A j \in Iters : j > i => ~Exists(inp'[r][j])
    BY DEF OneVerdict, Exists
  <2>2. r # rid
    BY <1>2, <2>1
  <2> QED
    BY <1>4, <2>1, <2>2 DEF FilesPart, OneVerdict
<1>8. FilesInv'
  BY <1>1, <1>4 DEF FilesPart, FilesInv, Exists
<1> QED
  BY <1>1, <1>2, <1>4, <1>5, <1>6, <1>7, <1>8 DEF FilesPart, Exists

LEMMA OpenInputStep ==
  ASSUME OrderInv, OpenInput
  PROVE  OrderInv'
<1> USE DEF OpenInput
<1>1. /\ rid \in Rollouts /\ rid \in processed
      /\ aturn \in Iters /\ aturn + 1 \in Iters /\ aturn \in Nat /\ owner # None
  BY Parts, Held DEF Working
<1>2. << >> \in Seq(Heard) /\ Exists(<< >>)
  BY Written
<1>3. /\ FilesPart'
      /\ \A r \in Rollouts, i \in Iters :
           /\ Exists(inp[r][i]) => Exists(inp'[r][i])
           /\ r = rid /\ Exists(inp'[r][i]) => i <= aturn + 1
  BY <1>2, Parts, PromptFiles
<1>4. TrainerPart'
  BY <1>3, Parts, TrainerFrame
<1>5. AgentPart'
  <2>1. AgentOK' /\ ShellsOK' /\ ProcessInv'
    BY <1>1, Parts DEF AgentPart, AgentOK, ShellsOK, ProcessInv, Working, shells, faults
  <2>2. AgentInv'
    BY <1>1, <1>3, Parts DEF AgentPart, AgentInv, Working, Exists
  <2> QED
    BY <2>1, <2>2 DEF AgentPart
<1> QED
  BY <1>3, <1>4, <1>5, PartsAfter

LEMMA WriteInputStep ==
  ASSUME OrderInv, WriteInput
  PROVE  OrderInv'
<1> USE DEF WriteInput
<1>1. /\ rid \in Rollouts /\ rid \in processed
      /\ aturn \in Iters /\ aturn + 1 \in Iters /\ aturn \in Nat /\ owner # None
  BY Parts, Held DEF Working
<1>2. chat \in Seq(Heard) /\ Exists(chat)
  BY Parts, Written DEF AgentPart, AgentOK
<1>3. /\ FilesPart'
      /\ \A r \in Rollouts, i \in Iters :
           /\ Exists(inp[r][i]) => Exists(inp'[r][i])
           /\ r = rid /\ Exists(inp'[r][i]) => i <= aturn + 1
  BY <1>2, Parts, PromptFiles
<1>4. TrainerPart'
  BY <1>3, Parts, TrainerFrame
<1>5. AgentPart'
  <2>1. aturn < AgentMaxIter - 1
    BY Parts DEF AgentPart, AgentInv
  <2>2. AgentOK' /\ ShellsOK' /\ ProcessInv'
    BY <1>1, <2>1, Parts, IterAssumption
    DEF AgentPart, AgentOK, ShellsOK, ProcessInv, Working, shells, faults
  <2>3. AgentInv'
    BY <1>1, <1>3, Parts DEF AgentPart, AgentInv, Working, Exists
  <2> QED
    BY <2>2, <2>3 DEF AgentPart
<1> QED
  BY <1>3, <1>4, <1>5, PartsAfter

\* What the two steps that write a score have in common.
LEMMA ScoreFiles ==
  ASSUME FilesPart, AgentPart, apc \in {"judge", "mark"},
         NEW c \in Scores, Exists(c),
         score' = [score EXCEPT ![rid][aturn] = c],
         UNCHANGED <<prompt0, out, inp, grade, processed>>
  PROVE  /\ FilesPart'
         /\ \A i \in Iters : Exists(score'[rid][i]) => i = aturn
<1>1. rid \in Rollouts /\ rid \in processed /\ aturn \in Iters
  BY Held DEF Working
<1>2. /\ Exists(out[rid][aturn])
      /\ \A i \in Iters : Exists(score[rid][i]) => i = aturn
      /\ \A i \in Iters : Exists(inp[rid][i]) => i <= aturn
  BY <1>1 DEF AgentPart, AgentInv, Working
<1>3. score \in [Rollouts -> [Iters -> Scores]]
  BY DEF FilesPart, FilesOK
<1>4. /\ \A r \in Rollouts, i \in Iters :
           score'[r][i] = IF r = rid /\ i = aturn THEN c ELSE score[r][i]
      /\ score' \in [Rollouts -> [Iters -> Scores]]
  BY <1>1, <1>3
<1>5. FilesOK'
  BY <1>4 DEF FilesPart, FilesOK
<1>6. TurnsAlternate' /\ FilesInv'
  BY <1>1, <1>2, <1>4 DEF FilesPart, TurnsAlternate, FilesInv, Exists
<1>7. OneVerdict'
  <2>1. SUFFICES ASSUME NEW r \in Rollouts, NEW i \in Iters, Exists(score'[r][i])
                 PROVE  /\ \A j \in Iters : Exists(score'[r][j]) => j = i
                        /\ \A j \in Iters : j > i => ~Exists(inp[r][j])
    BY DEF OneVerdict, Exists
  <2>2. CASE r = rid
    BY <1>1, <1>2, <1>4, <2>1, <2>2 DEF Iters
  <2>3. CASE r # rid
    BY <1>1, <1>4, <2>1, <2>3 DEF FilesPart, OneVerdict
  <2> QED
    BY <2>2, <2>3
<1> QED
  BY <1>1, <1>2, <1>4, <1>5, <1>6, <1>7 DEF FilesPart

LEMMA OpenScoreStep ==
  ASSUME OrderInv, OpenScore
  PROVE  OrderInv'
<1> USE DEF OpenScore
<1>1. rid \in Rollouts /\ rid \in processed /\ aturn \in Iters /\ owner # None
  BY Parts, Held DEF Working
<1>2. FilesPart' /\ (\A i \in Iters : Exists(score'[rid][i]) => i = aturn)
  BY Parts, ScoreFiles, Written DEF Scores
<1>3. TrainerPart'
  BY Parts, TrainerFrame
<1>4. AgentPart'
  BY <1>1, <1>2, Parts
  DEF AgentPart, AgentOK, ShellsOK, ProcessInv, AgentInv, Working, Exists, shells, faults
<1> QED
  BY <1>2, <1>3, <1>4, PartsAfter

LEMMA WriteScoreStep ==
  ASSUME OrderInv, WriteScore
  PROVE  OrderInv'
<1> USE DEF WriteScore
<1>1. rid \in Rollouts /\ rid \in processed /\ aturn \in Iters /\ owner # None
  BY Parts, Held DEF Working
<1>2. FilesPart' /\ (\A i \in Iters : Exists(score'[rid][i]) => i = aturn)
  BY Parts, ScoreFiles, Written DEF Scores
<1>3. TrainerPart'
  BY Parts, TrainerFrame
<1>4. AgentPart'
  BY <1>1, <1>2, Parts
  DEF AgentPart, AgentOK, ShellsOK, ProcessInv, AgentInv, Working, Exists, shells, faults
<1> QED
  BY <1>2, <1>3, <1>4, PartsAfter

-----------------------------------------------------------------------------
(* The container, the shells and the job. *)

LEMMA ExitStep ==
  ASSUME OrderInv, Exit \/ Crash
  PROVE  OrderInv'
<1>1. StopContainer /\ UNCHANGED <<files, trainer, lpc, restarts>>
  BY DEF Exit, Crash, faults
<1>2. ShellsOK'
  BY <1>1, Parts, BoundAssumption
  DEF Exit, Crash, AgentPart, ShellsOK, StopContainer, faults
<1>3. FilesPart' /\ TrainerPart' /\ AgentPart'
  BY <1>1, <1>2, Parts, FilesFrame, TrainerFrame, StopFrame DEF files
<1> QED
  BY <1>3, PartsAfter

\* docker rm -f, before and after the run.
LEMMA RemoveStep ==
  ASSUME OrderInv, NEW l \in Launchers, Clear(l) \/ Sweep(l)
  PROVE  OrderInv'
<1>1. StopContainer /\ UNCHANGED <<files, trainer, faults>>
  BY DEF Clear, Sweep
<1>2. ShellsOK'
  BY <1>1, Parts DEF Clear, Sweep, AgentPart, ShellsOK, StopContainer, faults
<1>3. FilesPart' /\ TrainerPart' /\ AgentPart'
  BY <1>1, <1>2, Parts, FilesFrame, TrainerFrame, StopFrame DEF files
<1> QED
  BY <1>3, PartsAfter

LEMMA RunStep ==
  ASSUME OrderInv, NEW l \in Launchers, Run(l)
  PROVE  OrderInv'
<1> USE DEF Run
<1>1. FilesPart' /\ TrainerPart'
  BY Parts, FilesFrame, TrainerFrame DEF files
<1>2. apc = "dead" /\ rid = None
  BY Parts DEF AgentPart, ProcessInv, Working
<1>3. AgentPart'
  BY <1>2, Parts, NoneAssumption
  DEF AgentPart, AgentOK, ShellsOK, ProcessInv, AgentInv, Working, faults
<1> QED
  BY <1>1, <1>3, PartsAfter

LEMMA ReturnStep ==
  ASSUME OrderInv, NEW l \in Launchers, RunConflict(l) \/ Return(l)
  PROVE  OrderInv'
<1>1. UNCHANGED <<files, trainer, agent, owner, faults>>
  BY DEF RunConflict, Return
<1>2. FilesPart' /\ TrainerPart'
  BY <1>1, Parts, FilesFrame, TrainerFrame DEF files
<1>3. AgentPart'
  BY <1>1, Parts
  DEF RunConflict, Return, AgentPart, AgentOK, ShellsOK, ProcessInv, AgentInv, Working, Exists,
      agent, files, faults
<1> QED
  BY <1>2, <1>3, PartsAfter

LEMMA ResubmitStep ==
  ASSUME OrderInv, Resubmit
  PROVE  OrderInv'
<1> USE DEF Resubmit
<1>1. FilesPart'
  BY Parts, FilesFrame
<1>2. TrainerPart'
  <2>1. batch' \in DOMAIN Batches /\ Rows' = Batches[batch']
    BY Parts, BatchAssumption DEF TrainerPart, TrainerOK, Rows
  <2> QED
    BY <2>1, FirstRow, IterAssumption, Parts
    DEF TrainerPart, TrainerOK, TrainerInv, NeverUnscored
<1>3. AgentPart'
  BY Parts, BoundAssumption
  DEF AgentPart, AgentOK, ShellsOK, ProcessInv, AgentInv, Working, Exists, agent, files
<1> QED
  BY <1>1, <1>2, <1>3, PartsAfter

LEMMA StutterStep ==
  ASSUME OrderInv, UNCHANGED vars
  PROVE  OrderInv'
<1>1. FilesPart' /\ TrainerPart'
  BY Parts, FilesFrame, TrainerFrame DEF vars, files
<1>2. AgentPart'
  BY Parts, AgentFrame DEF vars, files
<1> QED
  BY <1>1, <1>2, PartsAfter

-----------------------------------------------------------------------------

LEMMA NextOrder == OrderInv /\ [Next]_vars => OrderInv'
<1> SUFFICES ASSUME OrderInv, [Next]_vars PROVE OrderInv'
  OBVIOUS
<1>1. CASE Trainer
  BY <1>1, FetchStep, GenerateStep, WriteOutStep, SeeScoreStep, SeeInputStep, ReadInputStep,
     ReadScoreStep, EndBatchStep DEF Trainer
<1>2. CASE Agent
  BY <1>2, OpenPromptStep, PrimePromptStep, SkipPromptStep, ClaimStep, ListenStep,
     OpenInputStep, WriteInputStep, OpenScoreStep, WriteScoreStep, ExitStep DEF Agent
<1>3. CASE \E l \in Launchers : Launcher(l)
  BY <1>3, RemoveStep, RunStep, ReturnStep DEF Launcher
<1>4. CASE Crash
  BY <1>4, ExitStep
<1>5. CASE Resubmit
  BY <1>5, ResubmitStep
<1>6. CASE Ended \/ UNCHANGED vars
  BY <1>6, StutterStep DEF Ended
<1> QED
  BY <1>1, <1>2, <1>3, <1>4, <1>5, <1>6 DEF Next

-----------------------------------------------------------------------------
(* What the files hold: the replies. *)

TextPart == ChatInv /\ PromptQuotesReplies /\ ScoreDeserved /\ RewardIsVerdict

\* A reply stays as it was given, unless its row is generated again.
RepliesStay ==
  \A r \in Rollouts \ Repeated, i \in Iters :
    out[r][i] \notin {None, << >>} => out'[r][i] = out[r][i]

\* A row that is not repeated stands where it was drawn.
LEMMA RowDrawn ==
  ASSUME TrainerOK, Row \notin Repeated
  PROVE  batch \in DOMAIN Batches /\ row \in DOMAIN Batches[batch] /\ Row = Batches[batch][row]
<1>1. /\ batch \in DOMAIN Batches
      /\ Rows \in Seq(Rollouts) /\ Len(Rows) \in Nat \ {0}
      /\ PadSize(Rows) \in Nat /\ row \in 1 .. Len(Rows) + PadSize(Rows)
  BY FirstRow DEF TrainerOK, Rows
<1>2. Row = IF row <= Len(Rows) THEN Rows[row] ELSE Rows[row - Len(Rows)]
  BY <1>1 DEF Row, Padded
<1>3. row <= Len(Rows)
  <2> SUFFICES ASSUME row > Len(Rows) PROVE FALSE
    BY <1>1
  <2>1. row - Len(Rows) \in 1 .. PadSize(Rows) /\ Row = Rows[row - Len(Rows)]
    BY <1>1, <1>2
  <2> QED
    BY <1>1, <2>1 DEF Repeated, Rows
<1> QED
  BY <1>1, <1>2, <1>3 DEF Rows

LEMMA WrittenAnswer == \A k \in Answers : <<k>> # None /\ <<k>> # << >>
<1>1. \A k \in Answers : <<k>> \in Seq(Answers)
  OBVIOUS
<1> QED
  BY <1>1, FileAssumption

LEMMA RepliesFrame ==
  ASSUME RepliesInv, UNCHANGED <<trainer, out>>
  PROVE  RepliesInv' /\ RepliesStay
BY DEF RepliesInv, RepliesStay, Ahead, trainer, Exists, Row, Rows

\* A step that writes no reply and leaves nothing behind it to be written.
LEMMA AheadFrame ==
  ASSUME RepliesInv, UNCHANGED out, tpc' # "write",
         \A b \in DOMAIN Batches : \A k \in DOMAIN Batches[b], i \in Iters :
           b > batch' \/ (b = batch' /\ Ahead(k, i)') => b > batch \/ (b = batch /\ Ahead(k, i))
  PROVE  RepliesInv' /\ RepliesStay
BY DEF RepliesInv, RepliesStay, Exists

LEMMA RowIndex ==
  ASSUME NEW b \in DOMAIN Batches, NEW k \in DOMAIN Batches[b]
  PROVE  b \in Nat /\ k \in Nat /\ k >= 1 /\ Batches[b][k] \in Rollouts
<1>1. b \in Nat /\ Batches[b] \in Seq(Rollouts)
  BY BatchAssumption
<1> QED
  BY <1>1

LEMMA MovesOn ==
  ASSUME OrderInv, RepliesInv,
         Fetch \/ SeeScore \/ SeeInput \/ ReadInput \/ ReadScore \/ EndBatch \/ Resubmit
  PROVE  RepliesInv' /\ RepliesStay
<1>1. /\ batch \in Nat /\ row \in Nat /\ turn \in Nat
      /\ tpc = "fetch" => row = 1 /\ turn = 0
      /\ tpc \in {"reward", "done", "failed", "fetch"} => row = 1 /\ turn = 0
  <2>1. /\ batch \in Nat /\ row \in Nat
    BY Parts, FirstRow, BatchAssumption DEF TrainerPart, TrainerOK, Rows
  <2> QED
    BY <2>1, Parts DEF TrainerPart, TrainerOK, TrainerInv
<1>2. UNCHANGED out /\ tpc' # "write"
  BY DEF Fetch, SeeScore, SeeInput, ReadInput, ReadScore, EndBatch, Resubmit, EndRow, files
<1>3. ASSUME NEW b \in DOMAIN Batches, NEW k \in DOMAIN Batches[b], NEW i \in Iters,
             b > batch' \/ (b = batch' /\ Ahead(k, i)')
      PROVE  b > batch \/ (b = batch /\ Ahead(k, i))
  <2>1. b \in Nat /\ k \in Nat /\ k >= 1 /\ i \in Nat
    BY RowIndex DEF Iters
  <2>2. CASE Fetch
    BY <1>1, <1>3, <2>1, <2>2 DEF Fetch, Ahead
  <2>3. CASE SeeScore
    BY <1>1, <1>3, <2>1, <2>3 DEF SeeScore, EndRow, Ahead
  <2>4. CASE SeeInput
    BY <1>1, <1>3, <2>1, <2>4 DEF SeeInput, Ahead
  <2>5. CASE ReadInput
    BY <1>1, <1>3, <2>1, <2>5 DEF ReadInput, EndRow, Ahead
  <2>6. CASE ReadScore
    BY <1>1, <1>3, <2>1, <2>6 DEF ReadScore, Ahead
  <2>7. CASE EndBatch
    BY <1>1, <1>3, <2>1, <2>7 DEF EndBatch, Ahead
  <2>8. CASE Resubmit
    BY <1>1, <1>3, <2>1, <2>8 DEF Resubmit, Ahead
  <2> QED
    BY <2>2, <2>3, <2>4, <2>5, <2>6, <2>7, <2>8
<1> QED
  BY <1>2, <1>3, AheadFrame

\* The two steps that write a reply: its row is not drawn anywhere else, so no other
\* reply that is still to come gets a file.
LEMMA ReplyWritten ==
  ASSUME OrderInv, RepliesInv, Generate \/ WriteOut
  PROVE  RepliesInv' /\ RepliesStay
<1> DEFINE c == IF tpc = "generate" THEN << >> ELSE <<reply>>
<1>1. /\ Row \in Rollouts /\ turn \in Iters /\ turn \in Nat
      /\ c \in Texts /\ Exists(c)
      /\ out' = [out EXCEPT ![Row][turn] = c]
      /\ out \in [Rollouts -> [Iters -> Texts]]
      /\ UNCHANGED <<batch, row, turn>> /\ Row' = Row
      /\ (tpc = "generate" /\ tpc' = "write") \/ (tpc = "write" /\ tpc' = "poll")
  <2>1. Row \in Rollouts /\ turn \in Iters /\ turn \in Nat
    BY Parts, RowType, IterAssumption DEF TrainerPart, TrainerOK, Iters
  <2>2. c \in Texts /\ Exists(c)
    BY Parts, Written DEF Generate, WriteOut, TrainerPart, TrainerOK, Texts
  <2> QED
    BY <2>1, <2>2, Parts DEF Generate, WriteOut, FilesPart, FilesOK, Row, Rows
<1> HIDE DEF c
<1>2. \A r \in Rollouts, i \in Iters :
        out'[r][i] = IF r = Row /\ i = turn THEN c ELSE out[r][i]
  BY <1>1
<1>3. Row \notin Repeated =>
        /\ batch \in DOMAIN Batches /\ row \in DOMAIN Batches[batch]
        /\ Row = Batches[batch][row]
  BY RowDrawn, Parts DEF TrainerPart
<1>4. Row \notin Repeated => out[Row][turn] \in {None, << >>}
  <2>1. CASE tpc = "generate"
    BY <1>1, <1>3, <2>1 DEF RepliesInv, Ahead, Exists
  <2>2. CASE tpc = "write"
    BY <2>2 DEF RepliesInv
  <2> QED
    BY <1>1, <2>1, <2>2
<1>5. RepliesStay
  BY <1>2, <1>4 DEF RepliesStay
<1>6. \A r \in Rollouts, i, j \in Iters : j <= i /\ Exists(out'[r][i]) => Exists(out'[r][j])
  <2> SUFFICES ASSUME NEW r \in Rollouts, NEW i \in Iters, NEW j \in Iters, j <= i,
                      Exists(out'[r][i])
               PROVE  Exists(out'[r][j])
    OBVIOUS
  <2>1. CASE Exists(out[r][i])
    BY <1>1, <1>2, <2>1 DEF RepliesInv, Exists
  <2>2. CASE ~Exists(out[r][i])
    <3>1. r = Row /\ i = turn
      BY <1>2, <2>2
    <3>2. CASE j = turn
      BY <1>1, <1>2, <3>1, <3>2
    <3>3. CASE j # turn
      <4>1. tpc = "generate" /\ turn > 0 /\ turn - 1 \in Iters /\ j <= turn - 1
        <5>1. tpc = "generate"
          BY <1>1, <2>2, <3>1, Parts DEF TrainerPart, TrainerInv
        <5>2. j < turn /\ j \in Nat
          BY <1>1, <3>1, <3>3 DEF Iters
        <5> QED
          BY <1>1, <5>1, <5>2, IterAssumption DEF Iters
      <4>2. Exists(inp[Row][turn])
        BY <4>1, Parts DEF TrainerPart, TrainerInv
      <4>3. Exists(out[Row][turn - 1])
        BY <1>1, <4>1, <4>2, Parts DEF FilesPart, TurnsAlternate
      <4>4. Exists(out[Row][j])
        BY <1>1, <4>1, <4>3 DEF RepliesInv
      <4> QED
        BY <1>1, <1>2, <3>1, <3>3, <4>4
    <3> QED
      BY <3>2, <3>3
  <2> QED
    BY <2>1, <2>2
<1>7. ASSUME NEW b \in DOMAIN Batches, NEW k \in DOMAIN Batches[b], NEW i \in Iters,
             Batches[b][k] \notin Repeated,
             b > batch \/ (b = batch /\ (k > row \/ (k = row /\ i > turn)))
      PROVE  ~Exists(out'[Batches[b][k]][i])
  <2>1. b \in Nat /\ k \in Nat /\ Batches[b][k] \in Rollouts /\ i \in Nat
    BY RowIndex DEF Iters
  <2>2. ~Exists(out[Batches[b][k]][i])
    BY <1>1, <1>7, <2>1 DEF RepliesInv, Ahead
  <2>3. ~(Batches[b][k] = Row /\ i = turn)
    <3> SUFFICES ASSUME Batches[b][k] = Row, i = turn PROVE FALSE
      OBVIOUS
    <3>1. b = batch /\ k = row
      BY <1>3, <1>7, DistinctAssumption
    <3> QED
      BY <1>1, <1>7, <2>1, <3>1
  <2> QED
    BY <1>2, <2>1, <2>2, <2>3
<1>8. tpc' = "write" => out'[Row][turn] = << >>
  BY <1>1, <1>2 DEF c
<1>9. \A b \in DOMAIN Batches : \A k \in DOMAIN Batches[b], i \in Iters :
        (b > batch \/ (b = batch /\ Ahead(k, i)))'
          => b > batch \/ (b = batch /\ (k > row \/ (k = row /\ i > turn)))
  BY <1>1 DEF Ahead
<1> QED
  BY <1>1, <1>5, <1>6, <1>7, <1>8, <1>9 DEF RepliesInv, Exists

-----------------------------------------------------------------------------
(* What the files hold: prompts, scores and rewards. *)

\* Neither agent nor reward manager has moved, and replies stay.
LEMMA TextFrame ==
  ASSUME OrderInv, TextPart, RepliesStay, UNCHANGED <<agent, inp, score, rewarded>>
  PROVE  TextPart'
<1>1. apc \in Working => Len(chat) \in Nat /\ rid \in Rollouts
                         /\ \A j \in 1 .. Len(chat) : j - 1 \in Iters
  BY Parts, Held, IterAssumption DEF AgentPart, AgentOK, AgentInv, Iters
<1>2. ChatInv'
  <2>1. apc \in Working /\ rid \notin Repeated => Quotes(chat, rid)'
    <3>1. \A k \in Kinds : <<k>> # None /\ <<k>> # << >>
      BY Written DEF Exists
    <3> QED
      BY <1>1, <3>1 DEF TextPart, ChatInv, Quotes, RepliesStay, agent
  <2> QED
    BY <2>1 DEF TextPart, ChatInv, agent, Exists
<1>3. PromptQuotesReplies'
  <2> SUFFICES ASSUME NEW r \in Rollouts \ Repeated, NEW i \in Iters,
                      inp[r][i] \notin {None, << >>}
               PROVE  /\ Len(inp[r][i]) = i
                      /\ \A j \in 1 .. i :
                           inp[r][i][j] \in {"nothing"} \cup {k \in Kinds : out'[r][j - 1] = <<k>>}
    BY DEF PromptQuotesReplies
  <2>1. /\ \A j \in 1 .. i : j - 1 \in Iters
        /\ \A k \in Kinds : <<k>> # None /\ <<k>> # << >>
    BY IterAssumption, Written DEF Iters, Exists
  <2>2. /\ Len(inp[r][i]) = i
        /\ \A j \in 1 .. i :
             inp[r][i][j] \in {"nothing"} \cup {k \in Kinds : out[r][j - 1] = <<k>>}
    BY DEF TextPart, PromptQuotesReplies
  <2>3. \A j \in 1 .. i, k \in Kinds : out[r][j - 1] = <<k>> => out'[r][j - 1] = <<k>>
    BY <2>1 DEF RepliesStay
  <2> QED
    BY <2>2, <2>3
<1>4. ScoreDeserved'
  <2> SUFFICES ASSUME NEW r \in Rollouts \ Repeated, NEW i \in Iters
               PROVE  /\ score[r][i] = <<1>> => out'[r][i] = <<"right">>
                      /\ score[r][i] = <<0>> /\ i < AgentMaxIter - 1 => out'[r][i] = <<"wrong">>
    BY DEF ScoreDeserved
  <2>1. \A k \in Answers : <<k>> # None /\ <<k>> # << >>
    BY WrittenAnswer
  <2> QED
    BY <2>1 DEF TextPart, ScoreDeserved, RepliesStay, Answers
<1>5. RewardIsVerdict'
  BY DEF TextPart, RewardIsVerdict
<1> QED
  BY <1>2, <1>3, <1>4, <1>5 DEF TextPart

\* No process works on a rollout after the step.
LEMMA IdleFrame ==
  ASSUME TextPart, apc' \notin Working, UNCHANGED <<out, inp, score, rewarded>>
  PROVE  TextPart'
<1>1. ChatInv'
  BY DEF ChatInv, Working
<1>2. PromptQuotesReplies' /\ ScoreDeserved' /\ RewardIsVerdict'
  BY DEF TextPart, PromptQuotesReplies, ScoreDeserved, RewardIsVerdict
<1> QED
  BY <1>1, <1>2 DEF TextPart

LEMMA ClaimText ==
  ASSUME OrderInv, TextPart, Claim
  PROVE  TextPart'
<1>1. ChatInv'
  <2>1. chat' = << >> /\ Len(chat') = 0
    BY Parts DEF Claim, AgentPart, ProcessInv, Working
  <2> QED
    BY <2>1 DEF Claim, ChatInv, Quotes
<1>2. PromptQuotesReplies' /\ ScoreDeserved' /\ RewardIsVerdict'
  BY DEF Claim, trainer, TextPart, PromptQuotesReplies, ScoreDeserved, RewardIsVerdict
<1> QED
  BY <1>1, <1>2 DEF TextPart

\* What the agent hears is the reply, or nothing.
LEMMA ListenText ==
  ASSUME OrderInv, TextPart, Listen
  PROVE  TextPart'
<1> DEFINE heard == IF out[rid][aturn] = << >> THEN "nothing" ELSE out[rid][aturn][1]
<1>1. /\ rid \in Rollouts /\ aturn \in Iters /\ aturn \in Nat /\ apc = "listen"
      /\ aturn \in 0 .. AgentMaxIter - 1
      /\ chat \in Seq(Heard) /\ Len(chat) = aturn
      /\ out[rid][aturn] \in Texts /\ Exists(out[rid][aturn])
  BY Parts, Held DEF Listen, Working, AgentPart, AgentOK, AgentInv, FilesPart, FilesOK
<1>2. heard \in Heard /\ heard \in {"nothing"} \cup {k \in Kinds : out[rid][aturn] = <<k>>}
  BY <1>1 DEF Texts, Exists, Heard
<1>3. /\ chat' = Append(chat, heard)
      /\ apc' = IF GoesOn(heard) THEN "ask" ELSE "judge"
      /\ UNCHANGED <<out, inp, score, rid, aturn, rewarded>>
  BY DEF Listen, trainer
<1> HIDE DEF heard
<1>4. /\ Len(chat') = aturn + 1 /\ chat'[aturn + 1] = heard
      /\ \A j \in 1 .. aturn : chat'[j] = chat[j]
  BY <1>1, <1>2, <1>3
<1>5. ChatInv'
  <2>1. rid \notin Repeated => Quotes(chat, rid)'
    <3> SUFFICES ASSUME rid \notin Repeated, NEW j \in 1 .. Len(chat')
                 PROVE  chat'[j] \in {"nothing"} \cup {k \in Kinds : out[rid][j - 1] = <<k>>}
      BY <1>3 DEF Quotes
    <3>1. CASE j = aturn + 1
      BY <1>1, <1>2, <1>4, <3>1
    <3>2. CASE j \in 1 .. aturn
      BY <1>1, <1>4, <3>2 DEF TextPart, ChatInv, Quotes, Working
    <3> QED
      BY <1>1, <1>4, <3>1, <3>2
  <2>2. apc' = "judge" => heard \in Answers \/ aturn = AgentMaxIter - 1
    BY <1>1, <1>3, IterAssumption DEF GoesOn
  <2> QED
    BY <1>3, <1>4, <2>1, <2>2 DEF ChatInv
<1>6. PromptQuotesReplies' /\ ScoreDeserved' /\ RewardIsVerdict'
  BY <1>3 DEF TextPart, PromptQuotesReplies, ScoreDeserved, RewardIsVerdict
<1> QED
  BY <1>5, <1>6 DEF TextPart

\* The prompt is the chat.
LEMMA InputText ==
  ASSUME OrderInv, TextPart, OpenInput \/ WriteInput
  PROVE  TextPart'
<1> DEFINE c == IF apc = "ask" THEN << >> ELSE chat
<1>1. /\ rid \in Rollouts /\ aturn \in Iters /\ aturn + 1 \in Iters /\ aturn \in Nat
      /\ apc \in {"ask", "fill"}
      /\ chat \in Seq(Heard) /\ Len(chat) = aturn + 1
      /\ inp \in [Rollouts -> [Iters -> {None} \cup Seq(Heard)]]
      /\ inp' = [inp EXCEPT ![rid][aturn + 1] = c]
      /\ UNCHANGED <<out, score, rid, chat, rewarded>>
  BY Parts, Held
  DEF OpenInput, WriteInput, Working, AgentPart, AgentOK, AgentInv, FilesPart, FilesOK, trainer
<1>2. \A r \in Rollouts, i \in Iters :
        inp'[r][i] = IF r = rid /\ i = aturn + 1 THEN c ELSE inp[r][i]
  BY <1>1
<1>3. rid \notin Repeated => Quotes(chat, rid)
  BY <1>1 DEF TextPart, ChatInv, Working
<1>4. PromptQuotesReplies'
  <2> SUFFICES ASSUME NEW r \in Rollouts \ Repeated, NEW i \in Iters,
                      inp'[r][i] \notin {None, << >>}
               PROVE  /\ Len(inp'[r][i]) = i
                      /\ \A j \in 1 .. i :
                           inp'[r][i][j] \in {"nothing"} \cup {k \in Kinds : out[r][j - 1] = <<k>>}
    BY <1>1 DEF PromptQuotesReplies
  <2>1. CASE r = rid /\ i = aturn + 1
    BY <1>1, <1>2, <1>3, <2>1 DEF Quotes
  <2>2. CASE ~(r = rid /\ i = aturn + 1)
    BY <1>2, <2>2 DEF TextPart, PromptQuotesReplies
  <2> QED
    BY <2>1, <2>2
<1>5. ChatInv'
  <2>1. apc' \in {"fill", "listen"} /\ (apc' = "fill" => UNCHANGED aturn /\ c = << >>)
    BY <1>1 DEF OpenInput, WriteInput
  <2>2. apc' = "fill" => Exists(inp'[rid][aturn + 1])
    BY <1>1, <1>2, <2>1, Written
  <2> QED
    BY <1>1, <1>3, <2>1, <2>2 DEF ChatInv, Quotes, Exists
<1>6. ScoreDeserved' /\ RewardIsVerdict'
  BY <1>1 DEF TextPart, ScoreDeserved, RewardIsVerdict
<1> QED
  BY <1>4, <1>5, <1>6 DEF TextPart

\* The score is that of the last reply, and until it is written there is no other.
LEMMA ScoreText ==
  ASSUME OrderInv, TextPart, OpenScore \/ WriteScore
  PROVE  TextPart'
<1> DEFINE c == IF apc = "judge" THEN << >>
                ELSE IF chat[Len(chat)] = "right" THEN <<1>> ELSE <<0>>
<1>1. /\ rid \in Rollouts /\ aturn \in Iters /\ aturn \in Nat
      /\ apc \in {"judge", "mark"}
      /\ chat \in Seq(Heard) /\ Len(chat) = aturn + 1
      /\ score \in [Rollouts -> [Iters -> Scores]]
      /\ score' = [score EXCEPT ![rid][aturn] = c]
      /\ UNCHANGED <<out, inp, rid, aturn, chat, rewarded>>
  BY Parts, Held
  DEF OpenScore, WriteScore, Working, AgentPart, AgentOK, AgentInv, FilesPart, FilesOK, trainer
<1>2. \A r \in Rollouts, i \in Iters :
        score'[r][i] = IF r = rid /\ i = aturn THEN c ELSE score[r][i]
  BY <1>1
<1>3. rid \notin Repeated => Quotes(chat, rid)
  BY <1>1 DEF TextPart, ChatInv, Working
<1>4. score[rid][aturn] \in {None, << >>}
  BY <1>1, Parts DEF TextPart, ChatInv, AgentPart, AgentInv, Exists
<1>5. ChatInv'
  <2>1. apc' \in {"mark", "exit"} /\ (apc' = "mark" => apc = "judge")
    BY DEF OpenScore, WriteScore
  <2>2. apc' = "mark" => score'[rid][aturn] = << >>
    BY <1>1, <1>2, <2>1
  <2>3. Quotes(chat, rid)' <=> Quotes(chat, rid)
    BY <1>1 DEF Quotes
  <2> QED
    BY <1>1, <1>3, <2>1, <2>2, <2>3 DEF TextPart, ChatInv
<1>6. ScoreDeserved'
  <2> SUFFICES ASSUME NEW r \in Rollouts \ Repeated, NEW i \in Iters
               PROVE  /\ score'[r][i] = <<1>> => out[r][i] = <<"right">>
                      /\ score'[r][i] = <<0>> /\ i < AgentMaxIter - 1 => out[r][i] = <<"wrong">>
    BY <1>1 DEF ScoreDeserved
  <2>1. CASE r = rid /\ i = aturn
    <3> DEFINE last == chat[aturn + 1]
    <3>1. last \in {"nothing"} \cup {k \in Kinds : out[rid][aturn] = <<k>>}
      BY <1>1, <1>3, <2>1 DEF Quotes
    <3>2. last \in Answers => out[rid][aturn] = <<last>>
      BY <3>1 DEF Answers
    <3>3. c = <<1>> => last = "right"
      BY <1>1
    <3>4. c = <<0>> /\ i < AgentMaxIter - 1 => last = "wrong"
      <4>1. last \in Answers \/ aturn = AgentMaxIter - 1
        BY <1>1 DEF TextPart, ChatInv
      <4> QED
        BY <1>1, <2>1, <4>1, IterAssumption DEF Answers
    <3> QED
      BY <1>2, <2>1, <3>2, <3>3, <3>4 DEF Answers
  <2>2. CASE ~(r = rid /\ i = aturn)
    BY <1>2, <2>2 DEF TextPart, ScoreDeserved
  <2> QED
    BY <2>1, <2>2
<1>7. RewardIsVerdict'
  <2> SUFFICES ASSUME NEW r \in Rollouts, NEW v \in {0, 1}, <<r, v>> \in rewarded
               PROVE  \E i \in Iters : score'[r][i] = <<v>>
    BY <1>1 DEF RewardIsVerdict
  <2>1. PICK i \in Iters : score[r][i] = <<v>>
    BY DEF TextPart, RewardIsVerdict
  <2>2. <<v>> # << >> /\ <<v>> # None
    BY Written DEF Exists
  <2> QED
    BY <1>2, <1>4, <2>1, <2>2
<1>8. PromptQuotesReplies'
  BY <1>1 DEF TextPart, PromptQuotesReplies
<1> QED
  BY <1>5, <1>6, <1>7, <1>8 DEF TextPart

\* The reward is the verdict that was read.
LEMMA ReadScoreText ==
  ASSUME OrderInv, TextPart, ReadScore
  PROVE  TextPart'
<1>1. RewardIsVerdict'
  <2>1. Rows \in Seq(Rollouts)
    BY Parts, RowType DEF TrainerPart
  <2>2. PICK q \in {Rows[k] : k \in DOMAIN Rows}, j \in Iters :
           /\ Exists(score[q][j])
           /\ IF score[q][j] = << >>
                THEN UNCHANGED rewarded
                ELSE rewarded' = rewarded \cup {<<q, score[q][j][1]>>}
    BY DEF ReadScore
  <2>3. q \in Rollouts /\ score[q][j] \in Scores /\ UNCHANGED score
    BY <2>1, Parts DEF FilesPart, FilesOK, ReadScore, files
  <2>4. score[q][j] # << >> => score[q][j] = <<score[q][j][1]>>
    BY <2>2, <2>3 DEF Scores, Exists
  <2> SUFFICES ASSUME NEW r \in Rollouts, NEW v \in {0, 1}, <<r, v>> \in rewarded'
               PROVE  \E i \in Iters : score[r][i] = <<v>>
    BY <2>3 DEF RewardIsVerdict
  <2>5. CASE <<r, v>> \in rewarded
    BY <2>5 DEF TextPart, RewardIsVerdict
  <2>6. CASE <<r, v>> \notin rewarded
    <3>1. score[q][j] # << >> /\ <<r, v>> = <<q, score[q][j][1]>>
      BY <2>2, <2>6
    <3> QED
      BY <2>4, <3>1
  <2> QED
    BY <2>5, <2>6
<1>2. ChatInv' /\ PromptQuotesReplies' /\ ScoreDeserved'
  BY DEF ReadScore, TextPart, ChatInv, Quotes, PromptQuotesReplies, ScoreDeserved, files, agent,
     Exists
<1> QED
  BY <1>1, <1>2 DEF TextPart

LEMMA InitContent == Init => ContentInv
<1> SUFFICES ASSUME Init PROVE ContentInv
  OBVIOUS
<1>1. RepliesInv
  <2>1. \A b \in DOMAIN Batches : \A k \in DOMAIN Batches[b] : Batches[b][k] \in Rollouts
    BY RowIndex
  <2> QED
    BY <2>1 DEF Init, RepliesInv, Exists
<1>2. ChatInv
  BY DEF Init, ChatInv, Working
<1>3. PromptQuotesReplies /\ ScoreDeserved /\ RewardIsVerdict
  <2>1. None # <<0>> /\ None # <<1>>
    BY Written DEF Exists
  <2> QED
    BY <2>1 DEF Init, PromptQuotesReplies, ScoreDeserved, RewardIsVerdict
<1> QED
  BY <1>1, <1>2, <1>3 DEF ContentInv

LEMMA NextContent == OrderInv /\ ContentInv /\ [Next]_vars => ContentInv' /\ RepliesStay
<1> SUFFICES ASSUME OrderInv, RepliesInv, TextPart, [Next]_vars
             PROVE  RepliesInv' /\ RepliesStay /\ TextPart'
  BY DEF ContentInv, TextPart
<1>1. CASE Fetch \/ SeeScore \/ SeeInput \/ ReadInput \/ EndBatch \/ Resubmit
  <2>1. UNCHANGED <<agent, inp, score, rewarded>>
    BY <1>1 DEF Fetch, SeeScore, SeeInput, ReadInput, EndBatch, Resubmit, files
  <2> QED
    BY <1>1, <2>1, MovesOn, TextFrame
<1>2. CASE ReadScore
  BY <1>2, MovesOn, ReadScoreText
<1>3. CASE Generate \/ WriteOut
  <2>1. UNCHANGED <<agent, inp, score, rewarded>>
    BY <1>3 DEF Generate, WriteOut
  <2> QED
    BY <1>3, <2>1, ReplyWritten, TextFrame
<1>4. CASE \/ OpenPrompt \/ PrimePrompt \/ SkipPrompt \/ Exit \/ Crash
           \/ \E l \in Launchers : Clear(l) \/ Run(l) \/ Sweep(l)
  <2>1. UNCHANGED <<trainer, out, inp, score>> /\ apc' \notin Working
    BY <1>4 DEF OpenPrompt, PrimePrompt, SkipPrompt, ReadProcessed, Exit, Crash, Clear, Run,
       Sweep, StopContainer, files, Working
  <2> QED
    BY <2>1, RepliesFrame, IdleFrame DEF trainer
<1>5. CASE Claim \/ Listen \/ OpenInput \/ WriteInput \/ OpenScore \/ WriteScore
  <2>1. UNCHANGED <<trainer, out>>
    BY <1>5 DEF Claim, Listen, OpenInput, WriteInput, OpenScore, WriteScore
  <2> QED
    BY <1>5, <2>1, RepliesFrame, ClaimText, ListenText, InputText, ScoreText
<1>6. CASE (\E l \in Launchers : RunConflict(l) \/ Return(l)) \/ Ended \/ UNCHANGED vars
  <2>1. UNCHANGED <<trainer, files, agent>>
    BY <1>6 DEF RunConflict, Return, Ended, vars
  <2> QED
    BY <2>1, RepliesFrame, TextFrame DEF files, trainer
<1> QED
  BY <1>1, <1>2, <1>3, <1>4, <1>5, <1>6 DEF Next, Trainer, Agent, Launcher

-----------------------------------------------------------------------------
(* The refinement. *)

\* The phase of a rollout as nested choices.
LEMMA Phases ==
  ASSUME NEW r \in Rollouts
  PROVE  /\ PhaseOf(r) = IF Closed(r) THEN "closed"
                         ELSE IF ~Exists(out[r][0]) THEN "new"
                         ELSE IF Asked(r) THEN "asked" ELSE "replied"
         /\ PhaseOf(r)' = IF Closed(r)' THEN "closed"
                          ELSE IF ~Exists(out[r][0])' THEN "new"
                          ELSE IF Asked(r)' THEN "asked" ELSE "replied"
BY DEF PhaseOf

\* How often the trainer spoke.
Spoken(r) == {i \in Iters : Exists(out[r][i])}

\* What a step does not show of a rollout.
LEMMA SamePhase ==
  ASSUME NEW r \in Rollouts,
         \A i \in Iters :
           /\ Exists(out[r][i])' <=> Exists(out[r][i])
           /\ Exists(inp[r][i])' <=> Exists(inp[r][i])
           /\ Exists(score[r][i])' <=> Exists(score[r][i])
  PROVE  PhaseOf(r)' = PhaseOf(r) /\ Spoken(r)' = Spoken(r)
<1>1. 0 \in Iters
  BY IterAssumption DEF Iters
<1>2. (Closed(r)' <=> Closed(r)) /\ (Asked(r)' <=> Asked(r))
  BY DEF Closed, Asked
<1>3. Spoken(r)' = Spoken(r)
  BY DEF Spoken
<1> QED
  BY <1>1, <1>2, <1>3, Phases

\* A score that is open and not written yet is no verdict.
LEMMA EmptyIsNoVerdict == << >> # <<0>> /\ << >> # <<1>>
<1>1. Len(<< >>) = 0 /\ Len(<<0>>) = 1 /\ Len(<<1>>) = 1
  OBVIOUS
<1> QED
  BY <1>1

LEMMA SameVerdict ==
  ASSUME NEW r \in Rollouts, \A i \in Iters : score'[r][i] = score[r][i]
  PROVE  VerdictOf(r)' = VerdictOf(r)
<1>1. \A v : (\E i \in Iters : score'[r][i] = v) <=> (\E i \in Iters : score[r][i] = v)
  OBVIOUS
<1> QED
  BY <1>1 DEF VerdictOf

\* The rollouts a step leaves alone.
LEMMA Stutters ==
  ASSUME UNCHANGED score,
         \A r \in Rollouts, i \in Iters :
           /\ Exists(out[r][i])' <=> Exists(out[r][i])
           /\ Exists(inp[r][i])' <=> Exists(inp[r][i])
  PROVE  UNCHANGED Dialogue!dialogueVars
<1>1. \A r \in Rollouts : /\ PhaseOf(r)' = PhaseOf(r) /\ Spoken(r)' = Spoken(r)
                          /\ VerdictOf(r)' = VerdictOf(r)
  BY SamePhase, SameVerdict DEF Exists
<1> QED
  BY <1>1 DEF Dialogue!dialogueVars, Spoken

\* The set of a rollout's replies is finite.
LEMMA SpokenFinite ==
  ASSUME NEW r \in Rollouts
  PROVE  IsFiniteSet(Spoken(r)) /\ Cardinality(Spoken(r)) \in Nat
<1>1. TrainerMaxIter + AgentMaxIter \in Int /\ Spoken(r) \in SUBSET Iters
  BY IterAssumption DEF Spoken
<1>2. IsFiniteSet(Iters)
  BY <1>1, FS_Interval DEF Iters
<1> QED
  BY <1>1, <1>2, FS_Subset, FS_CardinalityType

\* A reply whose file was not there begins a rollout or answers a prompt.
LEMMA GenerateMaps ==
  ASSUME IInv, Generate
  PROVE  [Dialogue!DialogueNext]_(Dialogue!dialogueVars)
<1>0. PICK q \in Rollouts : q = Row
  BY Parts, RowType DEF TrainerPart, TrainerOK, IInv
<1>1. /\ q \in Rollouts /\ turn \in Iters /\ turn \in Nat /\ 0 \in Iters
      /\ turn < TrainerMaxIter /\ OrderInv /\ RepliesInv
  BY <1>0, Parts, RowType, IterAssumption
  DEF TrainerPart, TrainerOK, Iters, IInv, ContentInv
<1>2. /\ turn > 0 => Exists(inp[q][turn])
      /\ out \in [Rollouts -> [Iters -> Texts]]
      /\ out' = [out EXCEPT ![q][turn] = << >>]
      /\ UNCHANGED <<inp, score>>
  BY <1>0, <1>1, Parts DEF Generate, TrainerPart, TrainerInv, FilesPart, FilesOK
<1>3. \A r \in Rollouts, i \in Iters :
        Exists(out[r][i])' <=> (r = q /\ i = turn) \/ Exists(out[r][i])
  BY <1>1, <1>2, Written DEF Exists
<1>4. CASE Exists(out[q][turn])
  <2>1. UNCHANGED Dialogue!dialogueVars
    BY <1>2, <1>3, <1>4, Stutters DEF Exists
  <2> QED
    BY <2>1
<1>5. CASE ~Exists(out[q][turn])
  <2>1. /\ TurnsAlternate /\ OneVerdict
        /\ \A i, j \in Iters : j <= i /\ Exists(out[q][i]) => Exists(out[q][j])
    BY <1>1, Parts DEF FilesPart, RepliesInv
  <2>2. \A i \in Iters : Exists(out[q][i]) <=> i < turn
    <3> SUFFICES ASSUME NEW i \in Iters PROVE Exists(out[q][i]) <=> i < turn
      OBVIOUS
    <3>0. i \in Nat
      BY DEF Iters
    <3>1. CASE i >= turn
      BY <1>1, <1>5, <2>1, <3>0, <3>1
    <3>2. CASE i < turn
      <4>1. turn > 0 /\ turn - 1 \in Iters /\ i <= turn - 1
        BY <1>1, <3>0, <3>2, IterAssumption DEF Iters
      <4>2. Exists(out[q][turn - 1])
        BY <1>1, <1>2, <2>1, <4>1 DEF TurnsAlternate
      <4> QED
        BY <2>1, <3>2, <4>1, <4>2
    <3> QED
      BY <1>1, <3>0, <3>1, <3>2
  <2>3. ~Closed(q) /\ ~Closed(q)'
    <3>1. ASSUME NEW i \in Iters, Exists(score[q][i]) PROVE FALSE
      <4>1. Exists(out[q][i])
        BY <1>1, <2>1, <3>1 DEF TurnsAlternate
      <4>2. i < turn /\ turn > 0 /\ i \in Nat
        BY <1>1, <2>2, <4>1 DEF Iters
      <4>3. Exists(inp[q][turn])
        BY <1>2, <4>2
      <4> QED
        BY <1>1, <2>1, <3>1, <4>2, <4>3 DEF OneVerdict
    <3> QED
      BY <1>2, <3>1 DEF Closed, Exists
  <2>4. PhaseOf(q) \in {"new", "asked"}
    <3>1. CASE turn = 0
      BY <1>1, <1>5, <2>3, <3>1, Phases
    <3>2. CASE turn > 0
      <4>1. Asked(q)
        BY <1>1, <1>2, <1>5, <3>2 DEF Asked
      <4> QED
        BY <1>1, <2>3, <4>1, Phases
    <3> QED
      BY <1>1, <3>1, <3>2
  <2>5. PhaseOf(q)' = "replied"
    <3>1. Exists(out[q][0])'
      BY <1>1, <1>3, <2>2
    <3>2. ASSUME NEW i \in Iters, Exists(inp[q][i])', ~Exists(out[q][i])' PROVE FALSE
      <4>1. i \in Nat /\ i > turn /\ Exists(inp[q][i])
        BY <1>1, <1>2, <1>3, <2>2, <3>2 DEF Iters, Exists
      <4>2. Exists(out[q][i - 1]) /\ i - 1 \in Iters
        BY <1>1, <2>1, <4>1, IterAssumption DEF TurnsAlternate, Iters
      <4> QED
        BY <1>1, <2>2, <4>1, <4>2
    <3>3. ~Asked(q)'
      BY <3>2 DEF Asked
    <3> QED
      BY <1>1, <2>3, <3>1, <3>3, Phases
  <2>6. /\ Cardinality(Spoken(q)) < TrainerMaxIter
        /\ Cardinality(Spoken(q)') = Cardinality(Spoken(q)) + 1
    <3>1. Spoken(q)' = Spoken(q) \cup {turn} /\ turn \notin Spoken(q)
      BY <1>1, <1>3, <1>5 DEF Spoken
    <3>2. Spoken(q) \in SUBSET (0 .. turn - 1)
      BY <1>1, <2>2 DEF Spoken, Iters
    <3>3. IsFiniteSet(0 .. turn - 1) /\ Cardinality(0 .. turn - 1) = turn
      <4>1. turn - 1 \in Int /\ 0 \in Int
        BY <1>1
      <4>2. /\ IsFiniteSet(0 .. turn - 1)
            /\ Cardinality(0 .. turn - 1) = IF 0 > turn - 1 THEN 0 ELSE turn - 1 - 0 + 1
        BY <4>1, FS_Interval
      <4> QED
        BY <1>1, <4>2
    <3>4. Cardinality(Spoken(q)) <= turn
      BY <3>2, <3>3, FS_Subset
    <3>5. IsFiniteSet(Spoken(q)) /\ Cardinality(Spoken(q)) \in Nat
      BY <1>1, SpokenFinite
    <3>6. Cardinality(Spoken(q) \cup {turn}) = Cardinality(Spoken(q)) + 1
      BY <3>1, <3>5, FS_AddElement
    <3> QED
      BY <1>1, <3>1, <3>4, <3>5, <3>6, IterAssumption
  <2>7. \A r \in Rollouts :
          /\ r # q => PhaseOf(r)' = PhaseOf(r) /\ Spoken(r)' = Spoken(r)
          /\ VerdictOf(r)' = VerdictOf(r)
    BY <1>2, <1>3, SamePhase, SameVerdict DEF Exists
  <2>8. Dialogue!Reply(q)
    BY <1>1, <2>4, <2>5, <2>6, <2>7 DEF Dialogue!Reply, Spoken
  <2> QED
    BY <1>1, <2>8 DEF Dialogue!DialogueNext
<1> QED
  BY <1>4, <1>5

\* Between the reading of a reply and what follows it a rollout has been replied to.
LEMMA HeldIsReplied ==
  ASSUME IInv, apc \in {"ask", "judge"}
  PROVE  PhaseOf(rid) = "replied" /\ rid \in Rollouts
<1>1. /\ rid \in Rollouts /\ aturn \in Iters /\ aturn \in Nat /\ 0 \in Iters
      /\ Exists(out[rid][aturn]) /\ OrderInv /\ RepliesInv
      /\ \A i \in Iters : ~Exists(score[rid][i])
      /\ \A i \in Iters : Exists(inp[rid][i]) => i <= aturn
  BY Parts, Held, IterAssumption
  DEF IInv, ContentInv, AgentPart, AgentInv, Working, Iters
<1>2. \A i \in Iters : i <= aturn => Exists(out[rid][i])
  BY <1>1 DEF RepliesInv
<1>3. ~Closed(rid) /\ ~Asked(rid) /\ Exists(out[rid][0])
  BY <1>1, <1>2 DEF Closed, Asked
<1> QED
  BY <1>1, <1>3, Phases

LEMMA OpenInputMaps ==
  ASSUME IInv, OpenInput
  PROVE  Dialogue!DialogueNext
<1>0. PICK q \in Rollouts : q = rid
  BY Parts, Held, HeldIsReplied DEF IInv, ContentInv, ChatInv, OpenInput, Working
<1>1. /\ q = rid /\ q \in Rollouts /\ aturn + 1 \in Iters /\ aturn \in Nat /\ 0 \in Iters
      /\ PhaseOf(q) = "replied"
      /\ inp \in [Rollouts -> [Iters -> {None} \cup Seq(Heard)]]
      /\ \A i \in Iters : ~Exists(score[q][i])
      /\ \A i \in Iters : Exists(inp[q][i]) => i <= aturn
      /\ TurnsAlternate
  BY <1>0, Parts, Held, HeldIsReplied, IterAssumption
  DEF IInv, OpenInput, FilesPart, FilesOK, AgentPart, AgentInv, Working, Iters
<1>2. /\ inp' = [inp EXCEPT ![q][aturn + 1] = << >>]
      /\ UNCHANGED <<out, score>>
  BY <1>0 DEF OpenInput
<1>3. \A r \in Rollouts, i \in Iters :
        Exists(inp[r][i])' <=> (r = q /\ i = aturn + 1) \/ Exists(inp[r][i])
  BY <1>1, <1>2, Written DEF Exists
<1>4. ~Exists(out[q][aturn + 1])
  BY <1>1 DEF TurnsAlternate
<1>5. Asked(q)' /\ ~Closed(q)'
  BY <1>1, <1>2, <1>3, <1>4 DEF Asked, Closed, Exists
<1>6. PhaseOf(q)' = "asked"
  BY <1>1, <1>2, <1>5, Phases DEF Exists
<1>7. \A r \in Rollouts :
        /\ r # q => PhaseOf(r)' = PhaseOf(r)
        /\ Spoken(r)' = Spoken(r) /\ VerdictOf(r)' = VerdictOf(r)
  BY <1>2, <1>3, SamePhase, SameVerdict DEF Exists, Spoken
<1>8. Dialogue!Ask(q)
  BY <1>1, <1>6, <1>7 DEF Dialogue!Ask, Spoken
<1> QED
  BY <1>1, <1>8 DEF Dialogue!DialogueNext

\* The file of the score appears: the rollout is closed, without a verdict yet.
LEMMA OpenScoreMaps ==
  ASSUME IInv, OpenScore
  PROVE  Dialogue!DialogueNext
<1>0. PICK q \in Rollouts : q = rid
  BY Parts, Held, HeldIsReplied DEF IInv, ContentInv, ChatInv, OpenScore, Working
<1>1. /\ q = rid /\ q \in Rollouts /\ aturn \in Iters
      /\ PhaseOf(q) = "replied"
      /\ score \in [Rollouts -> [Iters -> Scores]]
      /\ \A i \in Iters : ~Exists(score[q][i])
  BY <1>0, Parts, Held, HeldIsReplied
  DEF IInv, OpenScore, FilesPart, FilesOK, AgentPart, AgentInv, Working
<1>2. /\ score' = [score EXCEPT ![q][aturn] = << >>]
      /\ UNCHANGED <<out, inp>>
  BY <1>0 DEF OpenScore
<1>3. \A r \in Rollouts, i \in Iters :
        score'[r][i] = IF r = q /\ i = aturn THEN << >> ELSE score[r][i]
  BY <1>1, <1>2
<1>4. Closed(q)'
  BY <1>1, <1>3, Written DEF Closed, Exists
<1>5. PhaseOf(q)' = "closed"
  BY <1>1, <1>4, Phases
<1>6. VerdictOf(q)' = "none" /\ VerdictOf(q) = "none"
  <2>1. \A i \in Iters : score[q][i] = None /\ score'[q][i] \in {None, << >>}
    BY <1>1, <1>3 DEF Exists
  <2>2. None # <<0>> /\ None # <<1>>
    BY Written DEF Exists
  <2>3. \A i \in Iters : /\ score[q][i] # <<0>> /\ score'[q][i] # <<0>>
                         /\ score[q][i] # <<1>> /\ score'[q][i] # <<1>>
    BY <2>1, <2>2, EmptyIsNoVerdict
  <2> QED
    BY <2>3 DEF VerdictOf
<1>7. \A r \in Rollouts :
        /\ r # q => PhaseOf(r)' = PhaseOf(r) /\ VerdictOf(r)' = VerdictOf(r)
        /\ Spoken(r)' = Spoken(r)
  BY <1>2, <1>3, SamePhase, SameVerdict DEF Exists, Spoken
<1>8. Dialogue!Close(q)
  BY <1>1, <1>5, <1>6, <1>7 DEF Dialogue!Close, Spoken
<1> QED
  BY <1>1, <1>8 DEF Dialogue!DialogueNext

LEMMA WriteScoreMaps ==
  ASSUME IInv, WriteScore
  PROVE  Dialogue!DialogueNext
<1> DEFINE c == IF chat[Len(chat)] = "right" THEN <<1>> ELSE <<0>>
<1>0. PICK q \in Rollouts : q = rid
  BY Parts, Held, HeldIsReplied DEF IInv, ContentInv, ChatInv, WriteScore, Working
<1>1. /\ q = rid /\ q \in Rollouts /\ aturn \in Iters
      /\ score \in [Rollouts -> [Iters -> Scores]]
      /\ score[q][aturn] = << >>
      /\ \A i \in Iters : Exists(score[q][i]) => i = aturn
  BY <1>0, Parts, Held
  DEF IInv, ContentInv, ChatInv, WriteScore, FilesPart, FilesOK, AgentPart, AgentInv, Working
<1>2. /\ score' = [score EXCEPT ![q][aturn] = c]
      /\ UNCHANGED <<out, inp>> /\ c \in {<<0>>, <<1>>}
  BY <1>0 DEF WriteScore
<1> HIDE DEF c
<1>3. \A r \in Rollouts, i \in Iters :
        score'[r][i] = IF r = q /\ i = aturn THEN c ELSE score[r][i]
  BY <1>1, <1>2
<1>4. Closed(q) /\ PhaseOf(q) = "closed"
  BY <1>1, Written, Phases DEF Closed
<1>5. VerdictOf(q) = "none" /\ VerdictOf(q)' \in {"passed", "failed"}
  <2>1. None # <<0>> /\ None # <<1>>
    BY Written DEF Exists
  <2>2. \A i \in Iters : score[q][i] # <<0>> /\ score[q][i] # <<1>>
    BY <1>1, <2>1, EmptyIsNoVerdict DEF Exists
  <2>3. (\E i \in Iters : score'[q][i] = <<0>>) \/ (\E i \in Iters : score'[q][i] = <<1>>)
    BY <1>1, <1>2, <1>3
  <2> QED
    BY <2>2, <2>3 DEF VerdictOf
<1>6. \A r \in Rollouts, i \in Iters :
        /\ Exists(score[r][i])' <=> Exists(score[r][i])
        /\ r # q => score'[r][i] = score[r][i]
  BY <1>1, <1>2, <1>3, Written DEF Exists
<1>7. \A r \in Rollouts :
        /\ PhaseOf(r)' = PhaseOf(r) /\ Spoken(r)' = Spoken(r)
        /\ r # q => VerdictOf(r)' = VerdictOf(r)
  BY <1>2, <1>6, SamePhase, SameVerdict DEF Exists
<1>8. PICK v \in {"passed", "failed"} : VerdictOf(q)' = v
  BY <1>5
<1>9. Dialogue!Publish(q)
  BY <1>1, <1>4, <1>5, <1>7, <1>8 DEF Dialogue!Publish, Spoken
<1> QED
  BY <1>1, <1>9 DEF Dialogue!DialogueNext

\* Filling a file that is there shows nothing.
LEMMA FillStutters ==
  ASSUME IInv, WriteOut \/ WriteInput
  PROVE  UNCHANGED Dialogue!dialogueVars
<1>1. CASE WriteOut
  <2>1. /\ Row \in Rollouts /\ turn \in Iters /\ reply \in Kinds
        /\ out \in [Rollouts -> [Iters -> Texts]] /\ Exists(out[Row][turn])
    BY <1>1, Parts, RowType, IterAssumption
    DEF IInv, WriteOut, TrainerPart, TrainerOK, TrainerInv, FilesPart, FilesOK, Iters
  <2>2. out' = [out EXCEPT ![Row][turn] = <<reply>>] /\ UNCHANGED <<inp, score>>
    BY <1>1 DEF WriteOut
  <2>3. \A r \in Rollouts, i \in Iters : Exists(out[r][i])' <=> Exists(out[r][i])
    BY <2>1, <2>2, Written DEF Exists
  <2> QED
    BY <2>2, <2>3, Stutters DEF Exists
<1>2. CASE WriteInput
  <2>1. /\ rid \in Rollouts /\ aturn + 1 \in Iters /\ chat \in Seq(Heard)
        /\ inp \in [Rollouts -> [Iters -> {None} \cup Seq(Heard)]]
        /\ Exists(inp[rid][aturn + 1])
    BY <1>2, Parts, Held
    DEF IInv, ContentInv, ChatInv, WriteInput, Working, AgentPart, AgentOK, FilesPart, FilesOK
  <2>2. inp' = [inp EXCEPT ![rid][aturn + 1] = chat] /\ UNCHANGED <<out, score>>
    BY <1>2 DEF WriteInput
  <2>3. \A r \in Rollouts, i \in Iters : Exists(inp[r][i])' <=> Exists(inp[r][i])
    BY <2>1, <2>2, Written DEF Exists
  <2> QED
    BY <2>2, <2>3, Stutters DEF Exists
<1> QED
  BY <1>1, <1>2

LEMMA StepMaps == IInv /\ [Next]_vars => [Dialogue!DialogueNext]_(Dialogue!dialogueVars)
<1> SUFFICES ASSUME IInv, [Next]_vars
             PROVE  [Dialogue!DialogueNext]_(Dialogue!dialogueVars)
  OBVIOUS
<1>1. CASE Generate
  BY <1>1, GenerateMaps
<1>2. CASE OpenInput \/ OpenScore \/ WriteScore
  BY <1>2, OpenInputMaps, OpenScoreMaps, WriteScoreMaps
<1>3. CASE WriteOut \/ WriteInput
  BY <1>3, FillStutters
<1>4. CASE \/ Fetch \/ SeeScore \/ SeeInput \/ ReadInput \/ ReadScore \/ EndBatch \/ Resubmit
           \/ OpenPrompt \/ PrimePrompt \/ SkipPrompt \/ Claim \/ Listen \/ Exit \/ Crash
           \/ (\E l \in Launchers : Launcher(l)) \/ Ended \/ UNCHANGED vars
  <2>1. UNCHANGED <<out, inp, score>>
    BY <1>4 DEF Fetch, SeeScore, SeeInput, ReadInput, ReadScore, EndBatch, Resubmit, OpenPrompt,
       PrimePrompt, SkipPrompt, ReadProcessed, Claim, Listen, Exit, Crash, Launcher, Clear, Run,
       RunConflict, Return, Sweep, Ended, vars, files
  <2>2. UNCHANGED Dialogue!dialogueVars
    BY <2>1, Stutters DEF Exists
  <2> QED
    BY <2>2
<1> QED
  BY <1>1, <1>2, <1>3, <1>4 DEF Next, Trainer, Agent

LEMMA InitMaps == Init => Dialogue!DialogueInit
<1> SUFFICES ASSUME Init, NEW r \in Rollouts
             PROVE  PhaseOf(r) = "new" /\ Cardinality(Spoken(r)) = 0 /\ VerdictOf(r) = "none"
  BY DEF Dialogue!DialogueInit, Spoken
<1>1. 0 \in Iters /\ \A i \in Iters : out[r][i] = None /\ score[r][i] = None
  BY IterAssumption DEF Init, Iters
<1>2. PhaseOf(r) = "new"
  BY <1>1, Phases DEF Closed, Exists
<1>3. Spoken(r) = {}
  BY <1>1 DEF Spoken, Exists
<1>4. VerdictOf(r) = "none"
  BY <1>1, Written DEF VerdictOf, Exists
<1> QED
  BY <1>2, <1>3, <1>4, FS_EmptySet

-----------------------------------------------------------------------------
(* The theorems. *)

\* The invariant holds for every set of rollouts and launchers, every schedule
\* of batches and every number of crashes and resubmissions.
THEOREM Invariance == Spec => []IInv
<1>1. Init => IInv
  BY InitOrder, InitContent DEF IInv
<1>2. IInv /\ [Next]_vars => IInv'
  BY NextOrder, NextContent DEF IInv
<1> QED
  BY <1>1, <1>2, PTL DEF Spec

\* The state keeps its shape.
THEOREM TypeCorrect == Spec => []TypeOK
<1>1. IInv => TypeOK
  BY DEF IInv, OrderInv
<1> QED
  BY <1>1, Invariance, PTL

\* Trainer and agent take turns, whoever crashes.
THEOREM Alternation == Spec => []TurnsAlternate
<1>1. IInv => TurnsAlternate
  BY DEF IInv, OrderInv
<1> QED
  BY <1>1, Invariance, PTL

\* A rollout has one score file and nothing is asked after it.
THEOREM VerdictIsUnique == Spec => []OneVerdict
<1>1. IInv => OneVerdict
  BY DEF IInv, OrderInv
<1> QED
  BY <1>1, Invariance, PTL

\* With as many turns as the agent, the trainer never gets to the end of its
\* loop.
THEOREM NeverGetHere == Spec => []NeverUnscored
<1>1. IInv => NeverUnscored
  BY DEF IInv, OrderInv
<1> QED
  BY <1>1, Invariance, PTL

\* No rollout is taken up twice: only one process is ever alive, so the list it
\* read is the list it extends.
THEOREM AtMostOneClaim == Spec => ClaimedOnce
<1>1. IInv /\ [Next]_vars
      => [\A r \in Rollouts : rid # r /\ rid' = r => r \notin processed /\ r \in processed']_vars
  <2> SUFFICES ASSUME IInv, Next, NEW r \in Rollouts, rid # r, rid' = r
               PROVE  r \notin processed /\ r \in processed'
    BY DEF vars, agent
  <2>1. CASE Trainer \/ Resubmit \/ Ended
    BY <2>1 DEF Trainer, Fetch, Generate, WriteOut, SeeScore, SeeInput, ReadInput, ReadScore,
       EndBatch, Resubmit, Ended, vars, agent
  <2>2. CASE Crash \/ Exit \/ \E l \in Launchers : Launcher(l)
    BY <2>2, NoneAssumption DEF Crash, Exit, Launcher, Clear, Run, RunConflict, Return, Sweep,
       StopContainer, agent
  <2>3. CASE Agent /\ ~Exit /\ ~Claim
    BY <2>3 DEF Agent, OpenPrompt, PrimePrompt, SkipPrompt, ReadProcessed, Listen, OpenInput,
       WriteInput, OpenScore, WriteScore
  <2>4. CASE Claim
    BY <2>4, Parts DEF IInv, Claim, AgentPart, ProcessInv
  <2> QED
    BY <2>1, <2>2, <2>3, <2>4 DEF Next, Agent
<1> QED
  BY <1>1, Invariance, PTL DEF Spec, ClaimedOnce

\* A score is what the reply it is named for deserves, although the agent may read a
\* reply before it is written, and dies where it likes (agent.py:563).
THEOREM ScoresAreDeserved == Spec => []ScoreDeserved
<1>1. IInv => ScoreDeserved
  BY DEF IInv, ContentInv
<1> QED
  BY <1>1, Invariance, PTL

\* A prompt quotes the replies of its own rollout, one per turn (agent.py:700).
THEOREM PromptsQuote == Spec => []PromptQuotesReplies
<1>1. IInv => PromptQuotesReplies
  BY DEF IInv, ContentInv
<1> QED
  BY <1>1, Invariance, PTL

\* A reward is the score in the files of its rollout, of padded batches as of others
\* (cybench.py:16).
THEOREM RewardsAreVerdicts == Spec => []RewardIsVerdict
<1>1. IInv => RewardIsVerdict
  BY DEF IInv, ContentInv
<1> QED
  BY <1>1, Invariance, PTL

\* The exchange implements the dialogue: every step is one of its steps, or shows
\* nothing, whoever crashes and however often rows are generated again.
THEOREM ExchangeIsDialogue == Spec => ImplementsDialogue
<1>1. Init => Dialogue!DialogueInit
  BY InitMaps
<1>2. IInv /\ [Next]_vars => [Dialogue!DialogueNext]_(Dialogue!dialogueVars)
  BY StepMaps
<1> QED
  BY <1>1, <1>2, Invariance, PTL DEF Spec, ImplementsDialogue, Dialogue!DialogueSpec

=============================================================================
