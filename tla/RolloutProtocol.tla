-------------------------- MODULE RolloutProtocol --------------------------
(***************************************************************************)
(* The trainer and the Cybench agent share nothing but a directory.  For   *)
(* rollout r the trainer (verl/utils/cyagent/rollout_manager.py) writes    *)
(* the model's reply of turn i to r_i.out; the agent                       *)
(* (cybench/agent/agent.py) answers with the next prompt r_(i+1).in or     *)
(* with the verdict r_i_score.txt, which the reward function               *)
(* (verl/utils/reward_score/cybench.py) reads when the whole batch is      *)
(* generated.  The agent is one container, started again and again by the  *)
(* endless loop of cybench/run_train_interface.sh.                         *)
(*                                                                         *)
(* Every file is written as open(path, "w"), flock(LOCK_EX), write,        *)
(* flock(LOCK_UN): open makes it visible and empty, and nothing is locked  *)
(* until the next statement, so creating a file and filling it are two     *)
(* steps.  A file is None until it exists, then a sequence, <<>> between   *)
(* the two steps.  Readers take LOCK_SH and see one or the other.          *)
(***************************************************************************)
EXTENDS Naturals, Sequences, FiniteSets

CONSTANTS
  Rollouts,        \* rollout ids, drawn afresh for every dataset row
  Launchers,       \* instances of run_train_interface.sh on the host
  Batches,         \* the rows of each batch, in the order they are drawn
  WorldSize,       \* validation batches are padded to a multiple of it
  TrainerMaxIter,  \* data.max_iterations
  AgentMaxIter,    \* run_task.py --max_iterations
  Kinds,           \* the kinds of reply the model gives
  MaxCrashes,      \* bound: agent processes that die on their own
  MaxRestarts,     \* bound: resubmissions of the whole job
  None             \* no file, no container owner, no rollout

ASSUME IterAssumption ==
  /\ TrainerMaxIter \in Nat \ {0}
  /\ AgentMaxIter \in Nat \ {0}
ASSUME BoundAssumption == MaxCrashes \in Nat /\ MaxRestarts \in Nat
ASSUME WorldAssumption == WorldSize \in Nat \ {0}
ASSUME NoneAssumption ==
  /\ None \notin Rollouts
  /\ None \notin Launchers

Iters == 0 .. (TrainerMaxIter + AgentMaxIter)

\* What a reply is to the agent: the flag, another answer, a shell command, or
\* neither of them.
ASSUME KindsAssumption == Kinds \subseteq {"right", "wrong", "command", "prose"}
\* What the agent hears when it reads an .out file: an empty one is no reply.
Heard == Kinds \cup {"nothing"}
Answers == {"right", "wrong"}
Grades == {"nothing_found", "command_found", "wrong_answer", "right_answer"}

Texts == {None, << >>} \cup {<<k>> : k \in Kinds}      \* an .out file
Scores == {None, << >>, <<0>>, <<1>>}                  \* a _score.txt file
Prompts == {None, << >>, <<"task">>}                   \* the file _0.in

ASSUME FileAssumption ==
  /\ None \notin Seq(Heard)
  /\ None \notin Seq(Answers)
  /\ None \notin Seq({0, 1})
  /\ None \notin Seq({"task"})

\* pad_dataproto_to_divisor: the first rows again, until WorldSize divides.
PadSize(rows) == (WorldSize - (Len(rows) % WorldSize)) % WorldSize
Padded(rows) ==
  [k \in 1 .. Len(rows) + PadSize(rows) |->
     IF k <= Len(rows) THEN rows[k] ELSE rows[k - Len(rows)]]

\* A batch has rows, and enough of them for the padding to be a prefix.
ASSUME BatchAssumption ==
  /\ Batches \in Seq(Seq(Rollouts))
  /\ Batches # << >>
  /\ \A b \in DOMAIN Batches : Len(Batches[b]) > 0 /\ PadSize(Batches[b]) <= Len(Batches[b])

\* random_alphanumeric_string: no two rows draw the same id.
ASSUME DistinctAssumption ==
  \A b, c \in DOMAIN Batches : \A k \in DOMAIN Batches[b], j \in DOMAIN Batches[c] :
    Batches[b][k] = Batches[c][j] => b = c /\ k = j

VARIABLES
  prompt0, out, inp, grade, score, processed,   \* the shared directory
  tpc, batch, fetched, row, turn, reply,        \* the trainer
  rewarded, unscored,                           \* what it learnt
  apc, rid, aturn, chat, seen,                  \* the agent's process
  owner, lpc,                                   \* the container and the shells
  crashes, restarts

files == <<prompt0, out, inp, grade, score, processed>>
trainer == <<tpc, batch, fetched, row, turn, reply, rewarded, unscored>>
agent == <<apc, rid, aturn, chat, seen>>
shells == <<owner, lpc>>
faults == <<crashes, restarts>>
vars == <<files, trainer, agent, shells, faults>>

Exists(file) == file # None

Rows == Batches[batch]
Row == Padded(Rows)[row]

Init ==
  /\ prompt0 = None
  /\ out = [r \in Rollouts |-> [i \in Iters |-> None]]
  /\ inp = [r \in Rollouts |-> [i \in Iters |-> None]]
  /\ grade = [r \in Rollouts |-> [i \in Iters |-> None]]
  /\ score = [r \in Rollouts |-> [i \in Iters |-> None]]
  /\ processed = {}
  /\ tpc = "fetch" /\ batch = 1 /\ fetched = 0 /\ row = 1 /\ turn = 0
  /\ reply = None /\ rewarded = {} /\ unscored = {}
  /\ apc = "dead" /\ rid = None /\ aturn = 0 /\ chat = << >> /\ seen = {}
  /\ owner = None /\ lpc = [l \in Launchers |-> "clear"]
  /\ crashes = 0 /\ restarts = 0

-----------------------------------------------------------------------------
(* The trainer. *)

\* RLHFDataset.__getitem__ for the next row of the batch: wait for _0.in to
\* exist, then read it.  The row gets a rollout id of its own.
Fetch ==
  /\ tpc = "fetch"
  /\ Exists(prompt0)
  /\ fetched' = fetched + 1
  /\ tpc' = IF fetched' = Len(Rows) THEN "generate" ELSE "fetch"
  /\ UNCHANGED <<batch, row, turn, reply, rewarded, unscored>>
  /\ UNCHANGED <<files, agent, shells, faults>>

\* generate_sequences, then open(r_i.out, "w").  The model may reply anything,
\* whatever prompt the trainer read.
Generate ==
  /\ tpc = "generate"
  /\ \E k \in Kinds : reply' = k
  /\ out' = [out EXCEPT ![Row][turn] = << >>]
  /\ tpc' = "write"
  /\ UNCHANGED <<prompt0, inp, grade, score, processed>>
  /\ UNCHANGED <<batch, fetched, row, turn, rewarded, unscored>>
  /\ UNCHANGED <<agent, shells, faults>>

\* The locked write of the reply.
WriteOut ==
  /\ tpc = "write"
  /\ out' = [out EXCEPT ![Row][turn] = <<reply>>]
  /\ tpc' = "poll"
  /\ UNCHANGED <<prompt0, inp, grade, score, processed>>
  /\ UNCHANGED <<batch, fetched, row, turn, reply, rewarded, unscored>>
  /\ UNCHANGED <<agent, shells, faults>>

\* The rollout is over: get_rollout goes on to the next row of the padded
\* batch, and after the last one the rewards are read.
EndRow ==
  /\ turn' = 0
  /\ IF row < Len(Padded(Rows))
       THEN row' = row + 1 /\ tpc' = "generate"
       ELSE row' = 1 /\ tpc' = "reward"

\* The score file is looked for first.
SeeScore ==
  /\ tpc = "poll"
  /\ Exists(score[Row][turn])
  /\ EndRow
  /\ UNCHANGED <<batch, fetched, reply, rewarded, unscored>>
  /\ UNCHANGED <<files, agent, shells, faults>>

\* Mutant of SeeInput: goes on without looking for the prompt.
SeeInputUnchecked ==
  /\ tpc = "poll"
  /\ ~Exists(score[Row][turn])
  /\ tpc' = "readin"
  /\ UNCHANGED <<batch, fetched, row, turn, reply, rewarded, unscored>>
  /\ UNCHANGED <<files, agent, shells, faults>>

\* No score yet, but the next prompt is there.
SeeInput ==
  /\ tpc = "poll"
  /\ ~Exists(score[Row][turn])
  /\ Exists(inp[Row][turn + 1])
  /\ tpc' = "readin"
  /\ UNCHANGED <<batch, fetched, row, turn, reply, rewarded, unscored>>
  /\ UNCHANGED <<files, agent, shells, faults>>

\* Read the prompt, which starts the next turn; after the last turn the loop
\* ends without a score.
ReadInput ==
  /\ tpc = "readin"
  /\ IF turn + 1 < TrainerMaxIter
       THEN /\ turn' = turn + 1
            /\ tpc' = "generate"
            /\ UNCHANGED <<row, unscored>>
       ELSE /\ EndRow
            /\ unscored' = unscored \cup {Row}
  /\ UNCHANGED <<batch, fetched, reply, rewarded>>
  /\ UNCHANGED <<files, agent, shells, faults>>

\* Mutant of ReadScore: globs for any rollout's score.
ReadAnyScore ==
  /\ tpc = "reward"
  /\ \E r \in {Rows[k] : k \in DOMAIN Rows}, q \in Rollouts, i \in Iters :
       /\ \A v \in {0, 1} : <<r, v>> \notin rewarded
       /\ Exists(score[q][i])
       /\ IF score[q][i] = << >>
            THEN tpc' = "failed" /\ UNCHANGED rewarded
            ELSE /\ rewarded' = rewarded \cup {<<r, score[q][i][1]>>}
                 /\ UNCHANGED tpc
  /\ UNCHANGED <<batch, fetched, row, turn, reply, unscored>>
  /\ UNCHANGED <<files, agent, shells, faults>>

\* RewardManager.__call__ and compute_score: the rows that are not padding, in
\* the order _balance_batch gave them.  Each waits for some score file of its
\* rollout and reads the first that glob returns; float("") raises.
ReadScore ==
  /\ tpc = "reward"
  /\ \E r \in {Rows[k] : k \in DOMAIN Rows}, i \in Iters :
       /\ \A v \in {0, 1} : <<r, v>> \notin rewarded
       /\ Exists(score[r][i])
       /\ IF score[r][i] = << >>
            THEN tpc' = "failed" /\ UNCHANGED rewarded
            ELSE /\ rewarded' = rewarded \cup {<<r, score[r][i][1]>>}
                 /\ UNCHANGED tpc
  /\ UNCHANGED <<batch, fetched, row, turn, reply, unscored>>
  /\ UNCHANGED <<files, agent, shells, faults>>

\* Every row has its reward: update the models, take the next batch.
EndBatch ==
  /\ tpc = "reward"
  /\ \A k \in DOMAIN Rows : \E v \in {0, 1} : <<Rows[k], v>> \in rewarded
  /\ fetched' = 0
  /\ IF batch < Len(Batches)
       THEN batch' = batch + 1 /\ tpc' = "fetch"
       ELSE tpc' = "done" /\ UNCHANGED batch
  /\ UNCHANGED <<row, turn, reply, rewarded, unscored>>
  /\ UNCHANGED <<files, agent, shells, faults>>

Trainer == \/ Fetch \/ Generate \/ WriteOut \/ SeeScore \/ SeeInput \/ ReadInput
           \/ ReadScore \/ EndBatch

-----------------------------------------------------------------------------
(* The agent's process: one run of run_task.py, one rollout. *)

\* _process_newrollout, first part: create _0.in if nobody has.
OpenPrompt ==
  /\ apc = "boot"
  /\ ~Exists(prompt0)
  /\ prompt0' = << >>
  /\ apc' = "prime"
  /\ UNCHANGED <<out, inp, grade, score, processed, rid, aturn, chat, seen>>
  /\ UNCHANGED <<trainer, shells, faults>>

\* Mutant of ReadProcessed: the list starts empty in every process.
ForgetProcessed ==
  /\ seen' = {}
  /\ apc' = "find"
  /\ UNCHANGED <<out, inp, grade, score, processed, rid, aturn, chat>>
  /\ UNCHANGED <<trainer, shells, faults>>

\* The list of processed rollouts is created when missing and read once, before
\* the search for a rollout begins.
ReadProcessed ==
  /\ seen' = processed
  /\ apc' = "find"
  /\ UNCHANGED <<out, inp, grade, score, processed, rid, aturn, chat>>
  /\ UNCHANGED <<trainer, shells, faults>>

PrimePrompt ==
  /\ apc = "prime"
  /\ prompt0' = <<"task">>
  /\ ReadProcessed

SkipPrompt ==
  /\ apc = "boot"
  /\ Exists(prompt0)
  /\ ReadProcessed
  /\ UNCHANGED prompt0

\* Mutant of Claim: the rollout is not added to the list.
ClaimUnrecorded ==
  /\ apc = "find"
  /\ \E r \in Rollouts : Exists(out[r][0]) /\ r \notin seen /\ rid' = r
  /\ apc' = "listen"
  /\ UNCHANGED <<prompt0, out, inp, grade, score, processed, aturn, chat, seen>>
  /\ UNCHANGED <<trainer, shells, faults>>

\* Some r_0.out that is not in the list read above; r joins the list.
Claim ==
  /\ apc = "find"
  /\ \E r \in Rollouts :
       /\ Exists(out[r][0])
       /\ r \notin seen
       /\ processed' = processed \cup {r}
       /\ rid' = r
  /\ apc' = "listen"
  /\ UNCHANGED <<prompt0, out, inp, grade, score, aturn, chat, seen>>
  /\ UNCHANGED <<trainer, shells, faults>>

\* The agent's opinion of a reply, and whether the rollout goes on after it.
GradeOf(heard) ==
  CASE heard = "right" -> "right_answer"
    [] heard = "wrong" -> "wrong_answer"
    [] heard = "command" -> "command_found"
    [] OTHER -> "nothing_found"
GoesOn(heard) == heard \notin Answers /\ aturn < AgentMaxIter - 1

\* Mutant of Listen: a rollout that runs out of turns gets no score.
ListenWithoutFinalScore ==
  /\ apc = "listen"
  /\ Exists(out[rid][aturn])
  /\ LET heard == IF out[rid][aturn] = << >> THEN "nothing" ELSE out[rid][aturn][1]
     IN  /\ chat' = Append(chat, heard)
         /\ grade' = [grade EXCEPT ![rid][aturn] = GradeOf(heard)]
         /\ apc' = IF GoesOn(heard) THEN "ask" ELSE IF heard \in Answers THEN "judge" ELSE "exit"
  /\ UNCHANGED <<prompt0, out, inp, score, processed, rid, aturn, seen>>
  /\ UNCHANGED <<trainer, shells, faults>>

\* _process_iteration: wait for r_i.out to exist, read it, add it to the chat,
\* write r_i_grade.txt and run the command, if it is one.
Listen ==
  /\ apc = "listen"
  /\ Exists(out[rid][aturn])
  /\ LET heard == IF out[rid][aturn] = << >> THEN "nothing" ELSE out[rid][aturn][1]
     IN  /\ chat' = Append(chat, heard)
         /\ grade' = [grade EXCEPT ![rid][aturn] = GradeOf(heard)]
         /\ apc' = IF GoesOn(heard) THEN "ask" ELSE "judge"
  /\ UNCHANGED <<prompt0, out, inp, score, processed, rid, aturn, seen>>
  /\ UNCHANGED <<trainer, shells, faults>>

\* write_in_file, open and locked write of the whole chat.
OpenInput ==
  /\ apc = "ask"
  /\ inp' = [inp EXCEPT ![rid][aturn + 1] = << >>]
  /\ apc' = "fill"
  /\ UNCHANGED <<prompt0, out, grade, score, processed, rid, aturn, chat, seen>>
  /\ UNCHANGED <<trainer, shells, faults>>

WriteInput ==
  /\ apc = "fill"
  /\ inp' = [inp EXCEPT ![rid][aturn + 1] = chat]
  /\ aturn' = aturn + 1
  /\ apc' = "listen"
  /\ UNCHANGED <<prompt0, out, grade, score, processed, rid, chat, seen>>
  /\ UNCHANGED <<trainer, shells, faults>>

\* _process_subtask, the end of the rollout: r_i_score.txt.
OpenScore ==
  /\ apc = "judge"
  /\ score' = [score EXCEPT ![rid][aturn] = << >>]
  /\ apc' = "mark"
  /\ UNCHANGED <<prompt0, out, inp, grade, processed, rid, aturn, chat, seen>>
  /\ UNCHANGED <<trainer, shells, faults>>

\* Mutant of WriteScore: every answer is worth 1.
WriteScoreForAnyAnswer ==
  /\ apc = "mark"
  /\ score' = [score EXCEPT ![rid][aturn] =
                 IF chat[Len(chat)] \in Answers THEN <<1>> ELSE <<0>>]
  /\ apc' = "exit"
  /\ UNCHANGED <<prompt0, out, inp, grade, processed, rid, aturn, chat, seen>>
  /\ UNCHANGED <<trainer, shells, faults>>

WriteScore ==
  /\ apc = "mark"
  /\ score' = [score EXCEPT ![rid][aturn] =
                 IF chat[Len(chat)] = "right" THEN <<1>> ELSE <<0>>]
  /\ apc' = "exit"
  /\ UNCHANGED <<prompt0, out, inp, grade, processed, rid, aturn, chat, seen>>
  /\ UNCHANGED <<trainer, shells, faults>>

\* Mutant of StopContainer: the chat survives the process.
StopContainerKeepingChat ==
  /\ apc' = "dead" /\ rid' = None /\ aturn' = 0 /\ seen' = {}
  /\ owner' = None
  /\ UNCHANGED chat

\* The container is gone, whatever it was doing, and its files stay.
StopContainer ==
  /\ apc' = "dead" /\ rid' = None /\ aturn' = 0 /\ chat' = << >> /\ seen' = {}
  /\ owner' = None

\* run_task.py returns; docker run --rm removes the container.
Exit ==
  /\ apc = "exit"
  /\ StopContainer
  /\ UNCHANGED <<files, trainer, lpc, faults>>

\* The process dies: an exception out of the agent, out of memory, a docker
\* failure.
Crash ==
  /\ apc # "dead"
  /\ crashes < MaxCrashes
  /\ crashes' = crashes + 1
  /\ StopContainer
  /\ UNCHANGED <<files, trainer, lpc, restarts>>

Agent == \/ OpenPrompt \/ PrimePrompt \/ SkipPrompt \/ Claim \/ Listen \/ OpenInput
         \/ WriteInput \/ OpenScore \/ WriteScore \/ Exit

-----------------------------------------------------------------------------
(* The shell loop "while true; do ./run_task.sh; done".  Every instance uses  *)
(* the same container name.                                                   *)

\* docker rm -f before the run: whoever has the name is killed.
Clear(l) ==
  /\ lpc[l] = "clear"
  /\ StopContainer
  /\ lpc' = [lpc EXCEPT ![l] = "run"]
  /\ UNCHANGED <<files, trainer, faults>>

\* docker run: starts the agent if the name is free.
Run(l) ==
  /\ lpc[l] = "run"
  /\ owner = None
  /\ owner' = l
  /\ apc' = "boot"
  /\ lpc' = [lpc EXCEPT ![l] = "wait"]
  /\ UNCHANGED <<rid, aturn, chat, seen>>
  /\ UNCHANGED <<files, trainer, faults>>

\* docker run: fails when another container has the name.
RunConflict(l) ==
  /\ lpc[l] = "run"
  /\ owner # None
  /\ lpc' = [lpc EXCEPT ![l] = "sweep"]
  /\ UNCHANGED <<files, trainer, agent, owner, faults>>

\* docker run returns: the container ended or was killed.
Return(l) ==
  /\ lpc[l] = "wait"
  /\ owner # l
  /\ lpc' = [lpc EXCEPT ![l] = "sweep"]
  /\ UNCHANGED <<files, trainer, agent, owner, faults>>

\* docker rm -f after the run, then round the loop again.
Sweep(l) ==
  /\ lpc[l] = "sweep"
  /\ StopContainer
  /\ lpc' = [lpc EXCEPT ![l] = "clear"]
  /\ UNCHANGED <<files, trainer, faults>>

Launcher(l) == Clear(l) \/ Run(l) \/ RunConflict(l) \/ Return(l) \/ Sweep(l)

-----------------------------------------------------------------------------
\* The job is killed and submitted again.  LOG_DIR depends on the task only and
\* its removal is commented out, so the files stay; the rows get new ids.  The
\* container outlives the shells until the new ones clear its name.
Resubmit ==
  /\ tpc # "done"
  /\ restarts < MaxRestarts
  /\ batch < Len(Batches)
  /\ restarts' = restarts + 1
  /\ batch' = batch + 1
  /\ tpc' = "fetch" /\ fetched' = 0 /\ row' = 1 /\ turn' = 0
  /\ lpc' = [l \in Launchers |-> "clear"]
  /\ UNCHANGED <<reply, rewarded, unscored, crashes>>
  /\ UNCHANGED <<files, agent, owner>>

\* Training is over, or an exception ended it.
Ended ==
  /\ tpc \in {"done", "failed"}
  /\ UNCHANGED vars

Next ==
  \/ Trainer
  \/ Agent
  \/ \E l \in Launchers : Launcher(l)
  \/ Crash
  \/ Resubmit
  \/ Ended

Fairness ==
  /\ WF_vars(Trainer)
  /\ WF_vars(Agent)
  /\ \A l \in Launchers : WF_vars(Launcher(l))

Spec == Init /\ [][Next]_vars
FairSpec == Spec /\ Fairness

-----------------------------------------------------------------------------
(* Properties. *)

\* The shape of the state; prompt files hold what the agent heard so far.
FilesOK ==
  /\ prompt0 \in Prompts
  /\ out \in [Rollouts -> [Iters -> Texts]]
  /\ inp \in [Rollouts -> [Iters -> {None} \cup Seq(Heard)]]
  /\ grade \in [Rollouts -> [Iters -> {None} \cup Grades]]
  /\ score \in [Rollouts -> [Iters -> Scores]]
  /\ processed \subseteq Rollouts
TrainerOK ==
  /\ tpc \in {"fetch", "generate", "write", "poll", "readin", "reward", "done", "failed"}
  /\ batch \in DOMAIN Batches
  /\ fetched \in 0 .. Len(Rows)
  /\ row \in DOMAIN Padded(Rows)
  /\ turn \in 0 .. TrainerMaxIter - 1
  /\ reply \in Kinds \cup {None}
  /\ tpc = "write" => reply \in Kinds
  /\ rewarded \subseteq Rollouts \X {0, 1}
  /\ unscored \subseteq Rollouts
AgentOK ==
  /\ apc \in {"dead", "boot", "prime", "find", "listen", "ask", "fill", "judge", "mark", "exit"}
  /\ rid \in Rollouts \cup {None}
  /\ aturn \in 0 .. AgentMaxIter - 1
  /\ chat \in Seq(Heard)
  /\ seen \subseteq Rollouts
ShellsOK ==
  /\ owner \in Launchers \cup {None}
  /\ lpc \in [Launchers -> {"clear", "run", "wait", "sweep"}]
  /\ crashes \in 0 .. MaxCrashes
  /\ restarts \in 0 .. MaxRestarts
TypeOK == FilesOK /\ TrainerOK /\ AgentOK /\ ShellsOK

\* The two sides take turns: the agent asks for turn i+1 only when it could
\* read turn i, the trainer replies to turn i+1 only when it was asked, and a
\* verdict is given on a reply.  Poll loops, agent restarts and containers
\* killed half way must not break it (rollout_manager.py, agent.py).
TurnsAlternate ==
  \A r \in Rollouts, i \in Iters :
    /\ i > 0 /\ Exists(inp[r][i]) => Exists(out[r][i - 1])
    /\ i > 0 /\ Exists(out[r][i]) => Exists(inp[r][i])
    /\ Exists(score[r][i]) => Exists(out[r][i])

\* compute_score takes the first file glob finds, which is sound only if a
\* rollout has one score file; and the agent asks for nothing after a verdict.
OneVerdict ==
  \A r \in Rollouts, i \in Iters : Exists(score[r][i]) =>
    /\ \A j \in Iters : Exists(score[r][j]) => j = i
    /\ \A j \in Iters : j > i => ~Exists(inp[r][j])

\* The rollouts a batch is padded with: they are generated twice, over the same
\* files.
Repeated == UNION {{Batches[b][k] : k \in 1 .. PadSize(Batches[b])} : b \in DOMAIN Batches}

\* A score is what the last reply deserves: 1 only for the flag, and 0 before
\* the agent's last turn only for another answer, although the agent may have
\* read a reply before it was written; until a copy of the row is generated.
ScoreDeserved ==
  \A r \in Rollouts \ Repeated, i \in Iters :
    /\ score[r][i] = <<1>> => out[r][i] = <<"right">>
    /\ score[r][i] = <<0>> /\ i < AgentMaxIter - 1 => out[r][i] = <<"wrong">>

\* The prompt of turn i quotes the i replies of this rollout and no other, each
\* as the model gave it, or not at all if it was read too early
\* (write_in_file); copies of a row aside.
PromptQuotesReplies ==
  \A r \in Rollouts \ Repeated, i \in Iters : inp[r][i] \notin {None, << >>} =>
    /\ Len(inp[r][i]) = i
    /\ \A j \in 1 .. i :
         inp[r][i][j] \in {"nothing"} \cup {k \in Kinds : out[r][j - 1] = <<k>>}

\* "We should never get here" (rollout_manager.py:184): with as many turns as
\* the agent has, the trainer never leaves a rollout without a score.
NeverUnscored == TrainerMaxIter >= AgentMaxIter => unscored = {}

\* The reward of a row is the agent's verdict on that row's rollout, although
\* it is read much later and the next rollouts are already on their way.
RewardIsVerdict ==
  \A r \in Rollouts, v \in {0, 1} : <<r, v>> \in rewarded =>
    \E i \in Iters : score[r][i] = <<v>>

\* A rollout is taken up at most once, however often the agent is restarted and
\* however many launchers compete, although the list of processed rollouts is
\* read once per process and never locked (agent.py:602, agent.py:628).
ClaimedOnce ==
  [][\A r \in Rollouts : rid # r /\ rid' = r => r \notin processed /\ r \in processed']_vars

\* Every rollout the trainer starts gets a score it can read (the two waits of
\* get_single_rollout and compute_score have no timeout).
EveryRolloutScored ==
  \A r \in Rollouts :
    Exists(out[r][0]) ~> \E i \in Iters : score[r][i] \in {<<0>>, <<1>>}

-----------------------------------------------------------------------------
(* The inductive invariant: OrderInv, behind TurnsAlternate, OneVerdict,      *)
(* NeverUnscored and ClaimedOnce, and on top of it ContentInv, behind what    *)
(* the files hold.                                                            *)

Working == {"listen", "ask", "fill", "judge", "mark", "exit"}

\* One process at a time: it exists while the container name is taken, its list
\* is the current one while it searches, and its rollout is on the list.
ProcessInv ==
  /\ apc = "dead" <=> owner = None
  /\ rid # None <=> apc \in Working
  /\ apc \notin Working => aturn = 0 /\ chat = << >>
  /\ apc = "find" => seen = processed
  /\ apc \in Working => rid \in processed

\* Only listed rollouts have files of the agent's, and prompts start at turn 1.
FilesInv ==
  /\ \A r \in Rollouts, i \in Iters :
       Exists(inp[r][i]) => r \in processed /\ i \in 1 .. AgentMaxIter - 1
  /\ \A r \in Rollouts, i \in Iters : Exists(score[r][i]) => r \in processed

\* Where the trainer is in its row.
TrainerInv ==
  /\ tpc \in {"fetch", "reward", "failed", "done"} => row = 1 /\ turn = 0
  /\ tpc = "fetch" => fetched < Len(Rows)
  /\ tpc = "generate" /\ turn > 0 => Exists(inp[Row][turn])
  /\ tpc \in {"write", "poll", "readin"} => Exists(out[Row][turn])
  /\ tpc = "readin" => Exists(inp[Row][turn + 1])

\* How far the rollout the agent works on has come.
AgentInv ==
  /\ apc \in Working => Len(chat) = IF apc = "listen" THEN aturn ELSE aturn + 1
  /\ apc \in {"ask", "fill"} => aturn < AgentMaxIter - 1
  /\ apc \in {"ask", "fill", "judge", "mark"} => Exists(out[rid][aturn])
  /\ apc \in {"listen", "ask", "fill", "judge"} =>
       \A i \in Iters : ~Exists(score[rid][i])
  /\ apc \in {"mark", "exit"} =>
       \A i \in Iters : Exists(score[rid][i]) => i = aturn
  /\ apc \in Working =>
       \A i \in Iters : Exists(inp[rid][i]) =>
         i <= (IF apc = "fill" THEN aturn + 1 ELSE aturn)

\* The order of the exchange.
OrderInv ==
  /\ TypeOK /\ TurnsAlternate /\ OneVerdict /\ NeverUnscored
  /\ ProcessInv /\ FilesInv /\ TrainerInv /\ AgentInv

\* Where in the batch a reply is still to come.
Ahead(k, i) ==
  \/ tpc = "fetch"
  \/ tpc = "generate" /\ (k > row \/ (k = row /\ i >= turn))
  \/ tpc \in {"write", "poll", "readin"} /\ (k > row \/ (k = row /\ i > turn))

\* Replies appear one turn after the other; those still to come have no file, and
\* the one that is being written is empty; copies of a row aside.
RepliesInv ==
  /\ \A r \in Rollouts, i, j \in Iters : j <= i /\ Exists(out[r][i]) => Exists(out[r][j])
  /\ \A b \in DOMAIN Batches : \A k \in DOMAIN Batches[b], i \in Iters :
       Batches[b][k] \notin Repeated /\ (b > batch \/ (b = batch /\ Ahead(k, i)))
         => ~Exists(out[Batches[b][k]][i])
  /\ tpc = "write" /\ Row \notin Repeated => out[Row][turn] = << >>

\* The chat quotes the replies, and what is open is what the agent is filling.
Quotes(text, r) ==
  \A j \in 1 .. Len(text) : text[j] \in {"nothing"} \cup {k \in Kinds : out[r][j - 1] = <<k>>}
ChatInv ==
  /\ apc \in Working /\ rid \notin Repeated => Quotes(chat, rid)
  /\ apc \in {"judge", "mark"} => chat[Len(chat)] \in Answers \/ aturn = AgentMaxIter - 1
  /\ apc = "fill" => Exists(inp[rid][aturn + 1])
  /\ apc = "mark" => score[rid][aturn] = << >>

\* What the files hold.
ContentInv == RepliesInv /\ ChatInv /\ PromptQuotesReplies /\ ScoreDeserved /\ RewardIsVerdict

\* All of it.
IInv == OrderInv /\ ContentInv

=============================================================================
