------------------------------ MODULE TaskRunner ------------------------------
(***************************************************************************)
(* src/cybench/run_task.py runs EvalAgent once on one task and writes a    *)
(* log, or continues a task from an earlier log; run_benchmark.py and      *)
(* run_task.sh start it for one task after another, removing its           *)
(* containers in between; grade_benchmark.py then moves the logs of all    *)
(* runs together and counts what was solved.                               *)
(*                                                                         *)
(* A process either writes its log or dies without one; whatever happened, *)
(* the loop goes on with the next task.                                    *)
(***************************************************************************)
EXTENDS EvalAgent

CONSTANTS
  Batches,    \* the lists of runs a user may ask for: sequences of argument records
  Braced,     \* the answers of the form ...{...}
  PartIn      \* value -> the answers whose part in braces it contains

\* What parse_args returns.  A task is named by its directory.
Arguments ==
  [task : STRING, provider : Providers, helm : BOOLEAN, azure : BOOLEAN, keys : SUBSET STRING,
   mock : BOOLEAN, interactive : BOOLEAN, guided : BOOLEAN, hint : Nat \cup {NoHint},
   maxIterations : Nat, resume : BOOLEAN]

ASSUME RunnerAssumption ==
  /\ Braced \subseteq Range(Answers)
  /\ PartIn \in [Values \cup {""} -> SUBSET Braced]
  /\ \A v \in Braced \cap DOMAIN PartIn : v \in PartIn[v]
  /\ \A b \in Batches : b \in Seq(Arguments)

VARIABLES
  queue,      \* the runs still to be started
  previous,   \* previous_state: the log this run continues, or NoLog
  logs,       \* the log files written: file -> content
  graded      \* the files grade_benchmark.py reads, by name, or NotGraded

runnerVars == <<queue, previous, logs, graded>>
vars == <<agentVars, runnerVars>>

NoLog == [task |-> "none"]
NotGraded == <<>>
NoArgs == [task |-> "none", provider |-> "openai", helm |-> FALSE, azure |-> FALSE,
           keys |-> {}, mock |-> FALSE, interactive |-> FALSE, guided |-> FALSE,
           hint |-> NoHint, maxIterations |-> 0, resume |-> FALSE]

\* A fresh EvalAgent.
FreshAgent ==
  /\ chain = <<>> /\ responses = <<>> /\ observations = <<>> /\ shown = {}
  /\ iteration = 0 /\ iterations = <<>>
  /\ calls = <<>> /\ attempt = 1
  /\ sent = NoInput /\ outcome = Unfinished

Init ==
  /\ queue \in Batches
  /\ args = NoArgs /\ phase = "off" /\ FreshAgent
  /\ previous = NoLog
  /\ logs = <<>>
  /\ graded = NotGraded

-----------------------------------------------------------------------------
(* Starting a run. *)

\* The loop of run_benchmark.py takes the next task; main reads the arguments.  A log
\* is continued in the unguided mode only, and only by the same model on the same task:
\* otherwise main raises.
Start ==
  /\ phase = "off" /\ queue # <<>> /\ graded = NotGraded
  /\ queue' = Tail(queue)
  /\ args' = Head(queue)
  /\ IF args'.resume /\ ~args'.guided
     THEN \E f \in DOMAIN logs :
            /\ previous' = logs[f]
            /\ phase' = IF logs[f].model = args'.provider /\ logs[f].task = args'.task
                        THEN "setup" ELSE "dead"
     ELSE previous' = NoLog /\ phase' = "setup"
  /\ UNCHANGED <<chatVars, iteration, iterations, callVars, sent, outcome, logs, graded>>

\* A run that is to continue a log when there is none: open() raises.
StartWithoutLog ==
  /\ phase = "off" /\ queue # <<>> /\ graded = NotGraded
  /\ Head(queue).resume /\ ~Head(queue).guided /\ DOMAIN logs = {}
  /\ queue' = Tail(queue)
  /\ args' = Head(queue)
  /\ phase' = "dead"
  /\ UNCHANGED <<chatVars, iteration, iterations, callVars, sent, outcome, previous, logs, graded>>

\* setup_environment, host_health_check and _setup_prompt all succeed: a fresh agent,
\* or one whose chat is the last iteration of the log it continues.
SetUp ==
  /\ phase = "setup" /\ previous = NoLog
  /\ phase' = "ready"
  /\ UNCHANGED <<args, chatVars, iteration, iterations, callVars, sent, outcome, runnerVars>>

\* The log has an iteration to start from, and it ran something.
Continues == previous.iterations # <<>> /\ Last(previous.iterations).what # "nothing"

\* The index lists stay empty: what was said before is never truncated.
Resume ==
  /\ phase = "setup" /\ previous # NoLog /\ Continues
  /\ chain' = <<"recap", "agent", "assistant">>
  /\ shown' = DOMAIN chain'
  /\ iteration' = Len(previous.iterations)
  /\ phase' = "ready"
  /\ UNCHANGED <<args, responses, observations, iterations, callVars, sent, outcome, runnerVars>>

\* The log has no iteration, and iterations[-1] raises; or its last iteration ran
\* nothing: its execution_output is None, and "stdout" in None raises.
ResumeFails ==
  /\ phase = "setup" /\ previous # NoLog /\ ~Continues
  /\ phase' = "dead"
  /\ UNCHANGED <<args, chatVars, iteration, iterations, callVars, sent, outcome, runnerVars>>

\* A script of the task fails, docker prune takes over a minute, a host does not answer.
SetUpFails ==
  /\ phase = "setup"
  /\ phase' = "dead"
  /\ UNCHANGED <<args, chatVars, iteration, iterations, callVars, sent, outcome, runnerVars>>

-----------------------------------------------------------------------------
(* Ending a run. *)

\* The tokens of one iteration after another.
Inputs(its)  == Sum([i \in 1..Len(its) |-> its[i].input])
Outputs(its) == Sum([i \in 1..Len(its) |-> its[i].output])

\* What this process adds to a log.
NewLog ==
  [task |-> args.task, model |-> args.provider, guided |-> args.guided,
   maxIterations |-> args.maxIterations,
   subtask |-> Subtask, iterations |-> iterations,
   score |-> outcome.score, status |-> outcome.status, hinted |-> outcome.hinted,
   inputTokens |-> Inputs(iterations), outputTokens |-> Outputs(iterations),
   iterationsUsed |-> Len(iterations),
   complete |-> ~args.guided \/ Len(Answers) = 1]

\* Mutant of Log: the usage of the log that is continued is not added.
LogUsageLost ==
  IF previous = NoLog THEN NewLog
  ELSE [NewLog EXCEPT !.iterations = previous.iterations \o @, !.score = previous.score]
\* _run_task: the completion.  A continued run appends its iterations to those of the
\* log and adds its tokens, but keeps the rest of the log's subtask run, its score too,
\* and counts as used the iterations of this process only.
Log ==
  IF previous = NoLog THEN NewLog
  ELSE [NewLog EXCEPT !.subtask = previous.subtask,
                            !.iterations = previous.iterations \o @,
                            !.score = previous.score,
                            !.status = previous.status,
                            !.hinted = previous.hinted,
                            !.inputTokens = previous.inputTokens + @,
                            !.outputTokens = previous.outputTokens + @]

Label(log) == IF log.score > 0 THEN "success" ELSE "fail"
\* A model is called provider/name, and two providers serve one name: the part before
\* the slash becomes a directory of the path, only the rest is in the name of the file.
\* (One model of each provider is looked at.)
BaseName(model) == IF model = "QwenTrain" THEN "Qwen" ELSE model
\* save_task_completion: the name of the file, and the directory of this run (the time
\* it started; --benchmark_id, which may repeat, is not used).
FileName(log) == <<BaseName(log.model), Label(log), log.guided, log.task>>
File(log) == <<Cardinality(DOMAIN logs)>> \o FileName(log)

Save ==
  /\ phase = "yielded"
  /\ logs' = [f \in DOMAIN logs \cup {File(Log)} |-> IF f = File(Log) THEN Log ELSE logs[f]]
  /\ phase' = "done"
  /\ UNCHANGED <<args, chatVars, iteration, iterations, callVars, sent, outcome,
                 queue, previous, graded>>

\* The container is gone, stop_docker.sh and docker rm -f have run: all the process had
\* in memory is lost.
CleanUp ==
  /\ phase \in {"dead", "done"}
  /\ phase' = "off" /\ args' = NoArgs
  /\ chain' = <<>> /\ responses' = <<>> /\ observations' = <<>> /\ shown' = {}
  /\ iteration' = 0 /\ iterations' = <<>>
  /\ calls' = <<>> /\ attempt' = 1
  /\ sent' = NoInput /\ outcome' = Unfinished
  /\ previous' = NoLog
  /\ UNCHANGED <<queue, logs, graded>>

-----------------------------------------------------------------------------
(* grade_benchmark.py. *)

\* Mutant of Grade: the names leave out the label.
GradeUnlabelled ==
  /\ phase = "off" /\ queue = <<>> /\ graded = NotGraded /\ logs # <<>>
  /\ LET NameOf(f) == [Tail(f) EXCEPT ![2] = ""]
     IN graded' \in {g \in [{NameOf(f) : f \in DOMAIN logs} -> Range(logs)] :
                       \A n \in DOMAIN g : \E f \in DOMAIN logs : NameOf(f) = n /\ g[n] = logs[f]}
  /\ UNCHANGED <<agentVars, queue, previous, logs>>
\* move_files puts the files of all runs in two directories, by the file's name alone:
\* of files with one name the one os.walk comes to last stays.
Grade ==
  /\ phase = "off" /\ queue = <<>> /\ graded = NotGraded /\ logs # <<>>
  /\ graded' \in {g \in [{Tail(f) : f \in DOMAIN logs} -> Range(logs)] :
                    \A n \in DOMAIN g : \E f \in DOMAIN logs : Tail(f) = n /\ g[n] = logs[f]}
  /\ UNCHANGED <<agentVars, queue, previous, logs>>

Read(guided) == {graded[n] : n \in {n \in DOMAIN graded : n[3] = guided}}

\* load_data, of one model: its attempts, the tasks it solved by the score, and those
\* for which the part in braces of the answer was printed or submitted.
ScoreCount(guided, model) ==
  {<<log.task, log.score, 1, log.score>> : log \in {l \in Read(guided) : l.model = model}}
FlagSubmitted(guided, model) ==
  {log.task : log \in {l \in Read(guided) : l.model = model /\ l.score = 1 /\ l.iterations # <<>>}}
\* The flag looked for is that of the first subtask of the logged task: there is one
\* completion, and one subtask when the run was unguided.
FlagOf(log) == Answers[IF log.guided THEN 1 ELSE Len(Answers)]
FlagPart(guided, model) ==
  {log.task : log \in {l \in Read(guided) :
     l.model = model /\ \E i \in DOMAIN l.iterations : FlagOf(l) \in PartIn[l.iterations[i].value]}}
\* process_run_data: main prints how many of the attempts it takes as solved.
Solved(guided, model) == Cardinality(FlagPart(guided, model))
Attempted(guided, model) == Cardinality(ScoreCount(guided, model))

-----------------------------------------------------------------------------
Ended == phase = "off" /\ queue = <<>> /\ (graded # NotGraded \/ logs = <<>>)
Stop == Ended /\ UNCHANGED vars

ProcessNext == AgentNext /\ UNCHANGED runnerVars
RunnerNext ==
  \/ Start \/ StartWithoutLog \/ SetUp \/ Resume \/ ResumeFails \/ SetUpFails
  \/ Save \/ CleanUp \/ Grade
Next == ProcessNext \/ RunnerNext \/ Stop

\* Every process gets to run, and every command, script and remote call returns.
Spec == Init /\ [][Next]_vars /\ WF_vars(ProcessNext) /\ WF_vars(RunnerNext)

-----------------------------------------------------------------------------
(* Properties. *)

TypeOK ==
  /\ phase \in {"off", "setup", "ready", "loop", "calling", "counting", "yielded", "done", "dead"}
  /\ chain \in Seq(Roles)
  /\ attempt \in 1..Attempts
  /\ \A f \in DOMAIN logs : logs[f].score \in 0..1

\* The iterations of a log hold the answer of its subtask.
Solves(log) ==
  \E i \in DOMAIN log.iterations :
    log.iterations[i].what = "answer" /\ log.iterations[i].value = Answers[log.subtask]

\* The tokens in a log are the sums over its iterations, those of the log it continued
\* included.
TokensAddUp ==
  \A f \in DOMAIN logs :
    /\ logs[f].inputTokens = Inputs(logs[f].iterations)
    /\ logs[f].outputTokens = Outputs(logs[f].iterations)

\* The one log goes on from the other: its iterations begin with the other's, and it
\* has kept the other's verdict.
ContinuationOf(log, old) ==
  /\ log.task = old.task /\ log.model = old.model
  /\ Len(log.iterations) = Len(old.iterations) + log.iterationsUsed
  /\ \A i \in DOMAIN old.iterations : log.iterations[i] = old.iterations[i]
  /\ log.score = old.score /\ log.status = old.status

\* iterations_used is not such a sum: it counts the iterations of the last process only
\* (run_task.py:518, 539).  It is the number of all where the task was run once; the
\* rest are those of an earlier log, which this one continues.
IterationsUsedByLast ==
  \A f \in DOMAIN logs :
    \/ logs[f].iterationsUsed = Len(logs[f].iterations)
    \/ \E g \in DOMAIN logs : g[1] < f[1] /\ ContinuationOf(logs[f], logs[g])

\* The score of a task that was run once says whether it was solved.  (A continued run
\* that solves it keeps the score of the log it continues: run_task.py:547.)
FirstVerdict ==
  \A f \in DOMAIN logs :
    logs[f].iterationsUsed = Len(logs[f].iterations) => (logs[f].score = 1 <=> Solves(logs[f]))

\* However often a task is continued, the iterations in its log are no more than one
\* logged run of that model on that task was allowed.
IterationsBounded ==
  \A f \in DOMAIN logs : \E g \in DOMAIN logs :
    /\ logs[g].task = logs[f].task /\ logs[g].model = logs[f].model
    /\ Len(logs[f].iterations) <= logs[g].maxIterations

\* A log accounts for its task: its tokens are those of all its iterations, its count
\* of iterations is that of the last process, its verdict that of the first, and it is
\* within what one run was allowed.
LogsAccount == TokensAddUp /\ IterationsUsedByLast /\ FirstVerdict /\ IterationsBounded

\* The newest positions of an index list.
Newest(list, n) == {list[i] : i \in {j \in DOMAIN list : j + n > Len(list)}}

\* The model is shown the first message of the chat and, of this process, the newest
\* replies and observations, up to the numbers asked for: none is missing and no older
\* one is there.
WindowKept ==
  phase = "calling" /\ iteration > 0 =>
    /\ chain[1] # "agent" => 1 \in sent.shown
    /\ sent.shown \cap Range(responses) = Newest(responses, ResponsesToKeep)
    /\ sent.shown \cap Range(observations) = Newest(observations, ObservationsToKeep)

\* Moving the logs of many runs into one directory, where files of one name replace
\* each other, loses no task that an unguided log scores as solved: a model of that name
\* is credited with it, and the share of its attempts that is printed is neither zero
\* then nor more than all.  Three things it cannot say.  Where two providers serve one
\* name, one's log may replace the other's and the credit go to the other.  A continued
\* run that solved the task has kept the score 0 of the log it continued and is named
\* a failure: no count credits it by its score, and it may itself be replaced.  And an
\* unguided run that continued the log of a guided one keeps the score of the first
\* subtask under the name of an unguided success, without the flag.
NoSuccessLost ==
  graded # NotGraded =>
    \A f \in DOMAIN logs :
      logs[f].score > 0 /\ ~logs[f].guided =>
        \E m \in Providers :
          /\ BaseName(m) = BaseName(logs[f].model)
          /\ logs[f].task \in FlagSubmitted(FALSE, m)
          /\ Last(Answers) \in Braced /\ (\A g \in DOMAIN logs : ~logs[g].guided => logs[g].subtask = Len(Answers))
               => /\ logs[f].task \in FlagPart(FALSE, m)
                  /\ Solved(FALSE, m) \in 1..Attempted(FALSE, m)

\* The benchmark comes to its end, with the logs graded, whatever fails on the way.
BenchmarkEnds == <>[]Ended

=============================================================================
