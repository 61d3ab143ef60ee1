----------------------------- MODULE MCTaskRunner -----------------------------
(* Small instances of TaskRunner: one task of two subtasks, a run continued from its *)
(* log, a second model, a subtask run; values that hold the flag, its part or none.  *)
EXTENDS TaskRunner

MCSize == [system |-> 2, agent |-> 1, assistant |-> 2, recap |-> 4]
MCRatio == [p \in Providers |-> IF p = "anthropic" THEN 2 ELSE 1]
MCAnswers == <<"first", "flag">>
MCValues == {"first", "flag", "part"}
MCPartIn == [v \in MCValues \cup {""} |-> IF v \in {"flag", "part"} THEN {"flag"} ELSE {}]

Unguided == [NoArgs EXCEPT !.keys = {"OPENAI", "ANTHROPIC"}, !.task = "t1", !.maxIterations = 2]
Continued == [Unguided EXCEPT !.resume = TRUE, !.maxIterations = 3]
Long == [Unguided EXCEPT !.maxIterations = 4]
Guided == [Unguided EXCEPT !.guided = TRUE, !.hint = 1]
Claude == [Unguided EXCEPT !.provider = "anthropic", !.helm = FALSE]
ByHelm == [Claude EXCEPT !.helm = TRUE, !.maxIterations = 1]
Typed == [Unguided EXCEPT !.interactive = TRUE]
Azure == [Unguided EXCEPT !.azure = TRUE, !.keys = {"AZURE_OPENAI"}]
Mocked == [Unguided EXCEPT !.mock = TRUE]
Trained == [Unguided EXCEPT !.provider = "QwenTrain"]
\* Two providers of one name, and a run of the second that HELM serves.
Qwen == [Unguided EXCEPT !.provider = "Qwen"]
TrainedByHelm == [Trained EXCEPT !.helm = TRUE, !.maxIterations = 1]

MCBatches == {<<Unguided, Continued>>, <<Unguided, Unguided>>, <<Claude, Guided>>, <<Guided, Continued>>,
              <<Typed, Trained>>, <<ByHelm, Mocked>>, <<ByHelm, Continued>>, <<Continued>>, <<Azure>>, <<Long>>,
              <<Qwen, TrainedByHelm>>}
=============================================================================
