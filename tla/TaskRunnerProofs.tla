---------------------------- MODULE TaskRunnerProofs ----------------------------
(***************************************************************************)
(* Whatever the user asks for, whatever fails and however often a log is   *)
(* continued: the logs of a benchmark account for the tokens and the       *)
(* iterations of their tasks, the model is shown the newest part of the    *)
(* chat, and grading loses no success.                                     *)
(***************************************************************************)
EXTENDS TaskRunner, FiniteSetTheorems, WellFoundedInduction, TLAPS

-----------------------------------------------------------------------------
(* Sums. *)

\* Every set of numbers that is not empty has a smallest one.
LEMMA Smallest ==
  ASSUME NEW K \in SUBSET Nat, K # {}
  PROVE  \E k \in K : \A j \in K : k <= j
<1>1. PICK k \in K : \A j \in K : <<j, k>> \notin OpToRel(<, Nat)
  BY NatLessThanWellFounded, WFMin, Zenon
<1>2. \A j \in K : ~(j < k)
  BY <1>1 DEF OpToRel
<1> QED
  BY <1>2

\* A loop that adds the first n of the counts c.
Loop(s, c, n) ==
  s \in [0..n -> Nat] /\ \A k \in 1..n : c[k] \in Nat /\ s[k] = s[k - 1] + c[k]

\* The counts cd are the counts c and then the counts d.
Joins(c, d, cd) ==
  /\ Len(cd) = Len(c) + Len(d)
  /\ \A k \in 1..Len(c) : cd[k] = c[k]
  /\ \A k \in 1..Len(d) : cd[Len(c) + k] = d[k]

\* The loop that adds the counts has come to a number after each of them.
LEMMA SumLoop ==
  ASSUME NEW c \in Seq(Nat)
  PROVE  \E s : Loop(s, c, Len(c)) /\ s[0] = 0 /\ Sum(c) = s[Len(c)]
<1> DEFINE N == Len(c)
           Loops(f, n) == f = [k \in 0..n |-> IF k = 0 THEN 0 ELSE f[k - 1] + c[k]]
           Short == {n \in 0..N : ~\E f : Loops(f, n)}
<1>1. N \in Nat /\ \A k \in 1..N : c[k] \in Nat
  OBVIOUS
<1>2. Short = {}
  <2> SUFFICES ASSUME Short # {} PROVE FALSE
    OBVIOUS
  <2>1. PICK n \in Short : \A m \in Short : n <= m
    <3> Short \in SUBSET Nat
      BY <1>1
    <3> HIDE DEF Short
    <3> QED BY Smallest
  <2>2. CASE n = 0
    <3> DEFINE f == [k \in 0..0 |-> 0]
    <3>1. Loops(f, 0)
      OBVIOUS
    <3> QED BY <2>1, <2>2, <3>1
  <2>3. CASE n # 0
    <3>1. n - 1 \in 0..N /\ n - 1 \notin Short
      <4>1. n \in 0..N
        OBVIOUS
      <4> HIDE DEF Short
      <4> QED BY <1>1, <2>1, <2>3, <4>1
    <3>2. PICK f : Loops(f, n - 1)
      BY <3>1
    <3> DEFINE g == [k \in 0..n |-> IF k = n THEN f[n - 1] + c[n] ELSE f[k]]
    <3>3. Loops(g, n)
      <4>1. \A k \in 0..(n - 1) : f[k] = IF k = 0 THEN 0 ELSE f[k - 1] + c[k]
        BY <3>2
      <4>2. \A k \in 0..n : g[k] = IF k = n THEN f[n - 1] + c[n] ELSE f[k]
        OBVIOUS
      <4>3. \A k \in 0..n : g[k] = IF k = 0 THEN 0 ELSE g[k - 1] + c[k]
        <5> SUFFICES ASSUME NEW k \in 0..n
                     PROVE  g[k] = IF k = 0 THEN 0 ELSE g[k - 1] + c[k]
          OBVIOUS
        <5>1. n \in Nat
          BY <1>1, <2>1
        <5>2. k # 0 => k - 1 \in 0..n /\ k - 1 # n
          BY <5>1
        <5>3. k # n => k \in 0..(n - 1)
          BY <5>1
        <5> HIDE DEF g
        <5> QED BY <2>3, <4>1, <4>2, <5>1, <5>2, <5>3
      <4> QED BY <4>3
    <3> QED BY <2>1, <3>3
  <2> QED BY <2>2, <2>3
<1>3. \E f : Loops(f, N)
  BY <1>1, <1>2
<1> DEFINE s == CHOOSE f : Loops(f, N)
<1>4. Loops(s, N)
  BY <1>3
<1>5. Sum(c) = s[N]
  BY DEF Sum
<1> HIDE DEF s
<1>6. DOMAIN s = 0..N /\ \A k \in 0..N : s[k] = IF k = 0 THEN 0 ELSE s[k - 1] + c[k]
  BY <1>4
<1>7. \A n \in 0..N : s[n] \in Nat
  <2> DEFINE Wrong == {n \in 0..N : s[n] \notin Nat}
  <2> SUFFICES ASSUME Wrong # {} PROVE FALSE
    OBVIOUS
  <2>1. PICK n \in Wrong : \A m \in Wrong : n <= m
    <3> Wrong \in SUBSET Nat
      BY <1>1
    <3> HIDE DEF Wrong
    <3> QED BY Smallest
  <2>2. n # 0
    BY <1>6, <2>1
  <2>3. n - 1 \in 0..N /\ n - 1 \notin Wrong
    BY <1>1, <2>1, <2>2
  <2>4. s[n] = s[n - 1] + c[n] /\ s[n - 1] \in Nat /\ c[n] \in Nat
    BY <1>1, <1>6, <2>1, <2>2, <2>3
  <2> QED BY <2>1, <2>4
<1>8. s = [k \in 0..N |-> s[k]]
  BY <1>4
<1> HIDE DEF Loops
<1>9. Loop(s, c, N) /\ s[0] = 0
  BY <1>1, <1>6, <1>7, <1>8, SMTT(60) DEF Loop
<1> QED BY <1>5, <1>9

\* Two loops that add the same differ by where they start.
LEMMA SumsAgree ==
  ASSUME NEW M \in Nat, NEW a, NEW b, NEW c, Loop(a, c, M), Loop(b, c, M), a[0] = 0
  PROVE  b[M] = b[0] + a[M]
<1> DEFINE Wrong == {n \in 0..M : b[n] # b[0] + a[n]}
<1>1. 0 \in 0..M /\ b[0] \in Nat
  BY DEF Loop
<1>2. Wrong = {}
  <2> SUFFICES ASSUME Wrong # {} PROVE FALSE
    OBVIOUS
  <2>1. PICK n \in Wrong : \A m \in Wrong : n <= m
    <3> Wrong \in SUBSET Nat
      OBVIOUS
    <3> HIDE DEF Wrong
    <3> QED BY Smallest
  <2>2. n # 0
    BY <1>1, <2>1
  <2>3. n - 1 \in 0..M /\ n - 1 \notin Wrong /\ n \in 1..M
    BY <2>1, <2>2
  <2>4. b[n - 1] = b[0] + a[n - 1]
    BY <2>3
  <2>5. a[n] = a[n - 1] + c[n] /\ b[n] = b[n - 1] + c[n] /\ c[n] \in Nat
    BY <2>3 DEF Loop
  <2>6. a[n - 1] \in Nat
    BY <2>3 DEF Loop
  <2>7. b[n] = b[0] + a[n]
    <3>1. PICK x \in Nat, y \in Nat, z \in Nat : x = c[n] /\ y = a[n - 1] /\ z = b[0]
      BY <1>1, <2>5, <2>6
    <3>2. b[n] = (z + y) + x /\ a[n] = y + x
      BY <2>4, <2>5, <3>1
    <3>3. (z + y) + x = z + (y + x)
      OBVIOUS
    <3> QED BY <3>1, <3>2, <3>3
  <2> QED BY <2>1, <2>7
<1>3. M \in 0..M
  OBVIOUS
<1> QED BY <1>2, <1>3

LEMMA SumType ==
  ASSUME NEW c \in Seq(Nat)
  PROVE  Sum(c) \in Nat
<1>1. PICK s : Loop(s, c, Len(c)) /\ Sum(c) = s[Len(c)]
  BY SumLoop
<1> QED BY <1>1 DEF Loop

\* Counting on, as a continued run does (run_task.py:519).
LEMMA SumJoin ==
  ASSUME NEW c \in Seq(Nat), NEW d \in Seq(Nat), NEW cd \in Seq(Nat), Joins(c, d, cd)
  PROVE  Sum(cd) = Sum(c) + Sum(d)
<1> DEFINE m == Len(c)
           n == Len(d)
<1>1. m \in Nat /\ n \in Nat
  OBVIOUS
<1>2. PICK s : Loop(s, c, m) /\ s[0] = 0 /\ Sum(c) = s[m]
  BY SumLoop
<1>3. PICK t : Loop(t, d, n) /\ t[0] = 0 /\ Sum(d) = t[n]
  BY SumLoop
<1>4. PICK u : Loop(u, cd, m + n) /\ u[0] = 0 /\ Sum(cd) = u[m + n]
  <2>1. PICK u : Loop(u, cd, Len(cd)) /\ u[0] = 0 /\ Sum(cd) = u[Len(cd)]
    BY SumLoop
  <2> QED BY <2>1 DEF Joins
<1>5. /\ \A k \in 1..m : cd[k] = c[k]
      /\ \A k \in 1..n : cd[m + k] = d[k]
  BY DEF Joins
<1> HIDE DEF m, n
<1>6. u[m] = s[m]
  <2> DEFINE v == [k \in 0..m |-> u[k]]
  <2>1. Loop(v, c, m)
    <3>1. \A k \in 1..m : k \in 1..(m + n) /\ k - 1 \in 0..m
      BY <1>1
    <3> QED BY <1>1, <1>2, <1>4, <1>5, <3>1 DEF Loop
  <2>2. v[0] = 0 /\ v[m] = u[m]
    BY <1>1, <1>4
  <2> HIDE DEF v
  <2>3. v[m] = v[0] + s[m]
    BY <1>1, <1>2, <2>1, SumsAgree
  <2>4. s[m] \in Nat
    BY <1>1, <1>2 DEF Loop
  <2> QED BY <2>2, <2>3, <2>4
<1>7. u[m + n] = u[m] + t[n]
  <2> DEFINE v == [k \in 0..n |-> u[m + k]]
  <2>1. Loop(v, d, n)
    <3>1. v \in [0..n -> Nat]
      BY <1>1, <1>4 DEF Loop
    <3>2. ASSUME NEW k \in 1..n PROVE d[k] \in Nat /\ v[k] = v[k - 1] + d[k]
      <4>1. k - 1 \in 0..n /\ k \in 0..n /\ m + k \in 1..(m + n) /\ (m + k) - 1 = m + (k - 1)
        BY <1>1
      <4>2. u[m + k] = u[(m + k) - 1] + cd[m + k]
        BY <1>4, <4>1 DEF Loop
      <4>3. v[k] = u[m + k] /\ v[k - 1] = u[m + (k - 1)]
        BY <4>1
      <4> HIDE DEF v
      <4> QED BY <1>3, <1>5, <4>1, <4>2, <4>3 DEF Loop
    <3> QED BY <3>1, <3>2 DEF Loop
  <2>2. v[0] = u[m] /\ v[n] = u[m + n]
    BY <1>1
  <2> HIDE DEF v
  <2>3. v[n] = v[0] + t[n]
    BY <1>1, <1>3, <2>1, SumsAgree
  <2> QED BY <2>2, <2>3
<1> QED
  BY <1>2, <1>3, <1>4, <1>6, <1>7

-----------------------------------------------------------------------------
(* The invariant. *)

Kinds == {"answer", "command", "nothing"}
Texts == Values \cup {""}
Iteration ==
  [what : Kinds, value : Texts, input : Nat, output : Nat]
Iterations == Seq(Iteration)

\* What is true of every log, and of what this process would write.
LogOK(log) ==
  /\ log.iterations \in Iterations
  /\ log.score \in {0, 1} /\ log.guided \in BOOLEAN /\ log.model \in Providers
  /\ log.inputTokens = Inputs(log.iterations)
  /\ log.outputTokens = Outputs(log.iterations)
  /\ log.score = 1 =>
       \E i \in DOMAIN log.iterations : log.iterations[i].value = Answers[log.subtask]
  /\ log.iterationsUsed = Len(log.iterations) => (log.score = 1 <=> Solves(log))

\* The files are numbered in the order in which they are written.
LogsInv ==
  /\ IsFiniteSet(DOMAIN logs)
  /\ \A f \in DOMAIN logs : LogOK(logs[f]) /\ Tail(f) = FileName(logs[f])
  /\ \A f \in DOMAIN logs : f[1] \in Nat /\ f[1] < Cardinality(DOMAIN logs)
  /\ IterationsUsedByLast /\ IterationsBounded

\* Grading is the end: the files it has moved are those of the logs.
GradedInv ==
  graded # NotGraded =>
    /\ phase = "off" /\ queue = <<>>
    /\ DOMAIN graded = {Tail(f) : f \in DOMAIN logs}
    /\ \A n \in DOMAIN graded : \E f \in DOMAIN logs : Tail(f) = n /\ graded[n] = logs[f]

\* The iterations of the log that is continued come first.
Before == IF previous = NoLog THEN 0 ELSE Len(previous.iterations)

RunInv ==
  /\ phase \in {"off", "setup", "ready", "loop", "calling", "counting", "yielded", "done", "dead"}
  /\ queue \in Seq(Arguments)
  /\ phase # "off" => args \in Arguments
  /\ previous = NoLog \/ LogOK(previous)
  /\ iterations \in Iterations /\ iteration \in Nat /\ sent.tokens \in Nat
  /\ outcome.score \in {0, 1}
  /\ outcome.score = 1 =>
       \E i \in DOMAIN iterations : iterations[i].value = Answers[Subtask]
  /\ phase \in {"off", "setup"} =>
       /\ iterations = <<>> /\ iteration = 0 /\ outcome.score = 0
       /\ chain = <<>> /\ responses = <<>> /\ observations = <<>>
  /\ phase \in {"ready", "loop", "calling", "counting"} => iteration = Before + Len(iterations)
  /\ phase = "calling" => iteration < args.maxIterations
  /\ iterations # <<>> => Before + Len(iterations) <= args.maxIterations

\* What is continued is a log, of this model on this task, and not an empty one; and
\* the process answers once, with its last word.
SourceInv ==
  /\ previous # NoLog => \E p \in DOMAIN logs : previous = logs[p]
  /\ previous # NoLog /\ phase \notin {"off", "dead"} =>
       previous.model = args.provider /\ previous.task = args.task
  /\ previous # NoLog /\ phase \notin {"off", "setup", "dead"} => previous.iterations # <<>>
  /\ phase \in {"off", "setup", "ready", "loop", "calling", "counting"} =>
       \A i \in DOMAIN iterations : iterations[i].what # "answer"
  /\ phase = "yielded" =>
       (outcome.score = 1 <=>
          \E i \in DOMAIN iterations : iterations[i].what = "answer" /\ iterations[i].value = Answers[Subtask])

\* The index list points at different messages of the chat, all of the role, and not
\* before first.
Points(chat, list, role, first) ==
  /\ list \in Seq(Nat)
  /\ \A i \in DOMAIN list : list[i] \in DOMAIN chat /\ chat[list[i]] = role /\ list[i] >= first
  /\ \A i, j \in DOMAIN list : list[i] = list[j] => i = j

\* A window on the chat, with the index lists rs and os.
Shows(chat, rs, os, positions) ==
  /\ chat # <<>> /\ (chat[1] # "agent" => 1 \in positions)
  /\ positions \cap Range(rs) = Newest(rs, ResponsesToKeep)
  /\ positions \cap Range(os) = Newest(os, ObservationsToKeep)

ChatInv ==
  /\ chain \in Seq(Roles)
  /\ Points(chain, responses, "agent", 1) /\ Points(chain, observations, "assistant", 2)
  /\ iteration > 0 /\ phase \in {"ready", "loop"} => Shows(chain, responses, observations, shown)
  /\ iteration > 0 /\ phase = "calling" => Shows(chain, responses, observations, sent.shown)

RunnerInv == RunInv /\ SourceInv /\ LogsInv /\ GradedInv /\ ChatInv

-----------------------------------------------------------------------------
(* Logs. *)

\* The iterations of two logs, one after the other.
LEMMA IterationsJoin ==
  ASSUME NEW a \in Iterations, NEW b \in Iterations
  PROVE  /\ a \o b \in Iterations /\ Len(a \o b) = Len(a) + Len(b)
         /\ Len(a) \in Nat /\ Len(b) \in Nat
         /\ \A k \in 1..Len(a) : (a \o b)[k] = a[k] /\ a[k] \in Iteration
         /\ \A k \in 1..Len(b) : (a \o b)[Len(a) + k] = b[k] /\ b[k] \in Iteration
  BY DEF Iterations

\* The counts of a list of iterations are numbers.
LEMMA CountTypes ==
  ASSUME NEW a \in Iterations
  PROVE  /\ [k \in 1..Len(a) |-> a[k].input] \in Seq(Nat)
         /\ [k \in 1..Len(a) |-> a[k].output] \in Seq(Nat)
<1>1. Len(a) \in Nat /\ \A k \in 1..Len(a) : a[k] \in Iteration
  BY DEF Iterations
<1>2. \A it \in Iteration : it.input \in Nat /\ it.output \in Nat
  BY DEF Iteration
<1> QED BY <1>1, <1>2

\* The tokens of the iterations of two logs are the sums of their tokens.
LEMMA UsageJoins ==
  ASSUME NEW a \in Iterations, NEW b \in Iterations
  PROVE  /\ Inputs(a \o b) = Inputs(a) + Inputs(b)
         /\ Outputs(a \o b) = Outputs(a) + Outputs(b)
<1>1. PICK ab \in Iterations : ab = a \o b
  BY IterationsJoin
<1>2. /\ Len(ab) = Len(a) + Len(b) /\ Len(a) \in Nat /\ Len(b) \in Nat
      /\ \A k \in 1..Len(a) : ab[k] = a[k]
      /\ \A k \in 1..Len(b) : ab[Len(a) + k] = b[k]
  BY <1>1, IterationsJoin
<1>3. Inputs(ab) = Inputs(a) + Inputs(b)
  <2> DEFINE In(its) == [k \in 1..Len(its) |-> its[k].input]
  <2>1. PICK c \in Seq(Nat), d \in Seq(Nat), cd \in Seq(Nat) : c = In(a) /\ d = In(b) /\ cd = In(ab)
    BY CountTypes
  <2>2. Len(c) = Len(a) /\ Len(d) = Len(b) /\ Len(cd) = Len(ab)
    BY <1>2, <2>1
  <2>3. Joins(c, d, cd)
    BY <1>2, <2>1, <2>2 DEF Joins
  <2> HIDE DEF In
  <2>4. Sum(cd) = Sum(c) + Sum(d)
    BY <2>3, SumJoin
  <2> QED BY <2>1, <2>4 DEF Inputs, In
<1>4. Outputs(ab) = Outputs(a) + Outputs(b)
  <2> DEFINE Out(its) == [k \in 1..Len(its) |-> its[k].output]
  <2>1. PICK c \in Seq(Nat), d \in Seq(Nat), cd \in Seq(Nat) : c = Out(a) /\ d = Out(b) /\ cd = Out(ab)
    BY CountTypes
  <2>2. Len(c) = Len(a) /\ Len(d) = Len(b) /\ Len(cd) = Len(ab)
    BY <1>2, <2>1
  <2>3. Joins(c, d, cd)
    BY <1>2, <2>1, <2>2 DEF Joins
  <2> HIDE DEF Out
  <2>4. Sum(cd) = Sum(c) + Sum(d)
    BY <2>3, SumJoin
  <2> QED BY <2>1, <2>4 DEF Outputs, Out
<1> QED BY <1>1, <1>3, <1>4

LEMMA BeforeType == RunInv => Before \in Nat
<1>1. \A its \in Iterations : Len(its) \in Nat
  BY DEF Iterations
<1> QED BY <1>1 DEF RunInv, Before, LogOK

\* What the log holds when another is continued.
LEMMA LogContinues ==
  ASSUME RunInv, previous # NoLog
  PROVE  /\ Log.task = args.task /\ Log.model = args.provider /\ Log.guided = args.guided
         /\ Log.maxIterations = args.maxIterations /\ Log.iterationsUsed = Len(iterations)
         /\ Log.subtask = previous.subtask
         /\ Log.score = previous.score /\ Log.status = previous.status
         /\ Log.inputTokens = previous.inputTokens + Inputs(iterations)
         /\ Log.outputTokens = previous.outputTokens + Outputs(iterations)
         /\ Log.iterations \in Iterations /\ Log.iterations = previous.iterations \o iterations
         /\ Len(Log.iterations) = Len(previous.iterations) + Len(iterations)
         /\ Before = Len(previous.iterations)
         /\ Len(previous.iterations) \in Nat /\ Len(iterations) \in Nat
         /\ \A k \in DOMAIN previous.iterations :
              k \in DOMAIN Log.iterations /\ Log.iterations[k] = previous.iterations[k]
<1>1. /\ Log.task = args.task /\ Log.model = args.provider /\ Log.guided = args.guided
      /\ Log.maxIterations = args.maxIterations /\ Log.iterationsUsed = Len(iterations)
      /\ Log.subtask = previous.subtask
      /\ Log.score = previous.score /\ Log.status = previous.status
      /\ Log.inputTokens = previous.inputTokens + Inputs(iterations)
      /\ Log.outputTokens = previous.outputTokens + Outputs(iterations)
      /\ Log.iterations = previous.iterations \o iterations
  BY DEF Log, NewLog
<1>2. PICK old \in Iterations, new \in Iterations : old = previous.iterations /\ new = iterations
  BY DEF RunInv, LogOK
<1>3. PICK its : its = Log.iterations
  OBVIOUS
<1>4. its = old \o new /\ Before = Len(old)
  BY <1>1, <1>2, <1>3 DEF Before
<1>5. /\ old \o new \in Iterations /\ Len(old \o new) = Len(old) + Len(new)
      /\ Len(old) \in Nat /\ Len(new) \in Nat
      /\ \A k \in 1..Len(old) : (old \o new)[k] = old[k]
  BY IterationsJoin
<1>6. DOMAIN old = 1..Len(old) /\ DOMAIN its = 1..Len(its)
  BY <1>4, <1>5 DEF Iterations
<1>7. \A k \in 1..Len(old) : k \in 1..Len(its)
  BY <1>4, <1>5
<1> QED BY <1>1, <1>2, <1>3, <1>4, <1>5, <1>6, <1>7

\* The log a process writes, whether it continues another or not.
LEMMA LogIsOK == RunInv /\ SourceInv /\ phase = "yielded" => LogOK(Log)
<1> SUFFICES ASSUME RunInv, SourceInv, phase = "yielded" PROVE LogOK(Log)
  OBVIOUS
<1>1. iterations \in Iterations /\ args \in Arguments /\ outcome.score \in {0, 1}
  BY DEF RunInv
<1>2. args.maxIterations \in Nat /\ args.guided \in BOOLEAN /\ args.provider \in Providers
  BY <1>1 DEF Arguments
<1>3. CASE previous = NoLog
  <2>1. /\ Log.iterations = iterations /\ Log.score = outcome.score /\ Log.model = args.provider
        /\ Log.guided = args.guided /\ Log.subtask = Subtask
        /\ Log.inputTokens = Inputs(iterations) /\ Log.outputTokens = Outputs(iterations)
    BY <1>3 DEF Log, NewLog
  <2>2. Log.score = 1 => \E i \in DOMAIN Log.iterations : Log.iterations[i].value = Answers[Log.subtask]
    BY <2>1 DEF RunInv
  <2>3. Log.score = 1 <=> Solves(Log)
    BY <2>1 DEF SourceInv, Solves
  <2> QED BY <1>1, <1>2, <2>1, <2>2, <2>3 DEF LogOK
<1>4. CASE previous # NoLog
  <2>1. LogOK(previous) /\ previous.iterations # <<>>
    BY <1>4 DEF RunInv, SourceInv
  <2>2. Log.model \in Providers /\ Log.guided \in BOOLEAN /\ Log.score \in {0, 1}
    BY <1>2, <1>4, <2>1, LogContinues DEF LogOK
  <2>3. /\ Log.inputTokens = Inputs(Log.iterations) /\ Log.outputTokens = Outputs(Log.iterations)
        /\ Log.iterations \in Iterations
    BY <1>1, <1>4, <2>1, LogContinues, UsageJoins DEF LogOK
  <2>4. Log.score = 1 => \E k \in DOMAIN Log.iterations : Log.iterations[k].value = Answers[Log.subtask]
    BY <1>4, <2>1, LogContinues DEF LogOK
  <2>5. Log.iterationsUsed # Len(Log.iterations)
    <3>1. PICK m \in Nat, n \in Nat : m = Len(previous.iterations) /\ n = Len(iterations)
      BY <1>4, LogContinues
    <3>2. m # 0
      BY <2>1, <3>1 DEF LogOK, Iterations
    <3>3. Log.iterationsUsed = n /\ Len(Log.iterations) = m + n
      BY <1>4, <3>1, LogContinues
    <3> QED BY <3>1, <3>2, <3>3
  <2> QED BY <2>2, <2>3, <2>4, <2>5 DEF LogOK
<1> QED BY <1>3, <1>4

-----------------------------------------------------------------------------
(* The run. *)

\* The tokens of what the model is sent are counted, whoever counts.
LEMMA InputType ==
  ASSUME NEW c \in Seq(Roles), NEW positions, args \in Arguments
  PROVE  Input(c, positions).tokens \in Nat
<1> DEFINE counts == [i \in 1..Len(c) |-> IF i \in positions THEN Size[c[i]] ELSE 0]
<1>1. Size \in [Roles -> Nat] /\ Ratio \in [Providers -> Nat \ {0}] /\ AlertTokens \in Nat
      /\ MaxInputTokens \in Nat /\ MaxInputTokens - AlertTokens \in Nat
  BY AgentAssumption
<1>2. counts \in Seq(Nat)
  <2>1. Len(c) \in Nat /\ \A i \in 1..Len(c) : c[i] \in Roles
    OBVIOUS
  <2> QED BY <1>1, <2>1
<1>3. SizeOf(c, positions) \in Nat
  <2> HIDE DEF counts
  <2>1. Sum(counts) \in Nat
    BY <1>2, SumType
  <2> QED BY <2>1 DEF SizeOf, counts
<1>4. \A size \in Nat : Counted(size) \in Nat
  <2>1. args.provider \in Providers
    BY DEF Arguments
  <2>2. Ratio[args.provider] \in Nat
    BY <1>1, <2>1
  <2>3. \A x, y \in Nat : x * y \in Nat
    OBVIOUS
  <2> QED BY <2>2, <2>3 DEF Counted
<1>5. \A size \in Nat : Cut(size) \in Nat
  <2>1. Half \in Nat
    BY <1>1 DEF Half
  <2>2. \A x, y \in Nat : 2 * x + y \in Nat
    OBVIOUS
  <2> QED BY <1>1, <2>1, <2>2 DEF Cut
<1> QED BY <1>3, <1>4, <1>5 DEF Input

LEMMA AppendIs ==
  ASSUME NEW S, NEW s \in Seq(S), NEW e \in S
  PROVE  /\ Append(s, e) \in Seq(S) /\ Len(Append(s, e)) = Len(s) + 1
         /\ Append(s, e)[Len(s) + 1] = e /\ Len(s) \in Nat
         /\ \A k \in 1..Len(s) : Append(s, e)[k] = s[k]
         /\ Append(s, e) # <<>>
<1>1. /\ Append(s, e) \in Seq(S) /\ Len(Append(s, e)) = Len(s) + 1
      /\ Append(s, e)[Len(s) + 1] = e /\ Len(s) \in Nat
      /\ \A k \in 1..Len(s) : Append(s, e)[k] = s[k]
  OBVIOUS
<1>2. Append(s, e) = <<>> => Len(Append(s, e)) = 0
  OBVIOUS
<1> QED BY <1>1, <1>2

\* A recorded iteration joins those of the process.
LEMMA RecordedIs ==
  ASSUME RunInv, NEW what \in Kinds, NEW v \in Texts
  PROVE  /\ Recorded(what, v, ReplyTokens) \in Iterations
         /\ Len(Recorded(what, v, ReplyTokens)) = Len(iterations) + 1
         /\ Recorded(what, v, ReplyTokens)[Len(iterations) + 1].value = v
         /\ Recorded(what, v, ReplyTokens)[Len(iterations) + 1].what = what
         /\ \A k \in DOMAIN Recorded(what, v, ReplyTokens) :
              \/ k = Len(iterations) + 1
              \/ k \in DOMAIN iterations /\ Recorded(what, v, ReplyTokens)[k] = iterations[k]
         /\ Recorded(what, v, ReplyTokens) # <<>>
         /\ Len(iterations) \in Nat
<1> DEFINE it == [what |-> what, value |-> v, input |-> sent.tokens, output |-> ReplyTokens]
<1>1. it \in Iteration
  <2>1. sent.tokens \in Nat /\ ReplyTokens \in Nat
    BY DEF RunInv, ReplyTokens
  <2> QED BY <2>1 DEF Iteration
<1>2. iterations \in Iterations
  BY DEF RunInv
<1>3. it.value = v /\ it.what = what
  OBVIOUS
<1> HIDE DEF it
<1>4. /\ Append(iterations, it) \in Iterations /\ Len(Append(iterations, it)) = Len(iterations) + 1
      /\ Append(iterations, it)[Len(iterations) + 1] = it
      /\ Len(iterations) \in Nat /\ Append(iterations, it) # <<>>
      /\ \A k \in 1..Len(iterations) : Append(iterations, it)[k] = iterations[k]
  BY <1>1, <1>2, AppendIs DEF Iterations
<1>5. Recorded(what, v, ReplyTokens) = Append(iterations, it)
  BY DEF Recorded, it
<1>6. \A k \in DOMAIN Append(iterations, it) :
        \/ k = Len(iterations) + 1
        \/ k \in DOMAIN iterations /\ Append(iterations, it)[k] = iterations[k]
  <2>1. DOMAIN Append(iterations, it) = 1..(Len(iterations) + 1) /\ DOMAIN iterations = 1..Len(iterations)
    BY <1>2, <1>4 DEF Iterations
  <2> QED BY <1>4, <2>1
<1> QED BY <1>3, <1>4, <1>5, <1>6

LEMMA RunInit == Init => RunInv
<1> SUFFICES ASSUME Init PROVE RunInv
  OBVIOUS
<1>2. queue \in Seq(Arguments)
  BY RunnerAssumption DEF Init
<1>3. iterations \in Iterations
  BY DEF Init, FreshAgent, Iterations
<1>4. sent.tokens = 0 /\ outcome.score = 0
  BY DEF Init, FreshAgent, NoInput, Unfinished
<1> QED BY <1>2, <1>3, <1>4 DEF Init, FreshAgent, RunInv

\* What a step that neither records nor scores has to keep.
LEMMA RunKept ==
  ASSUME RunInv,
         UNCHANGED <<queue, args, previous, iterations, outcome, iteration>>,
         phase' \in {"ready", "loop", "calling", "counting", "yielded", "done", "dead"},
         phase # "off",
         sent'.tokens \in Nat,
         phase' \in {"ready", "loop", "calling", "counting"} =>
           phase = phase' \/ iteration = Before + Len(iterations),
         phase' = "calling" => phase = "calling" \/ iteration < args.maxIterations
  PROVE  RunInv'
<1>1. Before' = Before /\ Subtask' = Subtask
  BY DEF Before, Subtask
<1> QED BY <1>1 DEF RunInv, LogOK, Solves, Iterations, Inputs, Outputs

\* A step of the agent.
LEMMA RunAgent == RunInv /\ ChatInv /\ ProcessNext => RunInv'
<1> SUFFICES ASSUME RunInv, ChatInv, ProcessNext PROVE RunInv'
  OBVIOUS
<1>1. AgentNext /\ UNCHANGED <<queue, previous>>
  BY DEF ProcessNext, runnerVars
<1>2. CASE BeginSubtask
  BY <1>1, <1>2, RunKept DEF BeginSubtask, callVars, RunInv
<1>3. CASE BeginIteration
  <2>1. /\ phase = "loop" /\ iteration < args.maxIterations /\ phase' = "calling"
        /\ UNCHANGED <<args, iteration, iterations, outcome>>
    BY <1>3 DEF BeginIteration
  <2>2. args \in Arguments /\ chain \in Seq(Roles)
    BY <2>1 DEF RunInv, ChatInv
  <2>3. chain' \in Seq(Roles)
    <3>1. PICK typed : chain' = Prompted(typed)
      BY <1>3 DEF BeginIteration
    <3>2. <<"system">> \in Seq(Roles) /\ <<>> \in Seq(Roles)
      BY DEF Roles
    <3>3. \A c, d \in Seq(Roles) : c \o d \in Seq(Roles)
      OBVIOUS
    <3> QED BY <2>2, <3>1, <3>2, <3>3 DEF Prompted
  <2>4. sent'.tokens \in Nat
    <3>1. PICK positions : sent' = Input(chain', positions)
      BY <1>3 DEF BeginIteration
    <3> QED BY <2>2, <2>3, <3>1, InputType
  <2> QED BY <1>1, <2>1, <2>4, RunKept DEF RunInv
<1>4. CASE CallReturns
  BY <1>1, <1>4, RunKept DEF CallReturns, RunInv
<1>5. CASE CallFails
  BY <1>1, <1>5, RunKept DEF CallFails, RunInv
<1>6. CASE Raises
  BY <1>1, <1>6, RunKept DEF Raises, RunInv
<1>7. CASE Answered
  <2>1. PICK v \in Values :
          /\ iterations' = Recorded("answer", v, ReplyTokens)
          /\ outcome' = [score |-> IF v = Answers[Subtask] THEN 1 ELSE 0, status |-> "answered",
                         hinted |-> args.hint # NoHint /\ iteration >= args.hint]
    BY <1>7 DEF Answered
  <2>2. /\ phase = "calling" /\ phase' = "yielded" /\ UNCHANGED <<args, iteration, sent>>
    BY <1>7 DEF Answered, Heard
  <2>3. /\ iterations' \in Iterations /\ Len(iterations') = Len(iterations) + 1
        /\ iterations'[Len(iterations) + 1].value = v /\ Len(iterations) \in Nat
    BY <2>1, RecordedIs DEF Kinds, Texts
  <2>4. outcome'.score = IF v = Answers[Subtask] THEN 1 ELSE 0
    BY <2>1
  <2>5. Subtask' = Subtask /\ Before' = Before
    BY <1>1, <2>2 DEF Subtask, Before
  <2>6. Len(iterations) + 1 \in DOMAIN iterations'
    BY <2>3 DEF Iterations
  <2>7. outcome'.score = 1 => \E i \in DOMAIN iterations' : iterations'[i].value = Answers[Subtask']
    BY <2>3, <2>4, <2>5, <2>6
  <2>8. Before + Len(iterations') <= args.maxIterations
    <3>1. iteration = Before + Len(iterations) /\ iteration < args.maxIterations
          /\ Before \in Nat /\ args.maxIterations \in Nat
      BY <2>2, BeforeType DEF RunInv, Arguments
    <3> QED BY <2>3, <3>1
  <2> QED BY <1>1, <2>2, <2>3, <2>4, <2>5, <2>7, <2>8 DEF RunInv
<1>8. CASE Commanded \/ Rambled
  <2>1. PICK what \in Kinds, v \in Texts :
          iterations' = Recorded(what, v, ReplyTokens)
    BY <1>8 DEF Commanded, Rambled, Prints, Kinds, Texts
  <2>2. /\ phase = "calling" /\ phase' = "loop" /\ UNCHANGED <<args, sent, outcome>>
        /\ iteration' = iteration + 1
    BY <1>8 DEF Commanded, Rambled, Heard
  <2>3. /\ iterations' \in Iterations /\ Len(iterations') = Len(iterations) + 1 /\ Len(iterations) \in Nat
    BY <2>1, RecordedIs
  <2>4. Subtask' = Subtask /\ Before' = Before
    BY <1>1, <2>2 DEF Subtask, Before
  <2>5. /\ iteration = Before + Len(iterations) /\ iteration < args.maxIterations
        /\ Before \in Nat /\ args.maxIterations \in Nat /\ iteration \in Nat
    BY <2>2, BeforeType DEF RunInv, Arguments
  <2>6. /\ Before + Len(iterations') <= args.maxIterations
        /\ iteration' = Before + Len(iterations') /\ iteration' \in Nat
    <3>1. \A a, n, m \in Nat : a + n < m => a + (n + 1) <= m /\ a + (n + 1) = (a + n) + 1
                                          /\ (a + n) + 1 \in Nat
      OBVIOUS
    <3>2. /\ Before + Len(iterations) < args.maxIterations /\ iteration' = (Before + Len(iterations)) + 1
          /\ Len(iterations') = Len(iterations) + 1
      BY <2>2, <2>3, <2>5
    <3> QED BY <2>3, <2>5, <3>1, <3>2
  <2>7. \A i \in DOMAIN iterations : i \in DOMAIN iterations' /\ iterations'[i] = iterations[i]
    <3>1. PICK it : iterations' = Append(iterations, it)
      BY <2>1 DEF Recorded
    <3>2. PICK its \in Seq(Iteration) : its = iterations
      BY DEF RunInv, Iterations
    <3>3. \A i \in DOMAIN its : i \in DOMAIN Append(its, it) /\ Append(its, it)[i] = its[i]
      OBVIOUS
    <3> QED BY <3>1, <3>2, <3>3
  <2>8. outcome'.score = 1 => \E i \in DOMAIN iterations' : iterations'[i].value = Answers[Subtask']
    BY <2>2, <2>4, <2>7 DEF RunInv
  <2> QED BY <1>1, <2>2, <2>3, <2>4, <2>6, <2>8 DEF RunInv
<1>9. CASE GiveUp
  BY <1>1, <1>9, RunKept DEF GiveUp, RunInv
<1>10. CASE GivenUp
  <2>1. /\ outcome'.score = 0 /\ phase' = "yielded" /\ phase = "counting"
        /\ UNCHANGED <<args, iteration, iterations, sent>>
    BY <1>10 DEF GivenUp, callVars
  <2>2. Before' = Before
    BY <1>1 DEF Before
  <2> QED BY <1>1, <2>1, <2>2 DEF RunInv
<1> QED BY <1>1, <1>2, <1>3, <1>4, <1>5, <1>6, <1>7, <1>8, <1>9, <1>10 DEF AgentNext

\* A step around the agent.
LEMMA RunRunner == RunInv /\ LogsInv /\ RunnerNext => RunInv'
<1> SUFFICES ASSUME RunInv, LogsInv, RunnerNext PROVE RunInv'
  OBVIOUS
<1>1. ASSUME Start \/ StartWithoutLog PROVE RunInv'
  <2>1. /\ phase = "off" /\ queue # <<>> /\ queue' = Tail(queue) /\ args' = Head(queue)
        /\ phase' \in {"setup", "dead"}
        /\ UNCHANGED <<chatVars, iteration, iterations, sent, outcome>>
    BY <1>1 DEF Start, StartWithoutLog
  <2>2. queue' \in Seq(Arguments) /\ args' \in Arguments
    BY <2>1 DEF RunInv
  <2>3. previous' = NoLog \/ LogOK(previous')
    <3>1. CASE Start
      <4>1. previous' = NoLog \/ \E f \in DOMAIN logs : previous' = logs[f]
        BY <3>1 DEF Start
      <4> QED BY <4>1 DEF LogsInv
    <3>2. CASE StartWithoutLog
      BY <3>2 DEF StartWithoutLog, RunInv
    <3> QED BY <1>1, <3>1, <3>2
  <2>4. /\ iterations = <<>> /\ iteration = 0 /\ outcome.score = 0
        /\ chain = <<>> /\ responses = <<>> /\ observations = <<>>
    BY <2>1 DEF RunInv
  <2>5. iterations' \in Iterations /\ iteration' \in Nat /\ sent'.tokens \in Nat
    BY <2>1 DEF RunInv
  <2>6. previous' = NoLog \/ LogOK(previous)'
    BY <2>3 DEF LogOK, Solves, Iterations, Inputs, Outputs
  <2>8. chain' = <<>> /\ responses' = <<>> /\ observations' = <<>>
    BY <2>1, <2>4 DEF chatVars
  <2> QED BY <2>1, <2>2, <2>4, <2>5, <2>6, <2>8 DEF RunInv
<1>2. CASE SetUp
  <2>1. Before = 0 /\ iterations = <<>> /\ iteration = 0 /\ Len(iterations) = 0
    BY <1>2 DEF SetUp, RunInv, Before
  <2> QED BY <1>2, <2>1, RunKept DEF SetUp, runnerVars, RunInv
<1>3. CASE Resume
  <2>1. /\ phase = "setup" /\ phase' = "ready" /\ previous # NoLog
        /\ iteration' = Len(previous.iterations)
        /\ UNCHANGED <<args, queue, previous, iterations, outcome, sent>>
    BY <1>3 DEF Resume, runnerVars
  <2>2. Before' = Before /\ Before = Len(previous.iterations) /\ Before \in Nat
    BY <2>1, BeforeType DEF Before
  <2>3. iterations = <<>> /\ outcome.score = 0 /\ Len(iterations) = 0
    BY <2>1 DEF RunInv
  <2>4. iteration' = Before' + Len(iterations') /\ iteration' \in Nat
    BY <2>1, <2>2, <2>3
  <2>5. args' \in Arguments
    BY <2>1 DEF RunInv
  <2>6. previous' = NoLog \/ LogOK(previous)'
    BY <2>1 DEF RunInv, LogOK, Solves, Iterations, Inputs, Outputs
  <2> QED BY <2>1, <2>3, <2>4, <2>5, <2>6 DEF RunInv
<1>4. CASE ResumeFails
  BY <1>4, RunKept DEF ResumeFails, runnerVars, RunInv
<1>5. CASE SetUpFails
  BY <1>5, RunKept DEF SetUpFails, runnerVars, RunInv
<1>6. CASE Save
  BY <1>6, RunKept DEF Save, RunInv
<1>7. CASE CleanUp
  <2>1. /\ phase' = "off" /\ chain' = <<>> /\ responses' = <<>> /\ observations' = <<>>
        /\ iteration' = 0 /\ iterations' = <<>> /\ previous' = NoLog /\ UNCHANGED queue
        /\ sent'.tokens = 0 /\ outcome'.score = 0
    BY <1>7 DEF CleanUp, NoInput, Unfinished
  <2>2. iterations' \in Iterations
    BY <2>1 DEF Iterations
  <2> QED BY <2>1, <2>2 DEF RunInv
<1>8. CASE Grade
  <2>1. UNCHANGED <<phase, queue, args, previous, iterations, iteration, outcome, sent,
                    chain, responses, observations>>
    BY <1>8 DEF Grade, agentVars, chatVars
  <2> QED BY <2>1 DEF RunInv, LogOK, Solves, Iterations, Inputs, Outputs, Before, Subtask
<1> QED BY <1>1, <1>2, <1>3, <1>4, <1>5, <1>6, <1>7, <1>8 DEF RunnerNext

\* Nothing happens.
LEMMA RunStutters == RunInv /\ UNCHANGED vars => RunInv'
BY DEF vars, agentVars, chatVars, runnerVars, RunInv, LogOK, Solves, Iterations, Inputs, Outputs,
       Before, Subtask

-----------------------------------------------------------------------------
(* The files. *)

LEMMA LogsInit == Init => LogsInv /\ GradedInv
<1> SUFFICES ASSUME Init PROVE LogsInv /\ GradedInv
  OBVIOUS
<1>1. DOMAIN logs = {} /\ graded = NotGraded
  BY DEF Init
<1> QED BY <1>1, FS_EmptySet DEF LogsInv, GradedInv, IterationsUsedByLast, IterationsBounded

\* The name of a file is its path without the directory of the run.
LEMMA TailOfFile ==
  ASSUME NEW k, NEW a, NEW b, NEW c, NEW d
  PROVE  /\ Tail(<<k>> \o <<a, b, c, d>>) = <<a, b, c, d>>
         /\ (<<k>> \o <<a, b, c, d>>)[1] = k
<1>1. \A S : \A x \in S, t \in Seq(S) :
        /\ Tail(<<x>> \o t) \in Seq(S) /\ Len(Tail(<<x>> \o t)) = Len(t)
        /\ \A i \in 1..Len(t) : Tail(<<x>> \o t)[i] = t[i]
        /\ (<<x>> \o t)[1] = x
  OBVIOUS
<1>2. \A S : \A x \in S, t \in Seq(S) : Tail(<<x>> \o t) = t
  BY <1>1
<1>3. k \in {k, a, b, c, d} /\ <<a, b, c, d>> \in Seq({k, a, b, c, d})
  OBVIOUS
<1> QED BY <1>1, <1>2, <1>3

\* A new log is saved under its name, in a place of its own; the others stay.
LEMMA SaveAdds ==
  ASSUME LogsInv, Save
  PROVE  /\ DOMAIN logs' = DOMAIN logs \cup {File(Log)} /\ logs'[File(Log)] = Log
         /\ File(Log) \notin DOMAIN logs /\ \A f \in DOMAIN logs : logs'[f] = logs[f]
         /\ Tail(File(Log)) = FileName(Log)
         /\ File(Log)[1] = Cardinality(DOMAIN logs) /\ Cardinality(DOMAIN logs) \in Nat
         /\ IsFiniteSet(DOMAIN logs') /\ Cardinality(DOMAIN logs') = Cardinality(DOMAIN logs) + 1
<1> DEFINE file == File(Log)
<1>1. /\ DOMAIN logs' = DOMAIN logs \cup {file}
      /\ \A f \in DOMAIN logs' : logs'[f] = IF f = file THEN Log ELSE logs[f]
  BY DEF Save
<1>2. Tail(file) = FileName(Log) /\ file[1] = Cardinality(DOMAIN logs)
  BY TailOfFile DEF File, FileName
<1>3. IsFiniteSet(DOMAIN logs) /\ Cardinality(DOMAIN logs) \in Nat
  BY FS_CardinalityType DEF LogsInv
<1> HIDE DEF file
<1>4. file \notin DOMAIN logs
  BY <1>2, <1>3 DEF LogsInv
<1>5. IsFiniteSet(DOMAIN logs') /\ Cardinality(DOMAIN logs') = Cardinality(DOMAIN logs) + 1
  BY <1>1, <1>3, <1>4, FS_AddElement
<1> QED BY <1>1, <1>2, <1>3, <1>4, <1>5 DEF file

\* A log is within what one logged run was allowed: itself, or the log it continues and
\* adds nothing to is.
LEMMA LogIsBounded ==
  ASSUME RunInv, SourceInv, LogsInv, phase = "yielded"
  PROVE  \/ Len(Log.iterations) <= Log.maxIterations
         \/ \E g \in DOMAIN logs :
              /\ logs[g].task = Log.task /\ logs[g].model = Log.model
              /\ Len(Log.iterations) <= logs[g].maxIterations
<1>1. /\ Log.maxIterations = args.maxIterations /\ Log.task = args.task /\ Log.model = args.provider
      /\ args.maxIterations \in Nat
  BY DEF Log, NewLog, RunInv, Arguments
<1>2. CASE previous = NoLog
  <2>1. Log.iterations = iterations /\ Before = 0
    BY <1>2 DEF Log, NewLog, Before
  <2>2. CASE iterations = <<>>
    <3>1. Len(Log.iterations) = 0
      BY <2>1, <2>2
    <3> QED BY <1>1, <3>1
  <2>3. CASE iterations # <<>>
    <3>1. Len(iterations) \in Nat /\ 0 + Len(iterations) <= args.maxIterations
      BY <2>1, <2>3 DEF RunInv, Iterations
    <3> QED BY <1>1, <2>1, <3>1
  <2> QED BY <2>2, <2>3
<1>3. CASE previous # NoLog
  <2>1. PICK m \in Nat, n \in Nat :
          m = Len(previous.iterations) /\ n = Len(iterations) /\ Len(Log.iterations) = m + n /\ Before = m
    BY <1>3, LogContinues
  <2>2. CASE iterations = <<>>
    <3>1. n = 0 /\ Len(Log.iterations) = Len(previous.iterations)
      BY <2>1, <2>2
    <3>2. PICK p \in DOMAIN logs : previous = logs[p] /\ previous.model = args.provider
                                  /\ previous.task = args.task
      BY <1>3 DEF SourceInv
    <3> QED BY <1>1, <3>1, <3>2 DEF LogsInv, IterationsBounded
  <2>3. CASE iterations # <<>>
    BY <1>1, <2>1, <2>3 DEF RunInv
  <2> QED BY <2>2, <2>3
<1> QED BY <1>2, <1>3

\* A log is saved under its name.
LEMMA LogsSave == RunInv /\ SourceInv /\ LogsInv /\ Save => LogsInv'
<1> SUFFICES ASSUME RunInv, SourceInv, LogsInv, Save PROVE LogsInv'
  OBVIOUS
<1>1. phase = "yielded" /\ LogOK(Log)
  BY LogIsOK DEF Save
<1> DEFINE file == File(Log)
           log == Log
<1>2. /\ DOMAIN logs' = DOMAIN logs \cup {file} /\ logs'[file] = log
      /\ file \notin DOMAIN logs /\ \A f \in DOMAIN logs : logs'[f] = logs[f]
      /\ Tail(file) = FileName(log)
      /\ file[1] = Cardinality(DOMAIN logs) /\ Cardinality(DOMAIN logs) \in Nat
      /\ IsFiniteSet(DOMAIN logs') /\ Cardinality(DOMAIN logs') = Cardinality(DOMAIN logs) + 1
  BY SaveAdds
<1>3. \/ Len(log.iterations) <= log.maxIterations
      \/ \E g \in DOMAIN logs :
           /\ logs[g].task = log.task /\ logs[g].model = log.model
           /\ Len(log.iterations) <= logs[g].maxIterations
  BY <1>1, LogIsBounded
<1>4. \/ log.iterationsUsed = Len(log.iterations)
      \/ \E p \in DOMAIN logs : ContinuationOf(log, logs[p])
  <2>1. CASE previous = NoLog
    BY <2>1 DEF Log, NewLog
  <2>2. CASE previous # NoLog
    <3>1. PICK p \in DOMAIN logs : previous = logs[p]
      BY <2>2 DEF SourceInv
    <3>2. previous.model = args.provider /\ previous.task = args.task
      BY <1>1, <2>2 DEF SourceInv
    <3>3. ContinuationOf(Log, previous)
      BY <2>2, <3>2, LogContinues DEF ContinuationOf
    <3> QED BY <3>1, <3>3
  <2> QED BY <2>1, <2>2
<1>5. LogOK(log)
  BY <1>1
<1> HIDE DEF file, log
<1>6. ASSUME NEW f \in DOMAIN logs' PROVE LogOK(logs'[f]) /\ Tail(f) = FileName(logs'[f])
  BY <1>2, <1>5 DEF LogsInv
<1>7. ASSUME NEW f \in DOMAIN logs' PROVE LogOK(logs[f])' /\ (Tail(f) = FileName(logs[f]))'
  BY <1>6 DEF LogOK, Solves, Iterations, Inputs, Outputs, FileName, BaseName, Label
<1>8. ASSUME NEW f \in DOMAIN logs' PROVE f[1] \in Nat /\ f[1] < Cardinality(DOMAIN logs')
  BY <1>2 DEF LogsInv
<1>9. IterationsUsedByLast'
  <2> SUFFICES ASSUME NEW f \in DOMAIN logs'
               PROVE  \/ logs'[f].iterationsUsed = Len(logs'[f].iterations)
                      \/ \E g \in DOMAIN logs' : g[1] < f[1] /\ ContinuationOf(logs'[f], logs'[g])
    BY DEF IterationsUsedByLast, ContinuationOf
  <2>1. CASE f \in DOMAIN logs
    BY <1>2, <2>1 DEF LogsInv, IterationsUsedByLast
  <2>2. CASE f = file
    <3>1. \A p \in DOMAIN logs : p[1] < file[1] /\ p \in DOMAIN logs' /\ logs'[p] = logs[p]
      BY <1>2 DEF LogsInv
    <3> QED BY <1>2, <1>4, <2>2, <3>1
  <2> QED BY <1>2, <2>1, <2>2
<1>10. IterationsBounded'
  <2> SUFFICES ASSUME NEW f \in DOMAIN logs'
               PROVE  \E g \in DOMAIN logs' :
                        /\ logs'[g].task = logs'[f].task /\ logs'[g].model = logs'[f].model
                        /\ Len(logs'[f].iterations) <= logs'[g].maxIterations
    BY DEF IterationsBounded
  <2>1. CASE f \in DOMAIN logs
    BY <1>2, <2>1 DEF LogsInv, IterationsBounded
  <2>2. CASE f = file
    BY <1>2, <1>3, <2>2
  <2> QED BY <1>2, <2>1, <2>2
<1> QED BY <1>2, <1>7, <1>8, <1>9, <1>10 DEF LogsInv

LEMMA LogsKept == LogsInv /\ UNCHANGED logs => LogsInv'
<1> SUFFICES ASSUME LogsInv, UNCHANGED logs PROVE LogsInv'
  OBVIOUS
<1>1. ASSUME NEW f \in DOMAIN logs' PROVE LogOK(logs[f])' /\ (Tail(f) = FileName(logs[f]))'
  BY DEF LogsInv, LogOK, Solves, Iterations, Inputs, Outputs, FileName, BaseName, Label
<1>2. IterationsUsedByLast'
  BY DEF LogsInv, IterationsUsedByLast, ContinuationOf
<1>3. IterationsBounded'
  BY DEF LogsInv, IterationsBounded
<1> QED BY <1>1, <1>2, <1>3 DEF LogsInv

\* The agent answers with its last word.
LEMMA SourceAgent == RunInv /\ SourceInv /\ ProcessNext => SourceInv'
<1> SUFFICES ASSUME RunInv, SourceInv, ProcessNext PROVE SourceInv'
  OBVIOUS
<1>1. AgentNext /\ UNCHANGED <<queue, previous, logs>>
  BY DEF ProcessNext, runnerVars
<1>2. Subtask' = Subtask /\ UNCHANGED args /\ phase \notin {"off", "setup", "dead"}
      /\ phase' \notin {"off", "setup"}
  BY <1>1 DEF AgentNext, BeginSubtask, BeginIteration, CallReturns, CallFails, Raises, Answered,
              Commanded, Rambled, Heard, GiveUp, GivenUp, Subtask
<1>3. /\ previous' # NoLog => \E p \in DOMAIN logs' : previous' = logs'[p]
      /\ previous' # NoLog /\ phase' \notin {"off", "dead"} =>
           previous'.model = args'.provider /\ previous'.task = args'.task
      /\ previous' # NoLog /\ phase' \notin {"off", "setup", "dead"} => previous'.iterations # <<>>
  BY <1>1, <1>2 DEF SourceInv
<1>4. ASSUME UNCHANGED iterations, phase' \in {"ready", "loop", "calling", "counting", "dead"},
             phase \in {"ready", "loop", "calling", "counting"}
      PROVE  SourceInv'
  BY <1>3, <1>4 DEF SourceInv
<1>5. CASE BeginSubtask \/ BeginIteration \/ CallReturns \/ CallFails \/ Raises \/ GiveUp
  BY <1>4, <1>5 DEF BeginSubtask, BeginIteration, CallReturns, CallFails, Raises, GiveUp
<1>6. CASE Answered
  <2>1. PICK v \in Values :
          /\ iterations' = Recorded("answer", v, ReplyTokens)
          /\ outcome' = [score |-> IF v = Answers[Subtask] THEN 1 ELSE 0, status |-> "answered",
                         hinted |-> args.hint # NoHint /\ iteration >= args.hint]
    BY <1>6 DEF Answered
  <2>2. phase = "calling" /\ phase' = "yielded"
    BY <1>6 DEF Answered, Heard
  <2>3. PICK n \in Nat :
          /\ n = Len(iterations) + 1 /\ n \in DOMAIN iterations'
          /\ iterations'[n].value = v /\ iterations'[n].what = "answer"
          /\ \A k \in DOMAIN iterations' :
               \/ k = n
               \/ k \in DOMAIN iterations /\ iterations'[k] = iterations[k]
    <3>1. "answer" \in Kinds /\ v \in Texts
      BY DEF Kinds, Texts
    <3>2. iterations' \in Iterations /\ Len(iterations') = Len(iterations) + 1 /\ Len(iterations) \in Nat
      BY <2>1, <3>1, RecordedIs
    <3>3. Len(iterations) + 1 \in DOMAIN iterations'
      BY <3>2 DEF Iterations
    <3> QED BY <2>1, <3>1, <3>2, <3>3, RecordedIs
  <2>4. \A k \in DOMAIN iterations : iterations[k].what # "answer"
    BY <2>2 DEF SourceInv
  <2>5. outcome'.score = 1 <=> v = Answers[Subtask']
    BY <1>2, <2>1
  <2>6. (\E k \in DOMAIN iterations' :
           iterations'[k].what = "answer" /\ iterations'[k].value = Answers[Subtask'])
          <=> v = Answers[Subtask']
    BY <2>3, <2>4
  <2> QED BY <1>3, <2>2, <2>5, <2>6 DEF SourceInv
<1>7. CASE Commanded \/ Rambled
  <2>1. PICK what \in {"command", "nothing"}, v \in Texts : iterations' = Recorded(what, v, ReplyTokens)
    BY <1>7 DEF Commanded, Rambled, Prints, Texts
  <2>2. phase = "calling" /\ phase' = "loop"
    BY <1>7 DEF Commanded, Rambled, Heard
  <2>3. \A k \in DOMAIN iterations' :
          \/ iterations'[k].what = what
          \/ k \in DOMAIN iterations /\ iterations'[k] = iterations[k]
    BY <2>1, RecordedIs DEF Kinds
  <2>4. \A k \in DOMAIN iterations' : iterations'[k].what # "answer"
    BY <2>2, <2>3 DEF SourceInv
  <2> QED BY <1>3, <2>2, <2>4 DEF SourceInv
<1>8. CASE GivenUp
  <2>1. phase = "counting" /\ phase' = "yielded" /\ UNCHANGED iterations /\ outcome'.score = 0
    BY <1>8 DEF GivenUp
  <2> QED BY <1>2, <1>3, <2>1 DEF SourceInv
<1> QED BY <1>1, <1>5, <1>6, <1>7, <1>8 DEF AgentNext

\* Only a log of this model on this task is continued, and only if it has an iteration.
LEMMA SourceRunner == RunInv /\ SourceInv /\ LogsInv /\ RunnerNext => SourceInv'
<1> SUFFICES ASSUME RunInv, SourceInv, LogsInv, RunnerNext PROVE SourceInv'
  OBVIOUS
<1>1. CASE Start
  <2>1. /\ phase = "off" /\ phase' \in {"setup", "dead"} /\ UNCHANGED <<iterations, logs>>
        /\ \/ previous' = NoLog
           \/ \E f \in DOMAIN logs :
                /\ previous' = logs[f]
                /\ phase' = "setup" => logs[f].model = args'.provider /\ logs[f].task = args'.task
    BY <1>1 DEF Start
  <2> QED BY <2>1 DEF SourceInv, RunInv
<1>2. CASE StartWithoutLog
  <2>1. phase = "off" /\ phase' = "dead" /\ UNCHANGED <<previous, logs>>
    BY <1>2 DEF StartWithoutLog
  <2> QED BY <2>1 DEF SourceInv
<1>3. CASE SetUp
  <2>1. phase = "setup" /\ phase' = "ready" /\ previous = NoLog /\ UNCHANGED <<previous, iterations>>
    BY <1>3 DEF SetUp, runnerVars
  <2> QED BY <2>1 DEF SourceInv, RunInv
<1>4. CASE Resume
  <2>1. /\ phase = "setup" /\ phase' = "ready" /\ previous.iterations # <<>>
        /\ UNCHANGED <<args, previous, logs, iterations>>
    BY <1>4 DEF Resume, Continues, runnerVars
  <2> QED BY <2>1 DEF SourceInv, RunInv
<1>5. CASE ResumeFails \/ SetUpFails
  <2>1. phase' = "dead" /\ UNCHANGED <<previous, logs>>
    BY <1>5 DEF ResumeFails, SetUpFails, runnerVars
  <2> QED BY <2>1 DEF SourceInv
<1>6. CASE Save
  <2>1. phase = "yielded" /\ phase' = "done" /\ UNCHANGED <<args, previous>>
    BY <1>6 DEF Save
  <2>2. \A f \in DOMAIN logs : f \in DOMAIN logs' /\ logs'[f] = logs[f]
    BY <1>6, SaveAdds
  <2> QED BY <2>1, <2>2 DEF SourceInv
<1>7. CASE CleanUp
  <2>1. phase' = "off" /\ previous' = NoLog /\ iterations' = <<>>
    BY <1>7 DEF CleanUp
  <2> QED BY <2>1 DEF SourceInv
<1>8. CASE Grade
  <2>1. UNCHANGED <<phase, args, previous, logs, iterations, outcome>>
    BY <1>8 DEF Grade, agentVars
  <2> QED BY <2>1 DEF SourceInv, Subtask
<1> QED BY <1>1, <1>2, <1>3, <1>4, <1>5, <1>6, <1>7, <1>8 DEF RunnerNext

LEMMA SourceStutters == SourceInv /\ UNCHANGED vars => SourceInv'
BY DEF vars, agentVars, runnerVars, SourceInv, Subtask

LEMMA SourceInit == Init => SourceInv
BY DEF Init, FreshAgent, SourceInv

\* The files are moved once, when nothing runs any more.
LEMMA GradedStep == RunInv /\ GradedInv /\ [Next]_vars => GradedInv'
<1> SUFFICES ASSUME RunInv, GradedInv, [Next]_vars PROVE GradedInv'
  OBVIOUS
<1>1. CASE Grade
  <2> DEFINE names == {Tail(f) : f \in DOMAIN logs}
  <2>1. /\ graded' \in [names -> Range(logs)]
        /\ \A n \in DOMAIN graded' : \E f \in DOMAIN logs : Tail(f) = n /\ graded'[n] = logs[f]
        /\ phase = "off" /\ queue = <<>>
        /\ UNCHANGED <<phase, queue, logs>>
    BY <1>1 DEF Grade, agentVars
  <2>2. DOMAIN graded' = names
    BY <2>1
  <2> QED BY <2>1, <2>2 DEF GradedInv
<1>2. CASE UNCHANGED vars
  BY <1>2 DEF vars, agentVars, runnerVars, GradedInv
<1>3. ASSUME UNCHANGED graded, phase # "off" \/ queue # <<>> PROVE GradedInv'
  BY <1>3 DEF GradedInv
<1>4. CASE ProcessNext
  <2>1. phase # "off"
    BY <1>4 DEF ProcessNext, AgentNext, BeginSubtask, BeginIteration, CallReturns, CallFails, Raises,
                Answered, Commanded, Rambled, Heard, GiveUp, GivenUp
  <2> QED BY <1>3, <1>4, <2>1 DEF ProcessNext, runnerVars
<1>5. CASE RunnerNext
  BY <1>1, <1>3, <1>5 DEF RunnerNext, Start, StartWithoutLog, SetUp, Resume, ResumeFails, SetUpFails,
                          Save, CleanUp, runnerVars
<1> QED BY <1>2, <1>4, <1>5 DEF Next, Stop

-----------------------------------------------------------------------------
(* The chat. *)

\* The chat d is the chat c with messages after it.
Extends(c, d) ==
  /\ c \in Seq(Roles) /\ d \in Seq(Roles)
  /\ \A i \in DOMAIN c : i \in DOMAIN d /\ d[i] = c[i]

\* A message joins the chat.
LEMMA OneMore ==
  ASSUME NEW c \in Seq(Roles), NEW r \in Roles
  PROVE  /\ Extends(c, Append(c, r)) /\ Append(c, r) # <<>>
         /\ Len(c) + 1 \in DOMAIN Append(c, r) /\ Append(c, r)[Len(c) + 1] = r
<1>1. /\ Append(c, r) \in Seq(Roles) /\ Append(c, r)[Len(c) + 1] = r
      /\ Len(Append(c, r)) = Len(c) + 1 /\ Len(c) \in Nat
      /\ \A i \in 1..Len(c) : Append(c, r)[i] = c[i]
      /\ Append(c, r) # <<>>
  BY AppendIs
<1>2. DOMAIN c = 1..Len(c) /\ DOMAIN Append(c, r) = 1..(Len(c) + 1)
  BY <1>1
<1>3. \A i \in 1..Len(c) : i \in 1..(Len(c) + 1)
  BY <1>1
<1>4. Len(c) + 1 \in 1..(Len(c) + 1)
  BY <1>1
<1> QED BY <1>1, <1>2, <1>3, <1>4 DEF Extends

\* Messages are put after those there are.
LEMMA MoreJoin ==
  ASSUME NEW c \in Seq(Roles), NEW d \in Seq(Roles)
  PROVE  Extends(c, c \o d) /\ (c # <<>> => c \o d # <<>>)
<1>1. /\ c \o d \in Seq(Roles) /\ Len(c \o d) = Len(c) + Len(d)
      /\ Len(c) \in Nat /\ Len(d) \in Nat
      /\ \A i \in 1..Len(c) : (c \o d)[i] = c[i]
  OBVIOUS
<1>2. DOMAIN c = 1..Len(c) /\ DOMAIN (c \o d) = 1..(Len(c) + Len(d))
  BY <1>1
<1>3. \A i \in 1..Len(c) : i \in 1..(Len(c) + Len(d))
  BY <1>1
<1>4. c \o d = <<>> => Len(c \o d) = 0 /\ Len(c) = 0
  BY <1>1
<1>5. Len(c) = 0 => c = <<>>
  OBVIOUS
<1> QED BY <1>1, <1>2, <1>3, <1>4, <1>5 DEF Extends

\* An index list stays right when the chat grows ...
LEMMA PointsKept ==
  ASSUME NEW c, NEW d, NEW list, NEW role, NEW first, Extends(c, d), Points(c, list, role, first)
  PROVE  Points(d, list, role, first)
  BY DEF Extends, Points

\* ... and when it gets the position of a new message.
LEMMA PointsAppend ==
  ASSUME NEW c, NEW d, NEW list, NEW role, NEW first \in Nat, Extends(c, d),
         Points(c, list, role, first),
         NEW p \in DOMAIN d, p \notin DOMAIN c, d[p] = role, p >= first
  PROVE  Points(d, Append(list, p), role, first)
<1>1. p \in Nat
  BY DEF Extends
<1> DEFINE longer == Append(list, p)
<1>2. /\ longer \in Seq(Nat) /\ Len(longer) = Len(list) + 1 /\ longer[Len(list) + 1] = p
      /\ Len(list) \in Nat /\ \A k \in 1..Len(list) : longer[k] = list[k]
  BY <1>1, AppendIs DEF Points
<1>3. DOMAIN list = 1..Len(list) /\ DOMAIN longer = 1..(Len(list) + 1)
  BY <1>2 DEF Points
<1> HIDE DEF longer
<1>4. \A k \in DOMAIN longer : k = Len(list) + 1 \/ k \in DOMAIN list
  BY <1>2, <1>3
<1>5. \A k \in DOMAIN list : list[k] \in DOMAIN c /\ longer[k] = list[k]
  BY <1>2, <1>3 DEF Points
<1>6. \A i \in DOMAIN longer : longer[i] \in DOMAIN d /\ d[longer[i]] = role /\ longer[i] >= first
  <2> SUFFICES ASSUME NEW i \in DOMAIN longer
               PROVE  longer[i] \in DOMAIN d /\ d[longer[i]] = role /\ longer[i] >= first
    OBVIOUS
  <2>1. CASE i \in DOMAIN list
    <3>1. PICK q : q = list[i]
      OBVIOUS
    <3>2. q \in DOMAIN c /\ c[q] = role /\ q >= first /\ longer[i] = q
      BY <1>5, <2>1, <3>1 DEF Points
    <3>3. q \in DOMAIN d /\ d[q] = c[q]
      BY <3>2 DEF Extends
    <3> QED BY <3>2, <3>3
  <2>2. CASE i = Len(list) + 1
    BY <1>2, <2>2
  <2> QED BY <1>4, <2>1, <2>2
<1>7. ASSUME NEW i \in DOMAIN longer, NEW j \in DOMAIN longer, longer[i] = longer[j]
      PROVE  i = j
  <2>1. CASE i \in DOMAIN list /\ j \in DOMAIN list
    BY <1>5, <1>7, <2>1 DEF Points
  <2>2. CASE i \notin DOMAIN list
    BY <1>2, <1>4, <1>5, <1>7, <2>2
  <2>3. CASE j \notin DOMAIN list
    BY <1>2, <1>4, <1>5, <1>7, <2>3
  <2> QED BY <2>1, <2>2, <2>3
<1>8. Points(d, longer, role, first)
  BY <1>2, <1>6, <1>7 DEF Points
<1> QED BY <1>8 DEF longer

\* The truncated chat is a window (eval_agent.py: _truncate_chat_chain).
LEMMA WindowShows ==
  ASSUME NEW c \in Seq(Roles), NEW rs, NEW os, c # <<>>,
         Points(c, rs, "agent", 1), Points(c, os, "assistant", 2)
  PROVE  Shows(c, rs, os, Window(c, rs, os))
<1>1. ResponsesToKeep \in Nat /\ ObservationsToKeep \in Nat
  BY AgentAssumption
<1> DEFINE Rest(list, keep) ==
             \A i \in DOMAIN list : list[i] \in Ignored(list, keep) <=> ~(i + keep > Len(list))
<1>2. ASSUME NEW list, NEW keep \in Nat, NEW role, NEW first, Points(c, list, role, first)
      PROVE  Rest(list, keep)
  <2>1. list \in Seq(Nat) /\ Len(list) \in Nat /\ DOMAIN list = 1..Len(list)
    BY <1>2 DEF Points
  <2>2. 1..(Len(list) - keep) = {i \in DOMAIN list : ~(i + keep > Len(list))}
    BY <2>1
  <2>3. Ignored(list, keep) = {list[i] : i \in {i \in DOMAIN list : ~(i + keep > Len(list))}}
    BY <2>2 DEF Ignored
  <2> QED BY <1>2, <2>3 DEF Points
<1>3. Rest(rs, ResponsesToKeep) /\ Rest(os, ObservationsToKeep)
  BY <1>1, <1>2
<1>4. /\ \A x \in Ignored(rs, ResponsesToKeep) : \E i \in DOMAIN rs : x = rs[i]
      /\ \A x \in Ignored(os, ObservationsToKeep) : \E i \in DOMAIN os : x = os[i]
  <2>1. \A list \in Seq(Nat) : \A keep \in Nat : 1..(Len(list) - keep) \subseteq DOMAIN list
    OBVIOUS
  <2> QED BY <1>1, <2>1 DEF Ignored, Points
<1>5. \A i \in DOMAIN rs, j \in DOMAIN os : rs[i] # os[j]
  BY DEF Points
<1>6. 1 \in DOMAIN c
  OBVIOUS
<1>7. c[1] # "agent" => 1 \in Window(c, rs, os)
  <2>1. \A j \in DOMAIN os : os[j] # 1
    BY DEF Points
  <2>2. c[1] # "agent" => \A i \in DOMAIN rs : rs[i] # 1
    BY DEF Points
  <2> QED BY <1>4, <1>6, <2>1, <2>2 DEF Window
<1>8. Window(c, rs, os) \cap Range(rs) = Newest(rs, ResponsesToKeep)
  <2>1. \A i \in DOMAIN rs : rs[i] \in DOMAIN c /\ rs[i] \notin Ignored(os, ObservationsToKeep)
    BY <1>4, <1>5 DEF Points
  <2>2. \A i \in DOMAIN rs : rs[i] \in Window(c, rs, os) <=> i + ResponsesToKeep > Len(rs)
    BY <1>3, <2>1 DEF Window
  <2> QED BY <2>2 DEF Newest, Range
<1>9. Window(c, rs, os) \cap Range(os) = Newest(os, ObservationsToKeep)
  <2>1. \A i \in DOMAIN os : os[i] \in DOMAIN c /\ os[i] \notin Ignored(rs, ResponsesToKeep)
    BY <1>4, <1>5 DEF Points
  <2>2. \A i \in DOMAIN os : os[i] \in Window(c, rs, os) <=> i + ObservationsToKeep > Len(os)
    BY <1>3, <2>1 DEF Window
  <2> QED BY <2>2 DEF Newest, Range
<1> QED BY <1>7, <1>8, <1>9 DEF Shows

\* A window stays one when the chat grows and the index lists do not.
LEMMA ShowsKept ==
  ASSUME NEW c, NEW d, NEW rs, NEW os, NEW positions, Extends(c, d), d # <<>>,
         Shows(c, rs, os, positions)
  PROVE  Shows(d, rs, os, positions)
<1>1. 1 \in DOMAIN c
  BY DEF Extends, Shows
<1> QED BY <1>1 DEF Extends, Shows

LEMMA ChatInit == Init => ChatInv
<1> SUFFICES ASSUME Init PROVE ChatInv
  OBVIOUS
<1>1. chain = <<>> /\ responses = <<>> /\ observations = <<>> /\ iteration = 0
  BY DEF Init, FreshAgent
<1> QED BY <1>1 DEF ChatInv, Points

\* A step that points at nothing new.
LEMMA ChatKept ==
  ASSUME ChatInv, UNCHANGED <<responses, observations>>, Extends(chain, chain'),
         chain # <<>> => chain' # <<>>,
         iteration' > 0 /\ phase' \in {"ready", "loop"} =>
           iteration > 0 /\ phase \in {"ready", "loop"} /\ shown' = shown,
         iteration' > 0 /\ phase' = "calling" =>
           /\ iteration > 0
           /\ \/ phase = "calling" /\ sent' = sent
              \/ phase = "loop" /\ sent'.shown = shown
  PROVE  ChatInv'
<1>1. chain' \in Seq(Roles)
  BY DEF Extends
<1>2. Points(chain', responses', "agent", 1) /\ Points(chain', observations', "assistant", 2)
  BY PointsKept DEF ChatInv
<1>3. \A positions : Shows(chain, responses, observations, positions)
                       => Shows(chain', responses', observations', positions)
  <2>1. \A positions : Shows(chain, responses, observations, positions) => chain # <<>>
    BY DEF Shows
  <2> QED BY <2>1, ShowsKept
<1> QED BY <1>1, <1>2, <1>3 DEF ChatInv

LEMMA ExtendsSelf == ChatInv => Extends(chain, chain)
BY DEF ChatInv, Extends

\* A step of the agent.
LEMMA ChatAgent == RunInv /\ ChatInv /\ AgentNext => ChatInv'
<1> SUFFICES ASSUME RunInv, ChatInv, AgentNext PROVE ChatInv'
  OBVIOUS
<1>1. chain \in Seq(Roles) /\ {"system", "agent", "assistant"} \subseteq Roles
  BY DEF ChatInv, Roles
<1>2. CASE BeginSubtask
  <2>1. /\ phase = "ready" /\ phase' = "loop"
        /\ UNCHANGED <<responses, observations, shown, iteration>>
        /\ chain' = chain \/ chain' = Append(chain, "system")
    BY <1>2 DEF BeginSubtask
  <2>2. Extends(chain, chain') /\ (chain # <<>> => chain' # <<>>)
    BY <1>1, <2>1, ExtendsSelf, OneMore
  <2> QED BY <2>1, <2>2, ChatKept
<1>3. CASE BeginIteration
  <2>1. /\ phase = "loop" /\ phase' = "calling" /\ UNCHANGED <<responses, observations, shown, iteration>>
        /\ \E typed \in BOOLEAN : chain' = Prompted(typed)
        /\ sent' = Input(chain', IF iteration = 0 THEN DOMAIN chain' ELSE shown)
    BY <1>3 DEF BeginIteration
  <2>2. PICK typed \in BOOLEAN : chain' = Prompted(typed)
    BY <2>1
  <2>3. Extends(chain, chain') /\ (chain # <<>> => chain' # <<>>)
    <3>1. <<"system">> \in Seq(Roles) /\ <<>> \in Seq(Roles)
      BY <1>1
    <3>2. PICK more, hints \in Seq(Roles) : chain' = chain \o more \o hints
      BY <2>2, <3>1 DEF Prompted
    <3>3. PICK c \in Seq(Roles) : c = chain \o more
      <4>1. \A a, b \in Seq(Roles) : a \o b \in Seq(Roles)
        OBVIOUS
      <4> QED BY <1>1, <4>1
    <3>4. Extends(chain, c) /\ Extends(c, chain') /\ (chain # <<>> => c # <<>>)
          /\ (c # <<>> => chain' # <<>>)
      BY <1>1, <3>2, <3>3, MoreJoin
    <3> QED BY <3>4 DEF Extends
  <2>4. iteration > 0 => sent'.shown = shown
    BY <2>1 DEF Input
  <2> QED BY <2>1, <2>3, <2>4, ChatKept
<1>4. CASE CallReturns \/ CallFails
  <2>1. UNCHANGED <<chain, responses, observations, shown, iteration, phase, sent>>
    BY <1>4 DEF CallReturns, CallFails, chatVars
  <2> QED BY <2>1, ExtendsSelf, ChatKept
<1>5. CASE Raises
  <2>1. UNCHANGED <<chain, responses, observations>> /\ phase' = "dead"
    BY <1>5 DEF Raises, chatVars
  <2> QED BY <2>1, ExtendsSelf, ChatKept
<1>6. CASE Answered \/ Rambled
  <2>1. /\ chain' = Append(chain, "agent") /\ responses' = Append(responses, Len(chain) + 1)
        /\ UNCHANGED observations /\ shown' = Window(chain', responses', observations)
        /\ phase' \in {"loop", "yielded"}
    BY <1>6 DEF Answered, Rambled, Heard
  <2>2. /\ Extends(chain, chain') /\ chain' # <<>>
        /\ Len(chain) + 1 \in DOMAIN chain' /\ chain'[Len(chain) + 1] = "agent"
    BY <1>1, <2>1, OneMore
  <2>3. Len(chain) + 1 \notin DOMAIN chain /\ Len(chain) + 1 >= 1
    BY <1>1
  <2>4. Points(chain', responses', "agent", 1)
    BY <2>1, <2>2, <2>3, PointsAppend DEF ChatInv
  <2>5. Points(chain', observations', "assistant", 2)
    BY <2>1, <2>2, PointsKept DEF ChatInv
  <2>6. chain' \in Seq(Roles)
    BY <2>2 DEF Extends
  <2>7. Shows(chain', responses', observations', shown')
    BY <2>1, <2>2, <2>4, <2>5, <2>6, WindowShows
  <2> QED BY <2>1, <2>4, <2>5, <2>6, <2>7 DEF ChatInv
<1>7. CASE Commanded
  <2>1. /\ chain' = chain \o <<"agent", "assistant">>
        /\ responses' = Append(responses, Len(chain) + 1)
        /\ observations' = Append(observations, Len(chain) + 2)
        /\ shown' = Window(chain', responses', observations')
        /\ phase' = "loop"
    BY <1>7 DEF Commanded, Heard
  <2>2. <<"agent", "assistant">> \in Seq(Roles)
    BY <1>1
  <2>3. /\ Len(chain) \in Nat /\ DOMAIN chain = 1..Len(chain)
        /\ DOMAIN chain' = 1..(Len(chain) + 2)
        /\ chain'[Len(chain) + 1] = "agent" /\ chain'[Len(chain) + 2] = "assistant"
    <3>1. PICK c \in Seq(Roles) : c = chain
      BY <1>1
    <3>2. /\ Len(c \o <<"agent", "assistant">>) = Len(c) + 2
          /\ (c \o <<"agent", "assistant">>)[Len(c) + 1] = "agent"
          /\ (c \o <<"agent", "assistant">>)[Len(c) + 2] = "assistant"
          /\ DOMAIN (c \o <<"agent", "assistant">>) = 1..(Len(c) + 2)
      BY <2>2
    <3>3. Len(c) \in Nat /\ DOMAIN c = 1..Len(c)
      OBVIOUS
    <3> QED BY <2>1, <3>1, <3>2, <3>3
  <2>4. Extends(chain, chain') /\ chain' # <<>>
    <3>1. Extends(chain, chain')
      BY <1>1, <2>1, <2>2, MoreJoin
    <3>2. 1 \in DOMAIN chain'
      BY <2>3
    <3> QED BY <3>1, <3>2
  <2>5. /\ Len(chain) + 1 \in DOMAIN chain' /\ Len(chain) + 1 \notin DOMAIN chain
        /\ Len(chain) + 2 \in DOMAIN chain' /\ Len(chain) + 2 \notin DOMAIN chain
        /\ Len(chain) + 1 >= 1 /\ Len(chain) + 2 >= 2
    BY <2>3
  <2>6. Points(chain', responses', "agent", 1)
    BY <2>1, <2>3, <2>4, <2>5, PointsAppend DEF ChatInv
  <2>7. Points(chain', observations', "assistant", 2)
    BY <2>1, <2>3, <2>4, <2>5, PointsAppend DEF ChatInv
  <2>8. chain' \in Seq(Roles)
    BY <2>4 DEF Extends
  <2>9. Shows(chain', responses', observations', shown')
    BY <2>1, <2>4, <2>6, <2>7, <2>8, WindowShows
  <2> QED BY <2>1, <2>6, <2>7, <2>8, <2>9 DEF ChatInv
<1>8. CASE GiveUp
  <2>1. UNCHANGED <<chain, responses, observations>> /\ phase' = "counting"
    BY <1>8 DEF GiveUp, chatVars
  <2> QED BY <2>1, ExtendsSelf, ChatKept
<1>9. CASE GivenUp
  <2>1. chain' = Append(chain, "system") /\ UNCHANGED <<responses, observations>> /\ phase' = "yielded"
    BY <1>9 DEF GivenUp
  <2>2. Extends(chain, chain') /\ chain' # <<>>
    BY <1>1, <2>1, OneMore
  <2> QED BY <2>1, <2>2, ChatKept
<1> QED BY <1>2, <1>3, <1>4, <1>5, <1>6, <1>7, <1>8, <1>9 DEF AgentNext

\* A step around the agent.
LEMMA ChatRunner == RunInv /\ ChatInv /\ RunnerNext => ChatInv'
<1> SUFFICES ASSUME RunInv, ChatInv, RunnerNext PROVE ChatInv'
  OBVIOUS
<1>1. ASSUME UNCHANGED <<chain, responses, observations>>, iteration' = 0 \/ phase' \in {"setup", "dead", "done"}
      PROVE  ChatInv'
  BY <1>1, ExtendsSelf, ChatKept
<1>2. CASE Start
  BY <1>1, <1>2 DEF Start, chatVars
<1>3. CASE StartWithoutLog
  BY <1>1, <1>3 DEF StartWithoutLog, chatVars
<1>4. CASE SetUp
  <2>1. UNCHANGED <<chain, responses, observations, iteration>> /\ iteration = 0
    BY <1>4 DEF SetUp, chatVars, RunInv
  <2> QED BY <1>1, <2>1
<1>5. CASE Resume
  <2>1. /\ chain' = <<"recap", "agent", "assistant">> /\ shown' = DOMAIN chain'
        /\ responses' = <<>> /\ observations' = <<>> /\ phase' = "ready"
    BY <1>5 DEF Resume, RunInv
  <2>2. chain' \in Seq(Roles) /\ chain' # <<>> /\ 1 \in DOMAIN chain'
    BY <2>1 DEF Roles
  <2>3. Shows(chain', responses', observations', shown')
    BY <2>1, <2>2 DEF Shows, Newest, Range
  <2> QED BY <2>1, <2>2, <2>3 DEF ChatInv, Points
<1>6. CASE ResumeFails \/ SetUpFails \/ Save
  BY <1>1, <1>6 DEF ResumeFails, SetUpFails, Save, chatVars
<1>7. CASE CleanUp
  <2>1. chain' = <<>> /\ responses' = <<>> /\ observations' = <<>> /\ iteration' = 0
    BY <1>7 DEF CleanUp
  <2> QED BY <2>1 DEF ChatInv, Points
<1>8. CASE Grade
  <2>1. UNCHANGED <<chain, responses, observations, shown, iteration, phase, sent>>
    BY <1>8 DEF Grade, agentVars, chatVars
  <2> QED BY <2>1, ExtendsSelf, ChatKept
<1> QED BY <1>2, <1>3, <1>4, <1>5, <1>6, <1>7, <1>8 DEF RunnerNext

-----------------------------------------------------------------------------
(* Theorems. *)

\* What holds between any two steps of a benchmark: of the run in its process, of the
\* logs, of the graded files and of the chat (run_task.py, eval_agent.py).
THEOREM RunnerInvariance == Spec => []RunnerInv
<1>1. Init => RunnerInv
  BY RunInit, SourceInit, LogsInit, ChatInit DEF RunnerInv
<1>2. RunnerInv /\ [Next]_vars => RunnerInv'
  <2> SUFFICES ASSUME RunnerInv, [Next]_vars PROVE RunnerInv'
    OBVIOUS
  <2>1. RunInv /\ SourceInv /\ LogsInv /\ GradedInv /\ ChatInv
    BY DEF RunnerInv
  <2>2. CASE ProcessNext
    <3>1. RunInv'
      BY <2>1, <2>2, RunAgent
    <3>2. LogsInv'
      BY <2>1, <2>2, LogsKept DEF ProcessNext, runnerVars
    <3>3. ChatInv'
      BY <2>1, <2>2, ChatAgent DEF ProcessNext
    <3>4. SourceInv'
      BY <2>1, <2>2, SourceAgent
    <3> QED BY <2>1, <3>1, <3>2, <3>3, <3>4, GradedStep DEF RunnerInv
  <2>3. CASE RunnerNext
    <3>1. RunInv'
      BY <2>1, <2>3, RunRunner
    <3>2. LogsInv'
      <4>1. CASE Save
        BY <2>1, <4>1, LogsSave
      <4>2. CASE UNCHANGED logs
        BY <2>1, <4>2, LogsKept
      <4> QED BY <2>3, <4>1, <4>2 DEF RunnerNext, Start, StartWithoutLog, SetUp, Resume, ResumeFails,
                                      SetUpFails, CleanUp, Grade, runnerVars
    <3>3. ChatInv'
      BY <2>1, <2>3, ChatRunner
    <3>4. SourceInv'
      BY <2>1, <2>3, SourceRunner
    <3> QED BY <2>1, <3>1, <3>2, <3>3, <3>4, GradedStep DEF RunnerInv
  <2>4. CASE UNCHANGED vars
    <3>1. UNCHANGED <<chain, responses, observations, shown, iteration, phase, sent, logs>>
      BY <2>4 DEF vars, agentVars, chatVars, runnerVars
    <3>2. ChatInv'
      BY <2>1, <3>1, ExtendsSelf, ChatKept
    <3> QED BY <2>1, <2>4, <3>1, <3>2, RunStutters, SourceStutters, LogsKept, GradedStep DEF RunnerInv
  <2> QED BY <2>2, <2>3, <2>4 DEF Next, Stop
<1> QED BY <1>1, <1>2, PTL DEF Spec

\* A log accounts for its task: its tokens are the sums over all its iterations, those of
\* the log it continued included; its count of iterations is that of the last process,
\* and the iterations before them are an earlier log's, whose verdict it keeps; and all
\* of them are within what one logged run of the model on the task was allowed
\* (run_task.py:516-566; eval_agent.py: _process_subtask).
THEOREM LogsAreAccounted == Spec => []LogsAccount
<1>1. RunnerInv => LogsAccount
  BY DEF RunnerInv, LogsInv, LogOK, LogsAccount, TokensAddUp, FirstVerdict
<1> QED BY <1>1, RunnerInvariance, PTL

\* The model is shown the first message and exactly the newest replies and observations
\* of this process (eval_agent.py: _truncate_chat_chain).
THEOREM WindowIsKept == Spec => []WindowKept
<1>1. RunnerInv => WindowKept
  BY DEF RunnerInv, ChatInv, Shows, WindowKept
<1> QED BY <1>1, RunnerInvariance, PTL

\* What a finite set is turned into is finite, and not larger.
LEMMA ImageIsFinite ==
  ASSUME NEW S, IsFiniteSet(S), NEW f, DOMAIN f = S
  PROVE  IsFiniteSet(Range(f)) /\ Cardinality(Range(f)) <= Cardinality(S)
<1> DEFINE g == [x \in S |-> f[x]]
<1>1. g \in Surjection(S, Range(f))
  BY DEF Surjection, Range
<1> QED BY <1>1, FS_Surjection

\* The attempts that are counted are finitely many, and every task is one of them.
LEMMA AttemptsAreCounted ==
  ASSUME RunnerInv, graded # NotGraded, NEW guided, NEW model
  PROVE  /\ Attempted(guided, model) \in Nat
         /\ IsFiniteSet(FlagPart(guided, model))
         /\ Solved(guided, model) <= Attempted(guided, model)
<1> DEFINE names == {n \in DOMAIN graded : n[3] = guided /\ graded[n].model = model}
           counted == ScoreCount(guided, model)
           score == [n \in names |-> <<graded[n].task, graded[n].score, 1, graded[n].score>>]
           task == [c \in counted |-> c[1]]
<1>1. IsFiniteSet(DOMAIN graded)
  <2> DEFINE name == [f \in DOMAIN logs |-> Tail(f)]
  <2>1. IsFiniteSet(DOMAIN logs) /\ DOMAIN graded = {Tail(f) : f \in DOMAIN logs}
    BY DEF RunnerInv, LogsInv, GradedInv
  <2>2. DOMAIN graded = Range(name) /\ DOMAIN name = DOMAIN logs
    BY <2>1 DEF Range
  <2> HIDE DEF name
  <2> QED BY <2>1, <2>2, ImageIsFinite
<1>2. IsFiniteSet(names)
  BY <1>1, FS_Subset
<1>3. counted = Range(score)
  BY DEF ScoreCount, Read, Range
<1>4. FlagPart(guided, model) \subseteq Range(task)
  <2>1. ASSUME NEW t \in FlagPart(guided, model) PROVE \E c \in counted : c[1] = t
    <3>1. PICK l \in Read(guided) : l.model = model /\ t = l.task
      BY <2>1 DEF FlagPart
    <3>2. <<l.task, l.score, 1, l.score>> \in counted
      BY <3>1 DEF ScoreCount
    <3> QED BY <3>1, <3>2
  <2> QED BY <2>1 DEF Range
<1>5. IsFiniteSet(counted)
  <2>1. DOMAIN score = names
    OBVIOUS
  <2> HIDE DEF score, names, counted
  <2> QED BY <1>2, <1>3, <2>1, ImageIsFinite
<1>6. IsFiniteSet(Range(task)) /\ Cardinality(Range(task)) <= Cardinality(counted)
  <2>1. DOMAIN task = counted
    OBVIOUS
  <2> HIDE DEF task, counted
  <2> QED BY <1>5, <2>1, ImageIsFinite
<1> HIDE DEF task, counted
<1>7. /\ IsFiniteSet(FlagPart(guided, model))
      /\ Cardinality(FlagPart(guided, model)) <= Cardinality(Range(task))
  BY <1>4, <1>6, FS_Subset
<1>8. /\ Cardinality(counted) \in Nat /\ Cardinality(Range(task)) \in Nat
      /\ Cardinality(FlagPart(guided, model)) \in Nat
  BY <1>5, <1>6, <1>7, FS_CardinalityType
<1>9. Attempted(guided, model) = Cardinality(counted)
      /\ Solved(guided, model) = Cardinality(FlagPart(guided, model))
  BY DEF Attempted, Solved, counted
<1> QED BY <1>6, <1>7, <1>8, <1>9

\* Whichever of the files with its name stays, a task that an unguided log scores as
\* solved is credited to a model of that name (run_task.py: save_task_completion;
\* grade_benchmark.py: move_files, load_data, process_run_data).
THEOREM SuccessIsKept == Spec => []NoSuccessLost
<1>1. RunnerInv => NoSuccessLost
  <2> DEFINE AllLast == \A g \in DOMAIN logs : ~logs[g].guided => logs[g].subtask = Len(Answers)
             Credit(f, m) ==
               /\ BaseName(m) = BaseName(logs[f].model)
               /\ logs[f].task \in FlagSubmitted(FALSE, m)
               /\ Last(Answers) \in Braced /\ AllLast
                    => /\ logs[f].task \in FlagPart(FALSE, m)
                       /\ Solved(FALSE, m) \in 1..Attempted(FALSE, m)
  <2> SUFFICES ASSUME RunnerInv, graded # NotGraded, NEW f \in DOMAIN logs,
                      logs[f].score > 0, ~logs[f].guided
               PROVE  \E m \in Providers : Credit(f, m)
    BY DEF NoSuccessLost
  <2>1. /\ \A h \in DOMAIN logs : LogOK(logs[h]) /\ Tail(h) = FileName(logs[h])
        /\ DOMAIN graded = {Tail(h) : h \in DOMAIN logs}
        /\ \A n \in DOMAIN graded : \E h \in DOMAIN logs : Tail(h) = n /\ graded[n] = logs[h]
    BY DEF RunnerInv, LogsInv, GradedInv
  <2>2. PICK n \in DOMAIN graded, h \in DOMAIN logs :
          n = FileName(logs[f]) /\ n = FileName(logs[h]) /\ graded[n] = logs[h]
    BY <2>1
  <2>3. /\ n = <<BaseName(logs[f].model), Label(logs[f]), logs[f].guided, logs[f].task>>
        /\ n = <<BaseName(logs[h].model), Label(logs[h]), logs[h].guided, logs[h].task>>
    BY <2>2 DEF FileName
  <2>4. /\ BaseName(logs[h].model) = BaseName(logs[f].model) /\ Label(logs[h]) = Label(logs[f])
        /\ logs[h].guided = logs[f].guided /\ logs[h].task = logs[f].task
        /\ n[3] = logs[f].guided
    <3>1. \A a1, a2, a3, a4, b1, b2, b3, b4 :
            <<a1, a2, a3, a4>> = <<b1, b2, b3, b4>> =>
              a1 = b1 /\ a2 = b2 /\ a3 = b3 /\ a4 = b4 /\ <<a1, a2, a3, a4>>[3] = a3
      OBVIOUS
    <3> QED BY <2>3, <3>1
  <2>5. logs[h].score = 1 /\ logs[f].guided = FALSE /\ logs[h].guided = FALSE
    BY <2>1, <2>4 DEF Label, LogOK
  <2>6. PICK i \in DOMAIN logs[h].iterations :
          logs[h].iterations[i].value = Answers[logs[h].subtask]
    BY <2>1, <2>5 DEF LogOK
  <2>7. PICK m \in Providers : m = logs[h].model
    BY <2>1 DEF LogOK
  <2>8. logs[h] \in Read(FALSE)
    BY <2>2, <2>4, <2>5 DEF Read
  <2>9. logs[f].task \in FlagSubmitted(FALSE, m)
    <3>1. logs[h].iterations # <<>>
      BY <2>6
    <3> QED BY <2>4, <2>5, <2>7, <2>8, <3>1 DEF FlagSubmitted
  <2>10. ASSUME Last(Answers) \in Braced, AllLast
         PROVE  /\ logs[f].task \in FlagPart(FALSE, m)
                /\ Solved(FALSE, m) \in 1..Attempted(FALSE, m)
    <3>1. Last(Answers) = Answers[Len(Answers)] /\ FlagOf(logs[h]) = Answers[Len(Answers)]
          /\ logs[h].iterations[i].value = Answers[Len(Answers)]
      BY <2>5, <2>6, <2>10 DEF Last, FlagOf
    <3>2. logs[h].iterations[i].value \in Texts
      <4>1. logs[h].iterations \in Seq(Iteration)
        BY <2>1 DEF LogOK, Iterations
      <4>2. \A its \in Seq(Iteration) : \A j \in DOMAIN its : its[j] \in Iteration
        OBVIOUS
      <4> QED BY <2>6, <4>1, <4>2 DEF Iteration
    <3>3. DOMAIN PartIn = Texts
      BY RunnerAssumption, Zenon DEF Texts
    <3>4. \A v \in Braced \cap DOMAIN PartIn : v \in PartIn[v]
      BY RunnerAssumption, Zenon
    <3>5. FlagOf(logs[h]) \in PartIn[logs[h].iterations[i].value]
      BY <2>10, <3>1, <3>2, <3>3, <3>4
    <3>6. logs[f].task \in FlagPart(FALSE, m)
      BY <2>4, <2>6, <2>7, <2>8, <3>5 DEF FlagPart
    <3>7. /\ Attempted(FALSE, m) \in Nat /\ IsFiniteSet(FlagPart(FALSE, m))
          /\ Solved(FALSE, m) <= Attempted(FALSE, m)
      BY AttemptsAreCounted
    <3>8. Solved(FALSE, m) \in Nat /\ Solved(FALSE, m) # 0
      BY <3>6, <3>7, FS_CardinalityType, FS_EmptySet DEF Solved
    <3>9. \A s, a \in Nat : s <= a /\ s # 0 => s \in 1..a
      OBVIOUS
    <3> QED BY <3>6, <3>7, <3>8, <3>9, Zenon
  <2>11. BaseName(m) = BaseName(logs[f].model)
    BY <2>4, <2>7
  <2> QED BY <2>9, <2>10, <2>11
<1> QED BY <1>1, RunnerInvariance, PTL

\* The types, with the attempts of a call within the limit of its @retry
\* (non_helm.py, eval_agent.py).
THEOREM TypeCorrect == Spec => []TypeOK
<1> DEFINE InLimit == attempt \in 1..Attempts
<1>1. 1 \in 1..Attempts
  BY AgentAssumption
<1>2. Init => InLimit
  BY <1>1 DEF Init, FreshAgent
<1>3. InLimit /\ [Next]_vars => InLimit'
  <2> SUFFICES ASSUME InLimit, [Next]_vars PROVE InLimit'
    OBVIOUS
  <2>1. CASE CallFails
    BY <2>1, AgentAssumption DEF CallFails
  <2>2. CASE attempt' = 1 \/ attempt' = attempt
    BY <1>1, <2>2
  <2>3. CASE AgentNext
    BY <2>1, <2>2, <2>3 DEF AgentNext, BeginSubtask, BeginIteration, CallReturns, Raises, Answered,
                            Commanded, Rambled, Heard, GiveUp, GivenUp, callVars
  <2>4. CASE RunnerNext
    BY <2>2, <2>4 DEF RunnerNext, Start, StartWithoutLog, SetUp, Resume, ResumeFails, SetUpFails,
                      Save, CleanUp, Grade, agentVars, callVars
  <2>5. CASE UNCHANGED vars
    BY <2>2, <2>5 DEF vars, agentVars, callVars
  <2> QED BY <2>3, <2>4, <2>5 DEF Next, ProcessNext, Stop
<1>4. RunnerInv /\ InLimit => TypeOK
  BY DEF RunnerInv, RunInv, ChatInv, LogsInv, LogOK, TypeOK
<1> QED BY <1>2, <1>3, <1>4, RunnerInvariance, PTL DEF Spec

=============================================================================
