------------------------------ MODULE TreeAgents ------------------------------
(***************************************************************************)
(* Two earlier agents of the training, kept beside the one it uses:        *)
(* agent_treeexec.py ("tree") and agent_manualtags.py ("tag") under        *)
(* src/cybench/agent.  A process handles ONE reply of the model and ends,   *)
(* and its container with it: the reply {in}_{out}_{it}.out answers the    *)
(* prompt {in}_{it}.in, and the process writes the next prompt             *)
(* {out}_{it+1}.in, so that the prompts form a tree of conversations.      *)
(* Containers share one directory; several may run at once.                *)
(*                                                                         *)
(* A reply is its id; a conversation is the sequence of the ids of its     *)
(* replies.  A file is seen as soon as it is opened, and is blank until it *)
(* is filled: prompts and chats, which others read, are written in these   *)
(* two steps, the others in one.  The trainer that answers prompts is not  *)
(* in the repository and is external here; what a command prints and how a *)
(* text is cut to its length are abstracted.                               *)
(***************************************************************************)
EXTENDS Integers, Sequences, FiniteSets, SequencesExt

CONSTANTS
  MaxReplies,     \* bound: how often the trainer replies
  Teams,          \* [variant |-> "tree" or "tag", agents |-> the containers,
                  \*  kinds |-> what the model replies, of Kinds,
                  \*  replies |-> bound: how often the trainer replies to this team,
                  \*  kills |-> bound: how many of its processes are killed]
  MaxIterations   \* --max_iterations

Ids == 1..MaxReplies  \* the ids of replies, which the trainer draws at random, in order
\* A reply answers rightly or wrongly, has a command, has neither, or its text has no
\* marker "<|im_start|>assistant" at all, neither in the prompt it begins with.
Kinds == {"answer", "wrong", "command", "nothing", "bare"}
Root == <<0, 0>>      \* _0.in
NoReply == [in |-> 0, out |-> 0, it |-> 0, kind |-> "nothing", prompt |-> <<>>]
NoList == {NoReply}   \* there is no processed_files.txt
Blank == <<0>>        \* what is in a file that is open and not yet filled

ASSUME TreeAssumption ==
  /\ MaxIterations \in Nat \ {0}
  /\ MaxReplies \in Nat
  /\ \A t \in Teams :
       /\ t.variant \in {"tree", "tag"} /\ t.kinds \subseteq Kinds
       /\ t.replies \in 0..MaxReplies /\ t.kills \in Nat

VARIABLES
  team,       \* the variant, and its containers
  prompts,    \* {id}_{it}.in    : node -> conversation in the prompt
  chats,      \* {id}_{it}.chat  : node -> conversation saved beside it (tree only)
  replies,    \* the *.out files
  processed,  \* processed_files.txt, or NoList (tree only)
  commands,   \* {id}_{it}_commands.txt : node -> commands
  grades,     \* {id}_{it}_grade.txt (tree), _score.txt (tag) : node -> tenths
  scores,     \* {id}_{it}_score.txt (tree) : node -> 0 or 10
  kills,      \* how many processes were killed
  pc,         \* container -> where its process is
  listed,     \* container -> processed_files.txt as this process read it
  reply,      \* container -> the reply it took
  talk,       \* container -> its chat_chain
  before,     \* container -> prev_commands, or the empty sequence
  env,        \* container -> the commands run in it since it started
  felt        \* node -> the commands whose effects its last observation shows

files == <<prompts, chats, replies, processed, commands, grades, scores, felt>>
locals == <<listed, reply, talk, before>>
vars == <<team, files, kills, pc, locals, env>>

Tree == team.variant = "tree"
Node(r) == <<r.out, r.it>>
Child(r) == <<r.out, r.it + 1>>
Put(f, k, v) == [x \in DOMAIN f \cup {k} |-> IF x = k THEN v ELSE f[x]]

Init ==
  /\ team \in Teams
  /\ prompts = <<>> /\ chats = <<>> /\ replies = {} /\ processed = NoList
  /\ commands = <<>> /\ grades = <<>> /\ scores = <<>> /\ felt = <<>>
  /\ kills = 0
  /\ pc = [a \in team.agents |-> "start"]
  /\ listed = [a \in team.agents |-> {}]
  /\ reply = [a \in team.agents |-> NoReply]
  /\ talk = [a \in team.agents |-> <<>>]
  /\ before = [a \in team.agents |-> <<>>]
  /\ env = [a \in team.agents |-> <<>>]

-----------------------------------------------------------------------------
(* The trainer: it answers any prompt that is filled, as often as it likes, with a reply *)
(* of a new id; the reply's text begins with the prompt as it was then.  (Every prompt   *)
(* the tag agent writes, except the first, ends with the marker.)                        *)
Answer ==
  \E n \in DOMAIN prompts, i \in 1..team.replies, k \in team.kinds :
    /\ i = Cardinality(replies) + 1
    /\ prompts[n] # Blank
    /\ k = "bare" => Tree \/ n = Root
    /\ replies' = replies \cup {[in |-> n[1], out |-> i, it |-> n[2], kind |-> k,
                                 prompt |-> prompts[n]]}
    /\ UNCHANGED <<team, prompts, chats, processed, commands, grades, scores, felt, kills, pc, locals, env>>

-----------------------------------------------------------------------------
(* One process. *)

Go(a, from, to) == pc[a] = from /\ pc' = [pc EXCEPT ![a] = to] /\ UNCHANGED kills

\* The first prompt is written unless the file is there.
FindRoot(a) ==
  /\ Go(a, "start", IF Root \in DOMAIN prompts THEN "list" ELSE "open")
  /\ UNCHANGED <<team, files, locals, env>>

\* What a process writes: the first prompt while it has no reply, then the next one.
\* It holds the conversation so far.
Target(a) == IF reply[a] = NoReply THEN Root ELSE Child(reply[a])
Written(a) == IF reply[a] = NoReply THEN "list" ELSE "end"

\* write_in_file, and the first prompt: the file is opened, which empties it ...
OpenPrompt(a) ==
  /\ Go(a, "open", "fill")
  /\ prompts' = Put(prompts, Target(a), Blank)
  /\ UNCHANGED <<team, chats, replies, processed, commands, grades, scores, felt, locals, env>>

\* ... and written under its lock.
FillPrompt(a) ==
  /\ Go(a, "fill", IF Tree THEN "chat" ELSE Written(a))
  /\ prompts' = Put(prompts, Target(a), talk[a])
  /\ UNCHANGED <<team, chats, replies, processed, commands, grades, scores, felt, locals, env>>

\* The tree agent then opens the file of the chat it was made of ...
OpenChat(a) ==
  /\ Go(a, "chat", "save")
  /\ chats' = Put(chats, Target(a), Blank)
  /\ UNCHANGED <<team, prompts, replies, processed, commands, grades, scores, felt, locals, env>>

\* ... which loads with a reply once it is written.
SaveChat(a) ==
  /\ Go(a, "save", Written(a))
  /\ chats' = Put(chats, Target(a), talk[a])
  /\ UNCHANGED <<team, prompts, replies, processed, commands, grades, scores, felt, locals, env>>

\* The tree agent looks whether there is a list of the replies already taken ...
FindList(a) ==
  /\ Go(a, "list", IF ~Tree THEN "wait" ELSE IF processed = NoList THEN "create" ELSE "read")
  /\ UNCHANGED <<team, files, locals, env>>

\* ... creates an empty one if there was none, whatever another wrote in the meantime ...
CreateList(a) ==
  /\ Go(a, "create", "read")
  /\ processed' = {}
  /\ UNCHANGED <<team, prompts, chats, replies, commands, grades, scores, felt, locals, env>>

\* ... and reads it, once, before the wait.
ReadList(a) ==
  /\ Go(a, "read", "wait")
  /\ listed' = [listed EXCEPT ![a] = processed]
  /\ UNCHANGED <<team, files, reply, talk, before, env>>

\* Mutant of TreeEligible: the last iteration is never taken.
TreeEligibleEarly(a, r) == r.it + 1 < MaxIterations /\ r \notin listed[a]
\* agent_treeexec.py: a reply of an allowed iteration that is not in the list.
TreeEligible(a, r) == r.it < MaxIterations /\ r \notin listed[a]
\* agent_manualtags.py: a reply without a score.
TagEligible(r) == Node(r) \notin DOMAIN grades

\* Any eligible reply is taken (random.choice); the tree agent notes it in the list.
Take(a) ==
  /\ Go(a, "wait", IF Tree THEN "note" ELSE "load")
  /\ \E r \in replies :
       /\ IF Tree THEN TreeEligible(a, r) ELSE TagEligible(r)
       /\ reply' = [reply EXCEPT ![a] = r]
  /\ UNCHANGED <<team, files, listed, talk, before, env>>

Note(a) ==
  /\ Go(a, "note", "load")
  /\ processed' = processed \cup {reply[a]}
  /\ UNCHANGED <<team, prompts, chats, replies, commands, grades, scores, felt, locals, env>>

\* The file with the commands so far is looked for under the iteration of this reply.
Before(r) == IF <<r.in, r.it>> \in DOMAIN commands THEN commands[<<r.in, r.it>>] ELSE <<>>

\* The tree agent goes on from the chat saved with the prompt.  The tag agent goes on
\* from the text before the last marker: the prompt, with a part of the reply if that
\* has a marker of its own.  Without a marker that is the whole text, and what it made
\* out of the reply follows: the same text again, or its beginning.
Loadable(r) == <<r.in, r.it>> \in DOMAIN chats /\ chats[<<r.in, r.it>>] # Blank
TreeTalk(r) == Append(chats[<<r.in, r.it>>], r.out)
TagTalks(r) ==
  LET text == Append(r.prompt, r.out)
  IN  IF r.kind = "bare" THEN {text, text \o text} ELSE {r.prompt, text}
Talks(r) == IF Tree THEN {TreeTalk(r)} ELSE TagTalks(r)

\* Mutant of Load: the chat is the one in memory, not the one saved with the prompt.
LoadNothing(a) ==
  /\ Go(a, "load", "heard")
  /\ talk' = [talk EXCEPT ![a] = <<reply[a].out>>]
  /\ before' = [before EXCEPT ![a] = Before(reply[a])]
  /\ UNCHANGED <<team, files, listed, reply, env>>
Load(a) ==
  LET r == reply[a]
  IN  /\ Tree => Loadable(r) /\ r.kind # "bare"
      /\ Go(a, "load", "heard")
      /\ \E t \in Talks(r) : talk' = [talk EXCEPT ![a] = t]
      /\ before' = [before EXCEPT ![a] = Before(r)]
      /\ UNCHANGED <<team, files, listed, reply, env>>

\* The tree agent dies when the chat is not there yet, or still blank, or when the reply
\* holds no "<|im_start|>assistant": the name "response" is then unbound.
LoadFails(a) ==
  /\ Tree
  /\ ~Loadable(reply[a]) \/ reply[a].kind = "bare"
  /\ Go(a, "load", "failed")
  /\ UNCHANGED <<team, files, locals, env>>

\* What the parser sees.  The tag agent leaves the marker at the head of a reply, and
\* remove_hallucinations cuts the text off at the first marker: nothing of the reply is
\* left.  Without a marker it sees the prompt with the reply, whose format it may take
\* for an answer or a command.
Seen(r) ==
  IF Tree THEN {r.kind} ELSE IF r.kind = "bare" THEN Kinds \ {"bare"} ELSE {"nothing"}

\* Tenths of a point: 0.8 for a command the subtask lists, 0.2 for another; 1 or 0.1 for
\* an answer; nothing for neither.
Grade(kind, k) ==
  CASE kind = "answer" -> k = 10
    [] kind = "wrong" -> k = 1
    [] kind = "command" -> k \in {2, 8}
    [] OTHER -> k = 0

\* The reply is graded: an answer ends the process, a command is run, and anything else
\* leads to the next prompt.
Judge(a) ==
  \E kind \in Seen(reply[a]) :
    /\ Go(a, "heard", CASE kind \in {"answer", "wrong"} -> "answered"
                        [] kind = "command" -> "commanded"
                        [] OTHER -> "open")
    /\ \E k \in 0..10 : Grade(kind, k) /\ grades' = Put(grades, Node(reply[a]), k)
    /\ UNCHANGED <<team, prompts, chats, replies, processed, commands, scores, felt, locals, env>>

\* The tree agent closes an answered reply with a score of 1.0, right or wrong.
CloseAnswered(a) ==
  /\ Go(a, "answered", "stop")
  /\ scores' = IF Tree THEN Put(scores, Node(reply[a]), 10) ELSE scores
  /\ UNCHANGED <<team, prompts, chats, replies, processed, commands, grades, felt, locals, env>>

\* The command joins the file of this reply's commands ...
NoteCommand(a) ==
  /\ Go(a, "commanded", "run")
  /\ commands' = Put(commands, Node(reply[a]), Append(before[a], reply[a].out))
  /\ UNCHANGED <<team, prompts, chats, replies, processed, grades, scores, felt, locals, env>>

\* ... and is run, after those that came before it.
RunCommands(a) ==
  /\ Go(a, "run", "open")
  /\ env' = [env EXCEPT ![a] = @ \o Append(before[a], reply[a].out)]
  /\ felt' = Put(felt, Child(reply[a]), env'[a])
  /\ UNCHANGED <<team, prompts, chats, replies, processed, commands, grades, scores, locals>>

\* The tree agent closes the last iteration with a score of 0.0.
CloseLast(a) ==
  /\ Go(a, "end", "stop")
  /\ scores' = IF Tree /\ reply[a].it + 1 >= MaxIterations
               THEN Put(scores, Node(reply[a]), 0) ELSE scores
  /\ UNCHANGED <<team, prompts, chats, replies, processed, commands, grades, felt, locals, env>>

\* Its process is killed, wherever it is.
Kill(a) ==
  /\ pc[a] \notin {"stop", "failed", "killed"} /\ kills < team.kills
  /\ pc' = [pc EXCEPT ![a] = "killed"] /\ kills' = kills + 1
  /\ UNCHANGED <<team, files, locals, env>>

\* The next process begins.
Ended == {"stop", "failed", "killed"}
Fresh(a) ==
  /\ pc[a] \in Ended /\ pc' = [pc EXCEPT ![a] = "start"]
  /\ listed' = [listed EXCEPT ![a] = {}] /\ reply' = [reply EXCEPT ![a] = NoReply]
  /\ talk' = [talk EXCEPT ![a] = <<>>] /\ before' = [before EXCEPT ![a] = <<>>]

\* Mutant of Relaunch: the container is used again.
RelaunchSame(a) == Fresh(a) /\ UNCHANGED <<team, files, kills, env>>
\* The launcher starts the next process, in a new container.
Relaunch(a) ==
  /\ Fresh(a)
  /\ env' = [env EXCEPT ![a] = <<>>]
  /\ UNCHANGED <<team, files, kills>>

Step(a) ==
  \/ FindRoot(a) \/ OpenPrompt(a) \/ FillPrompt(a) \/ OpenChat(a) \/ SaveChat(a)
  \/ FindList(a) \/ CreateList(a) \/ ReadList(a) \/ Note(a) \/ Load(a) \/ LoadFails(a)
  \/ Judge(a) \/ CloseAnswered(a) \/ NoteCommand(a) \/ RunCommands(a)
  \/ CloseLast(a) \/ Relaunch(a)
Next == Answer \/ \E a \in team.agents : Step(a) \/ Take(a) \/ Kill(a)

\* Containers run; the choice of a reply is random, so none is passed over for ever.
TakeOf(r) == \E a \in team.agents : Take(a) /\ reply'[a] = r
Fairness ==
  /\ \A t \in Teams : \A a \in t.agents : WF_vars(a \in team.agents /\ Step(a))
  /\ \A i \in Ids : SF_vars(\E r \in replies : r.out = i /\ TakeOf(r))
Spec == Init /\ [][Next]_vars /\ Fairness

-----------------------------------------------------------------------------
(* Properties. *)

\* A prompt of the tree agent holds the conversation that led to it (before the window
\* and the length cut it), once it is filled: every reply in it answered the prompt
\* before it, whatever the order in which processes took them.  A prompt of the tag
\* agent, which drops replies, holds nothing but what the one before it held and the
\* reply to that one.
ConversationsKept ==
  \A n \in {m \in DOMAIN prompts : prompts[m] # Blank} :
    /\ Tree => /\ Len(prompts[n]) = n[2]
               /\ n # Root => Last(prompts[n]) = n[1]
               /\ \A k \in 1..n[2] : \E r \in replies :
                    /\ r.out = prompts[n][k] /\ r.it = k - 1
                    /\ r.in = IF k = 1 THEN 0 ELSE prompts[n][k - 1]
    /\ ~Tree /\ n # Root =>
         \E r \in replies : n = Child(r) /\ Range(prompts[n]) \subseteq {r.out} \cup Range(r.prompt)

\* No command of another conversation has run in the container a command runs in.
EnvironmentsFresh ==
  \A n \in DOMAIN felt : Range(felt[n]) \subseteq
     {n[1]} \cup UNION {Range(r.prompt) : r \in {r \in replies : r.out = n[1]}}

\* The process that took the reply died of a chat that was not there.
TakenTooEarly(i) == \E a \in team.agents : pc[a] = "failed" /\ reply[a].out = i
\* The process that took the reply was killed, and the list says that it was taken.
DiedWithIt(i) == \E a \in team.agents : pc[a] = "killed" /\ reply[a].out = i /\ reply[a] \in processed

\* Every reply of an allowed iteration is graded in the end, unless the tree agent cannot
\* read it.  That agent notes a reply before it judges it, so two things lose one: its
\* process is killed in between; or, where a second container runs or a process was
\* killed, the chat is not there yet when the reply is taken, since it is saved after
\* the prompt (agent_treeexec.py:561-569, 637, 654).  One container that is never killed
\* grades everything.
EveryReplyGraded ==
  \A i \in Ids :
    <>(\E r \in replies : r.out = i /\ r.it < MaxIterations /\ ~(Tree /\ r.kind = "bare"))
      => <>(\/ \E n \in DOMAIN grades : n[1] = i
            \/ Tree /\ DiedWithIt(i)
            \/ Tree /\ (Cardinality(team.agents) > 1 \/ kills > 0) /\ TakenTooEarly(i))

=============================================================================
