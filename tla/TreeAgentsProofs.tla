--------------------------- MODULE TreeAgentsProofs ---------------------------
(***************************************************************************)
(* Proofs about TreeAgents, for any number of containers, replies and      *)
(* iterations and kills: every prompt of the tree agent is the whole        *)
(* conversation that led to it, one of the tag agent holds nothing else,    *)
(* and the environment a command ran in has seen no other command.          *)
(***************************************************************************)
EXTENDS TreeAgents, FiniteSetTheorems, TLAPS

-----------------------------------------------------------------------------
(* The inductive invariant. *)

Answers(r, c, k) ==
  /\ r.out = c[k] /\ r.it = k - 1
  /\ r.in = IF k = 1 THEN 0 ELSE c[k - 1]

\* c is the conversation at node n of the tree, made of replies of the set R.
Conversation(R, c, n) ==
  /\ c \in Seq(Nat) /\ Len(c) = n[2]
  /\ n # Root => Len(c) > 0 /\ c[Len(c)] = n[1]
  /\ \A k \in 1..n[2] : \E r \in R : Answers(r, c, k)

\* A node of the tree: the root, or what a reply of R leads to.
Placed(R, n) == n \in Nat \X Nat /\ (n = Root \/ \E q \in R : n = Child(q))

\* What an agent of variant v may write at node n.
Fits(v, R, c, n) ==
  /\ c \in Seq(Nat)
  /\ v = "tree" => Conversation(R, c, n)
  /\ v # "tree" /\ n # Root =>
       \E r \in R : n = Child(r) /\ Range(c) \subseteq {r.out} \cup Range(r.prompt)

\* An id names one reply, and a reply answers a prompt of the tree.
RepliesInv ==
  /\ IsFiniteSet(replies)
  /\ \A r \in replies :
       /\ r.in \in Nat /\ r.it \in Nat /\ r.out \in 1..Cardinality(replies)
       /\ Placed(replies, <<r.in, r.it>>)
       /\ Fits(team.variant, replies, r.prompt, <<r.in, r.it>>)
  /\ \A r, s \in replies : r.out = s.out => r = s

\* What is in a file of prompts or chats, unless it is blank, fits its node.
Filed(v, R, f) ==
  \A n \in DOMAIN f : Placed(R, n) /\ (f[n] = Blank \/ Fits(v, R, f[n], n))
FilesInv == Filed(team.variant, replies, prompts) /\ Filed(team.variant, replies, chats)

\* Commands are filed under the node of the reply that has them, and an observation
\* shows that one command: those before it are looked for where none are filed.
CommandsInv ==
  /\ \A n \in DOMAIN commands : \E r \in replies : n = Node(r)
  /\ \A n \in DOMAIN felt : felt[n] = <<n[1]>>

\* A container at "at" with its locals: what it holds belongs to the reply it took, and
\* until it runs its command it is as it started.
Untaken == {"start", "list", "create", "read", "wait"}
Unheard == {"note", "load"}
Unrun == {"heard", "commanded", "run"}
Writing == {"open", "fill", "chat", "save"}
Over == {"answered", "end", "stop", "failed", "killed"}
Holds(v, R, r, t) == r \in R /\ r # NoReply /\ Fits(v, R, t, Child(r))
HoldsNone(r, t, e) == r = NoReply /\ t = <<>> /\ e = <<>>
ContainerInv(v, R, at, r, t, b, e) ==
  /\ at \in Untaken \cup Unheard \cup Unrun \cup Writing \cup Over
  /\ at \in Untaken => HoldsNone(r, t, e)
  /\ at \in Unheard => r \in R /\ e = <<>>
  /\ at \in Unrun => Holds(v, R, r, t) /\ b = <<>> /\ e = <<>>
  /\ at \in Writing => Holds(v, R, r, t) \/ HoldsNone(r, t, e)

ContainersInv ==
  /\ DOMAIN pc = team.agents /\ DOMAIN reply = team.agents /\ DOMAIN talk = team.agents
  /\ DOMAIN before = team.agents /\ DOMAIN env = team.agents
  /\ \A a \in team.agents :
       ContainerInv(team.variant, replies, pc[a], reply[a], talk[a], before[a], env[a])

TreeInv == RepliesInv /\ FilesInv /\ CommandsInv /\ ContainersInv

-----------------------------------------------------------------------------
(* Conversations. *)

\* More replies leave a conversation what it is.
LEMMA Grows ==
  ASSUME NEW R, NEW S, R \subseteq S, NEW c, NEW n, Conversation(R, c, n)
  PROVE  Conversation(S, c, n)
BY DEF Conversation

LEMMA FitsGrows ==
  ASSUME NEW R, NEW S, R \subseteq S, NEW v, NEW c, NEW n, Fits(v, R, c, n)
  PROVE  Fits(v, S, c, n)
BY Grows DEF Fits

LEMMA RootFits ==
  ASSUME NEW R, NEW v
  PROVE  Fits(v, R, <<>>, Root) /\ Placed(R, Root)
BY DEF Fits, Placed, Conversation, Root

\* A conversation that a reply to its prompt continues is one.
LEMMA Continues ==
  ASSUME NEW R, NEW r \in R, NEW c, r.in \in Nat, r.it \in Nat, r.out \in Nat,
         Conversation(R, c, <<r.in, r.it>>)
  PROVE  Conversation(R, Append(c, r.out), Child(r)) /\ Child(r) \in Nat \X Nat
<1> DEFINE d == Append(c, r.out)
<1>1. /\ c \in Seq(Nat) /\ Len(c) = r.it
      /\ <<r.in, r.it>> # Root => Len(c) > 0 /\ c[Len(c)] = r.in
      /\ \A k \in 1..r.it : \E s \in R : Answers(s, c, k)
  BY DEF Conversation
<1>2. /\ d \in Seq(Nat) /\ Len(d) = r.it + 1 /\ d[r.it + 1] = r.out
      /\ \A k \in 1..r.it : d[k] = c[k]
  BY <1>1
<1>3. Child(r) = <<r.out, r.it + 1>> /\ Child(r)[1] = r.out /\ Child(r)[2] = r.it + 1
  BY DEF Child
<1>4. ASSUME NEW k \in 1..(r.it + 1) PROVE \E s \in R : Answers(s, d, k)
  <2>1. CASE k <= r.it
    <3>1. PICK s \in R : Answers(s, c, k)
      BY <1>1, <2>1
    <3>2. d[k] = c[k] /\ (k # 1 => d[k - 1] = c[k - 1])
      BY <1>1, <1>2, <2>1
    <3> QED
      BY <3>1, <3>2 DEF Answers
  <2>2. CASE k = r.it + 1
    <3>1. CASE k = 1
      <4>1. r.it = 0 /\ r.in = 0
        BY <1>1, <2>2, <3>1 DEF Root
      <4> QED
        BY <1>2, <2>2, <3>1, <4>1 DEF Answers
    <3>2. CASE k # 1
      <4>1. r.it > 0 /\ <<r.in, r.it>> # Root
        BY <2>2, <3>2 DEF Root
      <4>2. d[k - 1] = r.in
        BY <1>1, <1>2, <2>2, <4>1
      <4> QED
        BY <1>2, <2>2, <3>2, <4>2 DEF Answers
    <3> QED
      BY <3>1, <3>2
  <2> QED
    BY <2>1, <2>2
<1> HIDE DEF d
<1>5. Conversation(R, d, Child(r))
  BY <1>2, <1>3, <1>4 DEF Conversation
<1> QED
  BY <1>3, <1>5 DEF d

LEMMA NumbersAreNat ==
  ASSUME RepliesInv, NEW r \in replies
  PROVE  r.in \in Nat /\ r.it \in Nat /\ r.out \in Nat /\ r.out > 0 /\ Child(r) \in Nat \X Nat
<1>1. Cardinality(replies) \in Nat /\ r.out \in 1..Cardinality(replies)
  BY FS_CardinalityType DEF RepliesInv
<1>2. r.out \in Nat /\ r.out > 0
  BY <1>1
<1>3. r.in \in Nat /\ r.it \in Nat
  BY DEF RepliesInv
<1>4. Child(r) = <<r.out, r.it + 1>>
  BY DEF Child
<1> QED
  BY <1>2, <1>3, <1>4

LEMMA ChildPlaced ==
  ASSUME RepliesInv, NEW r \in replies
  PROVE  Placed(replies, Child(r)) /\ Child(r) # Root /\ r # NoReply
<1>1. r.it \in Nat /\ r.out > 0 /\ Child(r) \in Nat \X Nat /\ r.out \in Nat
  BY NumbersAreNat
<1>2. Child(r) # Root
  BY <1>1 DEF Child, Root
<1>3. r # NoReply
  BY <1>1 DEF NoReply
<1> QED
  BY <1>1, <1>2, <1>3 DEF Placed

\* A reply's number is one more than that of the reply it goes on from, so that no
\* commands are filed where the next reply looks for them.
LEMMA NothingBefore ==
  ASSUME RepliesInv, CommandsInv, NEW r \in replies
  PROVE  Before(r) = <<>>
<1>1. SUFFICES ASSUME <<r.in, r.it>> \in DOMAIN commands PROVE FALSE
  BY DEF Before
<1>2. PICK s \in replies : <<r.in, r.it>> = Node(s)
  BY <1>1 DEF CommandsInv
<1>3. s.out = r.in /\ s.it = r.it /\ s.out > 0 /\ r.it \in Nat
  <2>1. <<r.in, r.it>> = <<s.out, s.it>>
    BY <1>2 DEF Node
  <2> QED
    BY <2>1, NumbersAreNat
<1>4. <<r.in, r.it>> # Root
  BY <1>3 DEF Root
<1>5. PICK q \in replies : <<r.in, r.it>> = <<q.out, q.it + 1>>
  BY <1>4 DEF RepliesInv, Placed, Child
<1>6. q.out = s.out /\ s.it = q.it + 1 /\ q.it \in Nat
  BY <1>3, <1>5, NumbersAreNat
<1>7. q = s
  BY <1>6 DEF RepliesInv
<1> QED
  BY <1>6, <1>7

-----------------------------------------------------------------------------
(* Steps. *)

\* What a step of container a leaves of the others when it takes no new reply in.
LEMMA Others ==
  ASSUME TreeInv, NEW a \in team.agents, UNCHANGED <<team, replies>>,
         NEW p, pc' = [pc EXCEPT ![a] = p],
         \A b \in team.agents \ {a} :
           reply'[b] = reply[b] /\ talk'[b] = talk[b] /\ before'[b] = before[b] /\ env'[b] = env[b],
         DOMAIN reply' = team.agents, DOMAIN talk' = team.agents,
         DOMAIN before' = team.agents, DOMAIN env' = team.agents,
         ContainerInv(team.variant, replies, p, reply'[a], talk'[a], before'[a], env'[a])
  PROVE  ContainersInv'
<1>1. DOMAIN pc' = team.agents /\ pc'[a] = p /\ \A b \in team.agents \ {a} : pc'[b] = pc[b]
  BY DEF TreeInv, ContainersInv
<1>2. ASSUME NEW b \in team.agents
      PROVE  ContainerInv(team'.variant, replies', pc'[b], reply'[b], talk'[b], before'[b], env'[b])
  <2>1. CASE b = a
    BY <1>1, <2>1
  <2>2. CASE b # a
    BY <1>1, <2>2 DEF TreeInv, ContainersInv
  <2> QED
    BY <2>1, <2>2
<1> QED
  BY <1>1, <1>2 DEF ContainersInv

\* A step that only moves on.
LEMMA Moves ==
  ASSUME TreeInv, NEW a \in team.agents, UNCHANGED <<team, replies, reply, talk, before, env>>,
         NEW p, pc' = [pc EXCEPT ![a] = p],
         ContainerInv(team.variant, replies, p, reply[a], talk[a], before[a], env[a])
  PROVE  ContainersInv'
BY Others DEF TreeInv, ContainersInv

LEMMA AnswerInv == TreeInv /\ Answer => TreeInv'
<1> SUFFICES ASSUME TreeInv, Answer PROVE TreeInv'
  OBVIOUS
<1>1. PICK n \in DOMAIN prompts, i \in 1..team.replies, k \in team.kinds :
        /\ i = Cardinality(replies) + 1 /\ prompts[n] # Blank
        /\ replies' = replies \cup {[in |-> n[1], out |-> i, it |-> n[2], kind |-> k,
                                     prompt |-> prompts[n]]}
        /\ UNCHANGED <<team, prompts, chats, processed, commands, grades, scores, felt, pc, locals, env>>
  BY DEF Answer
<1> DEFINE new == [in |-> n[1], out |-> i, it |-> n[2], kind |-> k, prompt |-> prompts[n]]
<1>2. /\ new.in = n[1] /\ new.out = i /\ new.it = n[2] /\ new.prompt = prompts[n]
      /\ replies' = replies \cup {new}
  BY <1>1
<1> HIDE DEF new
<1>3. /\ Placed(replies, n) /\ Fits(team.variant, replies, prompts[n], n)
      /\ IsFiniteSet(replies) /\ Cardinality(replies) \in Nat
      /\ \A r \in replies : r.out \in 1..Cardinality(replies)
  BY <1>1, FS_CardinalityType DEF TreeInv, FilesInv, Filed, RepliesInv
<1>4. new \notin replies
  BY <1>1, <1>2, <1>3
<1>5. IsFiniteSet(replies') /\ Cardinality(replies') = i
  BY <1>1, <1>2, <1>3, <1>4, FS_AddElement
<1>6. /\ \A v, c, m : Fits(v, replies, c, m) => Fits(v, replies', c, m)
      /\ \A m : Placed(replies, m) => Placed(replies', m)
  BY <1>2, FitsGrows DEF Placed
<1>7. RepliesInv'
  <2>1. ASSUME NEW r \in replies'
        PROVE  /\ r.in \in Nat /\ r.it \in Nat /\ r.out \in 1..Cardinality(replies')
               /\ Placed(replies', <<r.in, r.it>>)
               /\ Fits(team'.variant, replies', r.prompt, <<r.in, r.it>>)
    <3>1. CASE r = new
      <4>1. <<n[1], n[2]>> = n /\ n[1] \in Nat /\ n[2] \in Nat
        BY <1>3 DEF Placed
      <4>2. <<r.in, r.it>> = n /\ r.prompt = prompts[n] /\ r.out = i /\ i \in Nat /\ i > 0
        BY <1>1, <1>2, <1>3, <3>1, <4>1
      <4>3. Placed(replies', n) /\ Fits(team.variant, replies', prompts[n], n)
        BY <1>3, <1>6
      <4> QED
        BY <1>1, <1>2, <1>5, <3>1, <4>1, <4>2, <4>3
    <3>2. CASE r \in replies
      <4>1. r.out \in 1..i
        BY <1>1, <1>3, <3>2
      <4> QED
        BY <1>1, <1>5, <1>6, <3>2, <4>1 DEF TreeInv, RepliesInv
    <3> QED
      BY <1>2, <3>1, <3>2
  <2>2. ASSUME NEW r \in replies', NEW s \in replies', r.out = s.out PROVE r = s
    <3>1. CASE r = new \/ s = new
      BY <1>1, <1>2, <1>3, <2>2, <3>1
    <3>2. CASE r \in replies /\ s \in replies
      BY <2>2, <3>2 DEF TreeInv, RepliesInv
    <3> QED
      BY <1>2, <3>1, <3>2
  <2> QED
    BY <1>5, <2>1, <2>2 DEF RepliesInv
<1>8. FilesInv'
  BY <1>1, <1>6 DEF TreeInv, FilesInv, Filed
<1>9. CommandsInv'
  BY <1>1, <1>2 DEF TreeInv, CommandsInv, Node
<1>10. ContainersInv'
  <2>1. UNCHANGED <<team, pc, reply, talk, before, env>>
    BY <1>1 DEF locals
  <2>2. ASSUME NEW at, NEW r, NEW t, NEW b, NEW e, ContainerInv(team.variant, replies, at, r, t, b, e)
        PROVE  ContainerInv(team.variant, replies', at, r, t, b, e)
    BY <1>2, <1>6, <2>2 DEF ContainerInv, Holds
  <2> QED
    BY <2>1, <2>2 DEF TreeInv, ContainersInv
<1> QED
  BY <1>7, <1>8, <1>9, <1>10 DEF TreeInv

\* A file of prompts or chats that is opened or filled stays one.
LEMMA PutFiled ==
  ASSUME NEW v, NEW R, NEW f, Filed(v, R, f), NEW m, Placed(R, m),
         NEW c, c = Blank \/ Fits(v, R, c, m)
  PROVE  Filed(v, R, Put(f, m, c))
BY DEF Put, Filed

\* What the process at hand has fits the node it writes.
LEMMA TargetFits ==
  ASSUME TreeInv, NEW a \in team.agents, pc[a] \in Writing
  PROVE  /\ Placed(replies, Target(a)) /\ Fits(team.variant, replies, talk[a], Target(a))
         /\ \A p \in Writing \cup {Written(a)} :
              ContainerInv(team.variant, replies, p, reply[a], talk[a], before[a], env[a])
<1>1. \/ Holds(team.variant, replies, reply[a], talk[a])
      \/ HoldsNone(reply[a], talk[a], env[a])
  BY DEF TreeInv, ContainersInv, ContainerInv
<1>2. CASE Holds(team.variant, replies, reply[a], talk[a])
  <2>1. Target(a) = Child(reply[a]) /\ Written(a) = "end" /\ reply[a] \in replies
    BY <1>2 DEF Holds, Target, Written
  <2>2. Placed(replies, Target(a)) /\ Fits(team.variant, replies, talk[a], Target(a))
    BY <1>2, <2>1, ChildPlaced DEF TreeInv, Holds
  <2> QED
    BY <1>2, <2>1, <2>2 DEF ContainerInv, Untaken, Unheard, Unrun, Writing, Over
<1>3. CASE HoldsNone(reply[a], talk[a], env[a])
  <2>1. Target(a) = Root /\ Written(a) = "list" /\ talk[a] = <<>>
    BY <1>3 DEF HoldsNone, Target, Written
  <2>2. Placed(replies, Target(a)) /\ Fits(team.variant, replies, talk[a], Target(a))
    BY <2>1, RootFits
  <2> QED
    BY <1>3, <2>1, <2>2 DEF ContainerInv, Untaken, Unheard, Unrun, Writing, Over
<1> QED
  BY <1>1, <1>2, <1>3

\* The prompts and the chats grow by what the process at hand has.
LEMMA WritesInv ==
  ASSUME TreeInv, NEW a \in team.agents,
         OpenPrompt(a) \/ FillPrompt(a) \/ OpenChat(a) \/ SaveChat(a)
  PROVE  TreeInv'
<1>1. /\ pc[a] \in Writing
      /\ \E p \in Writing \cup {Written(a)} : pc' = [pc EXCEPT ![a] = p]
      /\ \E c \in {Blank, talk[a]} :
           \/ prompts' = Put(prompts, Target(a), c) /\ UNCHANGED chats
           \/ chats' = Put(chats, Target(a), c) /\ UNCHANGED prompts
      /\ UNCHANGED <<team, replies, commands, felt, reply, talk, before, env>>
  BY DEF OpenPrompt, FillPrompt, OpenChat, SaveChat, Go, locals, Writing
<1>2. /\ Placed(replies, Target(a)) /\ Fits(team.variant, replies, talk[a], Target(a))
      /\ \A p \in Writing \cup {Written(a)} :
           ContainerInv(team.variant, replies, p, reply[a], talk[a], before[a], env[a])
  BY <1>1, TargetFits
<1>3. FilesInv'
  BY <1>1, <1>2, PutFiled DEF TreeInv, FilesInv
<1>4. ContainersInv'
  BY <1>1, <1>2, Moves
<1> QED
  BY <1>1, <1>3, <1>4 DEF TreeInv, RepliesInv, CommandsInv

\* Steps that move on and touch no conversation.
LEMMA PlainInv ==
  ASSUME TreeInv, NEW a \in team.agents,
         \/ FindRoot(a) \/ FindList(a) \/ CreateList(a) \/ ReadList(a) \/ Note(a)
         \/ LoadFails(a) \/ Judge(a) \/ CloseAnswered(a) \/ CloseLast(a) \/ Kill(a)
  PROVE  TreeInv'
<1>1. ContainerInv(team.variant, replies, pc[a], reply[a], talk[a], before[a], env[a])
  BY DEF TreeInv, ContainersInv
<1>2. UNCHANGED <<team, prompts, chats, replies, commands, felt, reply, talk, before, env>>
  BY DEF FindRoot, FindList, CreateList, ReadList, Note, LoadFails, Judge, CloseAnswered,
     CloseLast, Kill, files, locals
<1>3. ASSUME NEW p,
             \/ pc[a] \in Untaken /\ p \in Untaken \cup {"open"}
             \/ pc[a] \in Unheard /\ p \in Unheard
             \/ pc[a] \in Unrun /\ p \in Unrun \cup {"open"}
             \/ p \in Over
      PROVE  ContainerInv(team.variant, replies, p, reply[a], talk[a], before[a], env[a])
  BY <1>1, <1>3 DEF ContainerInv, Untaken, Unheard, Unrun, Writing, Over
<1>4. \E p : /\ pc' = [pc EXCEPT ![a] = p]
             /\ \/ pc[a] \in Untaken /\ p \in Untaken \cup {"open"}
                \/ pc[a] \in Unheard /\ p \in Unheard
                \/ pc[a] \in Unrun /\ p \in Unrun \cup {"open"}
                \/ p \in Over
  <2>1. CASE FindRoot(a) \/ FindList(a) \/ CreateList(a) \/ ReadList(a)
    BY <2>1 DEF FindRoot, FindList, CreateList, ReadList, Go, Untaken
  <2>2. CASE Note(a) \/ LoadFails(a) \/ CloseAnswered(a) \/ CloseLast(a) \/ Kill(a)
    BY <2>2 DEF Note, LoadFails, CloseAnswered, CloseLast, Kill, Go, Unheard, Over
  <2>3. CASE Judge(a)
    <3>1. PICK p \in {"answered", "commanded", "open"} : pc[a] = "heard" /\ pc' = [pc EXCEPT ![a] = p]
      BY <2>3 DEF Judge, Go
    <3> QED
      BY <3>1 DEF Unrun, Over
  <2> QED
    BY <2>1, <2>2, <2>3
<1>5. ContainersInv'
  BY <1>2, <1>3, <1>4, Moves
<1> QED
  BY <1>2, <1>5 DEF TreeInv, RepliesInv, FilesInv, CommandsInv

LEMMA TakeInv ==
  ASSUME TreeInv, NEW a \in team.agents, Take(a)
  PROVE  TreeInv'
<1>1. PICK r \in replies : reply' = [reply EXCEPT ![a] = r]
  BY DEF Take
<1>2. PICK p \in {"note", "load"} : pc[a] = "wait" /\ pc' = [pc EXCEPT ![a] = p]
  BY DEF Take, Go
<1>3. UNCHANGED <<team, prompts, chats, replies, commands, felt, talk, before, env>>
  BY DEF Take, files
<1>4. ContainersInv'
  <2>1. ContainerInv(team.variant, replies, p, r, talk[a], before[a], env[a])
    BY <1>1, <1>2 DEF TreeInv, ContainersInv, ContainerInv, HoldsNone, Untaken, Unheard, Unrun,
       Writing, Over
  <2>2. /\ reply'[a] = r /\ DOMAIN reply' = team.agents
        /\ \A b \in team.agents \ {a} : reply'[b] = reply[b]
    BY <1>1 DEF TreeInv, ContainersInv
  <2> QED
    BY <1>2, <1>3, <2>1, <2>2, Others DEF TreeInv, ContainersInv
<1> QED
  BY <1>3, <1>4 DEF TreeInv, RepliesInv, FilesInv, CommandsInv

\* Whatever the tag agent makes of a reply is out of the reply and its prompt.
LEMMA TagFits ==
  ASSUME TreeInv, NEW r \in replies, NEW t \in TagTalks(r), ~Tree
  PROVE  Fits(team.variant, replies, t, Child(r))
<1> DEFINE text == Append(r.prompt, r.out)
<1>1. r.prompt \in Seq(Nat) /\ r.out \in Nat
  BY NumbersAreNat DEF TreeInv, RepliesInv, Fits
<1>2. text \in Seq(Nat) /\ Range(text) \subseteq {r.out} \cup Range(r.prompt)
  BY <1>1 DEF Range
<1>3. text \o text \in Seq(Nat) /\ Range(text \o text) \subseteq Range(text)
  <2> HIDE DEF text
  <2> QED
    BY <1>2 DEF Range
<1>4. t \in {r.prompt, text, text \o text}
  BY DEF TagTalks
<1>5. t \in Seq(Nat) /\ Range(t) \subseteq {r.out} \cup Range(r.prompt)
  <2> HIDE DEF text
  <2> QED
    BY <1>1, <1>2, <1>3, <1>4
<1> QED
  BY <1>5 DEF Fits, Tree

\* What a process loads is what its reply continues, by either way.
LEMMA LoadInv ==
  ASSUME TreeInv, NEW a \in team.agents, Load(a)
  PROVE  TreeInv'
<1> DEFINE r == reply[a]
<1>1. /\ pc[a] = "load" /\ pc' = [pc EXCEPT ![a] = "heard"]
      /\ UNCHANGED <<team, prompts, chats, replies, commands, felt, reply, env>>
  BY DEF Load, Go, files
<1>2. PICK t \in Talks(r) : talk' = [talk EXCEPT ![a] = t]
  BY DEF Load
<1>3. /\ r \in replies /\ env[a] = <<>>
      /\ r.in \in Nat /\ r.it \in Nat /\ r.out \in Nat
  <2>1. r \in replies /\ env[a] = <<>>
    BY <1>1 DEF TreeInv, ContainersInv, ContainerInv, Unheard
  <2> QED
    BY <2>1, NumbersAreNat DEF TreeInv
<1>4. before' = [before EXCEPT ![a] = <<>>]
  <2>1. before' = [before EXCEPT ![a] = Before(r)]
    BY DEF Load
  <2>2. Before(r) = <<>>
    BY <1>3, NothingBefore DEF TreeInv
  <2> HIDE DEF r
  <2> QED
    BY <2>1, <2>2
<1>5. Holds(team.variant, replies, r, t)
  <2>1. r \in replies /\ r # NoReply
    BY <1>3, ChildPlaced DEF TreeInv
  <2>2. CASE Tree
    <3>1. t = Append(chats[<<r.in, r.it>>], r.out)
      BY <1>2, <2>2 DEF Talks, TreeTalk
    <3>2. Fits(team.variant, replies, chats[<<r.in, r.it>>], <<r.in, r.it>>)
      <4>1. <<r.in, r.it>> \in DOMAIN chats /\ chats[<<r.in, r.it>>] # Blank
        BY <2>2 DEF Load, Loadable
      <4> QED
        BY <4>1 DEF TreeInv, FilesInv, Filed
    <3>3. Conversation(replies, t, Child(r))
      BY <1>3, <2>2, <3>1, <3>2, Continues DEF Fits, Tree
    <3>4. t \in Seq(Nat)
      BY <3>3 DEF Conversation
    <3> QED
      BY <2>1, <2>2, <3>3, <3>4 DEF Holds, Fits, Tree
  <2>3. CASE ~Tree
    BY <1>2, <2>1, <2>3, TagFits DEF Talks, Holds
  <2> QED
    BY <2>2, <2>3
<1>6. ContainersInv'
  <2>1. ContainerInv(team.variant, replies, "heard", r, t, <<>>, env[a])
    BY <1>3, <1>5 DEF ContainerInv, Untaken, Unheard, Unrun, Writing, Over
  <2>2. /\ talk'[a] = t /\ before'[a] = <<>> /\ reply'[a] = r /\ env'[a] = env[a]
        /\ DOMAIN talk' = team.agents /\ DOMAIN before' = team.agents
        /\ \A b \in team.agents \ {a} : talk'[b] = talk[b] /\ before'[b] = before[b]
    <3>1. DOMAIN talk = team.agents /\ DOMAIN before = team.agents
      BY DEF TreeInv, ContainersInv
    <3>2. /\ talk'[a] = t /\ DOMAIN talk' = team.agents
          /\ \A b \in team.agents \ {a} : talk'[b] = talk[b]
      BY <1>2, <3>1
    <3>3. reply' = reply /\ env' = env
      BY <1>1
    <3> QED
      BY <1>4, <3>1, <3>2, <3>3
  <2> QED
    BY <1>1, <2>1, <2>2, Others DEF TreeInv, ContainersInv
<1> QED
  BY <1>1, <1>6 DEF TreeInv, RepliesInv, FilesInv, CommandsInv

\* The commands are filed under the reply's node; the one that runs is the first its
\* container sees.
LEMMA CommandInv ==
  ASSUME TreeInv, NEW a \in team.agents, NoteCommand(a) \/ RunCommands(a)
  PROVE  TreeInv'
<1>1. ContainerInv(team.variant, replies, pc[a], reply[a], talk[a], before[a], env[a])
  BY DEF TreeInv, ContainersInv
<1>2. CASE NoteCommand(a)
  <2>1. /\ pc[a] = "commanded" /\ pc' = [pc EXCEPT ![a] = "run"] /\ reply[a] \in replies
        /\ \E c : commands' = Put(commands, Node(reply[a]), c)
        /\ UNCHANGED <<team, prompts, chats, replies, felt, reply, talk, before, env>>
    BY <1>1, <1>2 DEF NoteCommand, Go, locals, ContainerInv, Unrun, Holds
  <2>2. ContainersInv'
    <3>1. ContainerInv(team.variant, replies, "run", reply[a], talk[a], before[a], env[a])
      BY <1>1, <2>1 DEF ContainerInv, Untaken, Unheard, Unrun, Writing, Over
    <3> QED
      BY <2>1, <3>1, Moves
  <2>3. CommandsInv'
    BY <2>1 DEF TreeInv, CommandsInv, Put, Node
  <2> QED
    BY <2>1, <2>2, <2>3 DEF TreeInv, RepliesInv, FilesInv
<1>3. CASE RunCommands(a)
  <2>1. /\ pc[a] = "run" /\ pc' = [pc EXCEPT ![a] = "open"]
        /\ env' = [env EXCEPT ![a] = @ \o Append(before[a], reply[a].out)]
        /\ felt' = Put(felt, Child(reply[a]), env'[a])
        /\ UNCHANGED <<team, prompts, chats, replies, commands, reply, talk, before>>
    BY <1>3 DEF RunCommands, Go, locals
  <2>2. before[a] = <<>> /\ env[a] = <<>> /\ DOMAIN env = team.agents
    BY <1>1, <2>1 DEF ContainerInv, Unrun, TreeInv, ContainersInv
  <2>3. /\ env'[a] = <<reply[a].out>> /\ DOMAIN env' = team.agents
        /\ \A b \in team.agents \ {a} : env'[b] = env[b]
    BY <2>1, <2>2
  <2>4. ContainersInv'
    <3>1. ContainerInv(team.variant, replies, "open", reply[a], talk[a], before[a], env'[a])
      BY <1>1, <2>1 DEF ContainerInv, Untaken, Unheard, Unrun, Writing, Over
    <3> QED
      BY <2>1, <2>3, <3>1, Others DEF TreeInv, ContainersInv
  <2>5. CommandsInv'
    BY <2>1, <2>3 DEF TreeInv, CommandsInv, Put, Child
  <2> QED
    BY <2>1, <2>4, <2>5 DEF TreeInv, RepliesInv, FilesInv
<1> QED
  BY <1>2, <1>3

\* The next process starts in a container of its own.
LEMMA RelaunchInv ==
  ASSUME TreeInv, NEW a \in team.agents, Relaunch(a)
  PROVE  TreeInv'
<1>1. /\ pc' = [pc EXCEPT ![a] = "start"]
      /\ UNCHANGED <<team, prompts, chats, replies, commands, felt>>
      /\ reply' = [reply EXCEPT ![a] = NoReply] /\ talk' = [talk EXCEPT ![a] = <<>>]
      /\ before' = [before EXCEPT ![a] = <<>>] /\ env' = [env EXCEPT ![a] = <<>>]
  BY DEF Relaunch, Fresh, files
<1>2. ContainerInv(team.variant, replies, "start", NoReply, <<>>, <<>>, <<>>)
  BY DEF ContainerInv, HoldsNone, Untaken, Unheard, Unrun, Writing, Over
<1>3. ContainersInv'
  BY <1>1, <1>2, Others DEF TreeInv, ContainersInv
<1> QED
  BY <1>1, <1>3 DEF TreeInv, RepliesInv, FilesInv, CommandsInv

LEMMA InitTree == Init => TreeInv
<1> SUFFICES ASSUME Init PROVE TreeInv
  OBVIOUS
<1>1. IsFiniteSet(replies) /\ replies = {}
  BY FS_EmptySet DEF Init
<1>2. DOMAIN prompts = {} /\ DOMAIN chats = {} /\ DOMAIN commands = {} /\ DOMAIN felt = {}
  BY DEF Init
<1>3. ContainersInv
  BY DEF Init, ContainersInv, ContainerInv, HoldsNone, Untaken, Unheard, Unrun, Writing, Over
<1> QED
  BY <1>1, <1>2, <1>3 DEF TreeInv, RepliesInv, FilesInv, Filed, CommandsInv

LEMMA NextTree == TreeInv /\ [Next]_vars => TreeInv'
<1> SUFFICES ASSUME TreeInv, [Next]_vars PROVE TreeInv'
  OBVIOUS
<1>1. CASE Answer
  BY <1>1, AnswerInv
<1>2. CASE \E a \in team.agents : Step(a) \/ Take(a) \/ Kill(a)
  BY <1>2, WritesInv, PlainInv, TakeInv, LoadInv, CommandInv, RelaunchInv DEF Step
<1>3. CASE UNCHANGED vars
  BY <1>3 DEF vars, files, locals, TreeInv, RepliesInv, FilesInv, CommandsInv, ContainersInv
<1> QED
  BY <1>1, <1>2, <1>3 DEF Next

-----------------------------------------------------------------------------
(* Theorems. *)

\* What is written at a node belongs there, a reply belongs to the prompt it answers, and
\* a container holds what belongs to the reply it took, wherever processes are killed.
THEOREM TreeInvariance == Spec => []TreeInv
<1> QED
  BY InitTree, NextTree, PTL DEF Spec

\* Whatever containers take which reply when, and wherever their processes are killed, a
\* filled prompt of the tree agent (write_in_file) holds the whole conversation that led to
\* it, every reply in it an answer to the one before; one of the tag agent holds nothing
\* but what the prompt before it held and the reply to that.
THEOREM ConversationIsKept == Spec => []ConversationsKept
<1>1. TreeInv => ConversationsKept
  <2> SUFFICES ASSUME TreeInv, NEW n \in DOMAIN prompts, prompts[n] # Blank
               PROVE  /\ Tree => /\ Len(prompts[n]) = n[2]
                                 /\ n # Root => Last(prompts[n]) = n[1]
                                 /\ \A k \in 1..n[2] : \E r \in replies :
                                      /\ r.out = prompts[n][k] /\ r.it = k - 1
                                      /\ r.in = IF k = 1 THEN 0 ELSE prompts[n][k - 1]
                      /\ ~Tree /\ n # Root =>
                           \E r \in replies : n = Child(r)
                                    /\ Range(prompts[n]) \subseteq {r.out} \cup Range(r.prompt)
    BY DEF ConversationsKept
  <2>1. Fits(team.variant, replies, prompts[n], n)
    BY DEF TreeInv, FilesInv, Filed
  <2>2. CASE Tree
    <3>1. Conversation(replies, prompts[n], n)
      BY <2>1, <2>2 DEF Fits, Tree
    <3> QED
      BY <2>2, <3>1 DEF Conversation, Answers, Last
  <2>3. CASE ~Tree
    BY <2>1, <2>3 DEF Fits, Tree
  <2> QED
    BY <2>2, <2>3
<1> QED
  BY <1>1, TreeInvariance, PTL

\* No command of another conversation runs in the container of a command: each process
\* ends after one reply, and its container with it.
THEOREM EnvironmentIsFresh == Spec => []EnvironmentsFresh
<1>1. TreeInv => EnvironmentsFresh
  <2> SUFFICES ASSUME TreeInv, NEW n \in DOMAIN felt PROVE Range(felt[n]) \subseteq {n[1]}
    BY DEF EnvironmentsFresh
  <2>1. felt[n] = <<n[1]>>
    BY DEF TreeInv, CommandsInv
  <2> QED
    BY <2>1 DEF Range
<1> QED
  BY <1>1, TreeInvariance, PTL

\* "replay previous commands first" (agent_treeexec.py): there are never any.  They are filed
\* under the reply that had them and its iteration, and looked for under that id and the next
\* iteration; so a container sees the one command of its reply.
THEOREM NothingIsReplayed == Spec => [](\A n \in DOMAIN felt : felt[n] = <<n[1]>>)
<1>1. TreeInv => \A n \in DOMAIN felt : felt[n] = <<n[1]>>
  BY DEF TreeInv, CommandsInv
<1> QED
  BY <1>1, TreeInvariance, PTL

=============================================================================
