----------------------------- MODULE ClusterProofs -----------------------------
(***************************************************************************)
(* Proofs about Cluster, for any resource pools, any cluster of nodes and  *)
(* any number of crashes: groups stay apart, the rollout is built last,    *)
(* and no process loads a model that another one is still copying.         *)
(***************************************************************************)
EXTENDS Cluster, FiniteSetTheorems, WellFoundedInduction, TLAPS

-----------------------------------------------------------------------------
(* Ranks and bundles. *)

\* Every set of numbers that is not empty has a smallest one.
LEMMA Smallest ==
  ASSUME NEW K \in SUBSET Nat, K # {}
  PROVE  \E k \in K : \A j \in K : k <= j
<1>1. PICK k \in K : \A j \in K : <<j, k>> \notin OpToRel(<, Nat)
  BY NatLessThanWellFounded, WFMin, Zenon
<1>2. \A j \in K : ~(j < k)
  BY <1>1 DEF OpToRel
<1> QED
  BY <1>2

\* A list of processes on nodes has a number of bundles.
LEMMA TotalType ==
  ASSUME NEW s \in Seq(Nat)
  PROVE  IsFiniteSet(Bundles(s)) /\ Total(s) \in Nat
<1> DEFINE Of == {{i} \X (0..(s[i] - 1)) : i \in DOMAIN s}
           f == [i \in 1..Len(s) |-> {i} \X (0..(s[i] - 1))]
<1>1. Len(s) \in Nat /\ DOMAIN s = 1..Len(s)
  OBVIOUS
<1>2. f \in Surjection(1..Len(s), Of)
  BY <1>1 DEF Surjection
<1>3. IsFiniteSet(1..Len(s))
  BY <1>1, FS_Interval
<1>4. IsFiniteSet(Of)
  BY <1>2, <1>3, FS_Surjection
<1>5. ASSUME NEW T \in Of PROVE IsFiniteSet(T)
  <2>1. PICK i \in DOMAIN s : T = {i} \X (0..(s[i] - 1))
    OBVIOUS
  <2>2. s[i] - 1 \in Int
    BY <2>1
  <2>3. IsFiniteSet({i}) /\ IsFiniteSet(0..(s[i] - 1))
    <3>1. \A b \in Int : IsFiniteSet(0..b)
      BY FS_Interval
    <3>2. IsFiniteSet({i})
      BY FS_Singleton
    <3> QED
      BY <2>2, <3>1, <3>2
  <2> QED
    BY <2>1, <2>3, FS_Product
<1>6. IsFiniteSet(UNION Of)
  BY <1>4, <1>5, FS_UNION
<1> QED
  BY <1>6, FS_CardinalityType DEF Bundles, Total

LEMMA TotalEmpty == Total(<<>>) = 0
<1>1. Bundles(<<>>) = {}
  BY DEF Bundles
<1> QED
  BY <1>1, FS_EmptySet DEF Total

LEMMA StoreType ==
  ASSUME NEW g \in Pools
  PROVE  Store[g] \in Seq(Nat) /\ WorldSize(g) \in Nat /\ g \in Nat /\ g > 0
<1>1. Store \in Seq(Seq(Nat \ {0}) \ {<<>>})
  BY ClusterAssumption
<1>2. Store[g] \in Seq(Nat \ {0})
  BY <1>1 DEF Pools
<1>3. Store[g] \in Seq(Nat)
  BY <1>2
<1>4. g \in Nat /\ g > 0
  BY <1>1 DEF Pools
<1> QED
  BY <1>3, <1>4, TotalType DEF WorldSize

\* The place of a rank in the placement groups, without the nodes they are on.
IndexOf(g, rank) ==
  CHOOSE j \in DOMAIN Store[g] :
    Total(SubSeq(Store[g], 1, j - 1)) <= rank /\ rank < Total(SubSeq(Store[g], 1, j))
BundleOf(g, rank) ==
  <<IndexOf(g, rank), rank - Total(SubSeq(Store[g], 1, IndexOf(g, rank) - 1))>>

\* Every rank of a pool has a placement group.
LEMMA IndexExists ==
  ASSUME NEW g \in Pools, NEW rank \in 0..(WorldSize(g) - 1)
  PROVE  /\ IndexOf(g, rank) \in DOMAIN Store[g]
         /\ Total(SubSeq(Store[g], 1, IndexOf(g, rank) - 1)) \in Nat
<1> DEFINE s == Store[g]
           Sum(j) == Total(SubSeq(s, 1, j))
           K == {j \in 1..Len(s) : rank < Sum(j)}
<1>1. s \in Seq(Nat) /\ WorldSize(g) = Total(s) /\ Total(s) \in Nat /\ rank \in Nat /\ rank < Total(s)
  BY StoreType DEF WorldSize
<1>2. \A j \in 0..Len(s) : SubSeq(s, 1, j) \in Seq(Nat)
  BY <1>1
<1>3. \A j \in 0..Len(s) : Sum(j) \in Nat
  BY <1>2, TotalType
<1>4. SubSeq(s, 1, Len(s)) = s /\ SubSeq(s, 1, 0) = <<>>
  BY <1>1
<1>5. Sum(Len(s)) = Total(s) /\ Sum(0) = 0
  BY <1>4, TotalEmpty
<1> HIDE DEF Sum
<1>6. Len(s) \in K
  <2>1. Len(s) # 0
    BY <1>1, <1>5
  <2> QED
    BY <1>1, <1>5, <2>1
<1>7. K \in SUBSET Nat /\ K # {}
  BY <1>6
<1>8. PICK k \in K : \A j \in K : k <= j
  BY <1>7, Smallest
<1>9. Sum(k - 1) <= rank
  <2>1. k - 1 \notin K /\ k - 1 \in 0..Len(s) /\ k \in 1..Len(s)
    BY <1>8
  <2>2. CASE k = 1
    BY <1>1, <1>5, <2>2
  <2>3. CASE k # 1
    BY <1>1, <1>3, <2>1, <2>3
  <2> QED
    BY <2>2, <2>3
<1>10. \E j \in DOMAIN s : Sum(j - 1) <= rank /\ rank < Sum(j)
  BY <1>1, <1>8, <1>9
<1>11. IndexOf(g, rank) \in DOMAIN s
  BY <1>10 DEF IndexOf, Sum
<1> QED
  BY <1>1, <1>3, <1>11 DEF Sum

\* Two ranks of a pool are given two bundles.
LEMMA BundlesDiffer ==
  ASSUME NEW g \in Pools, NEW a \in 0..(WorldSize(g) - 1), NEW b \in 0..(WorldSize(g) - 1),
         BundleOf(g, a) = BundleOf(g, b)
  PROVE  a = b
<1>1. IndexOf(g, a) = IndexOf(g, b)
  BY DEF BundleOf
<1>2. PICK n \in Nat : n = Total(SubSeq(Store[g], 1, IndexOf(g, a) - 1))
  BY IndexExists
<1>3. a - n = b - n
  BY <1>1, <1>2 DEF BundleOf
<1>4. a \in Int /\ b \in Int
  BY StoreType
<1> QED
  BY <1>2, <1>3, <1>4

LEMMA SlotIs ==
  ASSUME NEW g, NEW rank
  PROVE  Slot(g, rank) = <<pgs[g][IndexOf(g, rank)], BundleOf(g, rank)>>
BY DEF Slot, IndexOf, BundleOf

-----------------------------------------------------------------------------
(* Processes. *)

LEMMA Coordinates ==
  ASSUME NEW p \in Procs
  PROVE  /\ p[1] \in Pools /\ p[2] \in 0..(WorldSize(p[1]) - 1) /\ p[2] \in Nat
         /\ p = <<p[1], p[2]>> /\ p # Nobody
         /\ \A g : p \in Members(g) <=> g = p[1]
<1>1. PICK g \in Pools : p \in Members(g)
  BY DEF Procs
<1>2. PICK r \in 0..(WorldSize(g) - 1) : p = <<g, r>>
  BY <1>1 DEF Members
<1>3. r \in Nat /\ g > 0 /\ g \in Nat
  BY <1>2, StoreType
<1>4. p # Nobody
  BY <1>2, <1>3 DEF Nobody
<1>5. \A h : p \in Members(h) <=> h = g
  BY <1>2 DEF Members
<1> QED
  BY <1>2, <1>3, <1>4, <1>5

LEMMA MembersAre ==
  ASSUME NEW g \in Pools, NEW q \in Members(g)
  PROVE  q \in Procs /\ q[1] = g
BY DEF Members, Procs

\* A pool has as many processes as its world size.
LEMMA MembersCount ==
  ASSUME NEW g \in Pools
  PROVE  IsFiniteSet(Members(g)) /\ Cardinality(Members(g)) = WorldSize(g)
<1> DEFINE f == [r \in 0..(WorldSize(g) - 1) |-> <<g, r>>]
<1>1. WorldSize(g) \in Nat
  BY StoreType
<1>2. f \in Bijection(0..(WorldSize(g) - 1), Members(g))
  BY DEF Bijection, Injection, Surjection, IsInjective, Members
<1>3. IsFiniteSet(0..(WorldSize(g) - 1)) /\ Cardinality(0..(WorldSize(g) - 1)) = WorldSize(g)
  <2>1. WorldSize(g) - 1 \in Int /\ 0 \in Int
    BY <1>1
  <2>2. /\ IsFiniteSet(0..(WorldSize(g) - 1))
        /\ Cardinality(0..(WorldSize(g) - 1)) = IF 0 > WorldSize(g) - 1 THEN 0 ELSE WorldSize(g) - 1 - 0 + 1
    BY <2>1, FS_Interval
  <2> QED
    BY <1>1, <2>2
<1> QED
  BY <1>2, <1>3, FS_Bijection DEF ExistsBijection

-----------------------------------------------------------------------------
(* The inductive invariant. *)

Shape ==
  /\ pool \in Pools /\ next \in Nat /\ crashes \in Nat
  /\ DOMAIN proc = Procs /\ DOMAIN env = Procs /\ DOMAIN at = Procs
  /\ DOMAIN asked = Procs /\ DOMAIN inited = Procs
  /\ DOMAIN master = Pools /\ DOMAIN pgs = Pools
  /\ DOMAIN cache = Nodes /\ DOMAIN lock = Nodes

\* A process in state "state" with address "address" was given that of its own rank zero.
Addressed(p, state, address) ==
  /\ state = "created" /\ p[2] # 0 => address = <<p[1], 0>>
  /\ state \in {"configured", "joined", "alive"} => address = <<p[1], 0>>

\* Register centres hold the address of their group, and a rendezvous that ended had
\* all ranks in it.
RendezvousInv ==
  /\ \A k \in DOMAIN centres : k \in Pools /\ centres[k] = <<k, 0>>
  /\ pc = "create" /\ next > 0 => master[pool] = <<pool, 0>>
  /\ \A p \in Procs :
       /\ Addressed(p, proc[p], env[p])
       /\ proc[p] = "alive" => \A q \in Members(p[1]) : proc[q] # "none"

\* The processes the driver has still to create.
Uncreated(p) ==
  \/ p[1] > pool
  \/ p[1] = pool /\ (pc = "place" \/ (pc \in {"create", "poll"} /\ p[2] >= next))

PlacesInv ==
  /\ pc \in {"create", "poll"} => pgs[pool] \in [DOMAIN Store[pool] -> Nodes]
  /\ \A p \in Procs :
       /\ Uncreated(p) => proc[p] = "none"
       /\ proc[p] # "none" => at[p][1] \in Nodes /\ at[p][2] = BundleOf(p[1], p[2])

\* A copy that is being written is locked, unless something died or failed.
CopiesInv ==
  /\ \A n \in Nodes :
       /\ lock[n] # Nobody => cache[n] = "partial"
       /\ cache[n] = "partial" /\ lock[n] = Nobody => crashes > 0
  /\ \A p \in Procs :
       /\ inited[p] # <<>> => proc[p] # "none" /\ cache[at[p][1]] = "whole"
       /\ proc[p] = "raised" => crashes > 0

-----------------------------------------------------------------------------
(* Its steps. *)

LEMMA NextShape == Shape /\ [Next]_vars => Shape'
<1> SUFFICES ASSUME Shape, [Next]_vars PROVE Shape'
  OBVIOUS
<1> USE DEF Shape
<1>1. CASE Driver
  <2>1. CASE Place \/ NoClass \/ RankInfo \/ Unused \/ CallInit \/ InitReturns \/ InitFails \/ Poll
    BY <2>1 DEF Place, NoClass, RankInfo, Unused, CallInit, InitReturns, InitFails, Poll, files
  <2>2. CASE CreateWorker
    BY <2>2 DEF CreateWorker, files
  <2>3. CASE Spawn
    BY <2>3 DEF Spawn, files
  <2> QED
    BY <1>1, <2>1, <2>2, <2>3 DEF Driver
<1>2. ASSUME NEW p \in Procs, Worker(p) \/ CopyFails(p) \/ Crash(p) PROVE Shape'
  <2>1. CASE Configure(p) \/ Join(p) \/ Form(p) \/ GiveUp(p)
    BY <2>1 DEF Configure, Join, Form, GiveUp, driver, files
  <2>2. CASE BeginCopy(p) \/ EndCopy(p) \/ CopyFails(p)
    BY <2>2 DEF BeginCopy, EndCopy, CopyFails, driver
  <2>3. CASE Serve(p)
    BY <2>3 DEF Serve, driver, files
  <2>4. CASE Crash(p)
    BY <2>4 DEF Crash, driver
  <2> QED
    BY <1>2, <2>1, <2>2, <2>3, <2>4 DEF Worker
<1>3. CASE UNCHANGED vars
  BY <1>3 DEF vars, driver, files
<1> QED
  BY <1>1, <1>2, <1>3 DEF Next

\* Whoever meets a process in a rendezvous is of its group.
LEMMA MetApart ==
  ASSUME RendezvousInv, NEW p \in Procs, proc[p] \in {"joined", "alive"}
  PROVE  Met(p) \subseteq Members(p[1])
<1> SUFFICES ASSUME NEW q \in Met(p) PROVE q \in Members(p[1])
  OBVIOUS
<1>1. q \in Procs /\ env[q] = env[p] /\ proc[q] \in {"joined", "alive"}
  BY DEF Met, MasterOf
<1>2. env[p] = <<p[1], 0>> /\ env[q] = <<q[1], 0>>
  BY <1>1 DEF RendezvousInv, Addressed
<1>3. p[1] = q[1]
  BY <1>1, <1>2
<1> QED
  BY <1>1, <1>3, Coordinates

\* A step that leaves the addresses alone and moves one process on.
LEMMA Moved ==
  ASSUME Shape, RendezvousInv, NEW p \in Procs, NEW s,
         proc' = [proc EXCEPT ![p] = s], s # "none",
         UNCHANGED <<env, master, pool, next, pc>>,
         \A k \in DOMAIN centres' : k \in DOMAIN centres /\ centres'[k] = centres[k],
         Addressed(p, s, env[p]),
         s = "alive" => \A q \in Members(p[1]) : proc[q] # "none"
  PROVE  RendezvousInv'
<1>1. \A q \in Procs : proc'[q] = IF q = p THEN s ELSE proc[q]
  BY DEF Shape
<1>2. ASSUME NEW q \in Procs, proc'[q] = "alive", NEW m \in Members(q[1])
      PROVE  proc'[m] # "none"
  <2>1. m \in Procs
    BY Coordinates, MembersAre
  <2>2. CASE q = p
    BY <1>1, <1>2, <2>1, <2>2
  <2>3. CASE q # p
    BY <1>1, <1>2, <2>1, <2>3 DEF RendezvousInv
  <2> QED
    BY <2>2, <2>3
<1>3. \A q \in Procs : Addressed(q, proc'[q], env'[q])
  BY <1>1 DEF RendezvousInv
<1> QED
  BY <1>2, <1>3 DEF RendezvousInv

LEMMA NextRendezvous ==
  ASSUME Shape, RendezvousInv, [Next]_vars
  PROVE  RendezvousInv'
<1>1. CASE Place \/ NoClass \/ RankInfo \/ Spawn \/ Unused \/ CallInit \/ InitReturns \/ InitFails
  <2>1. UNCHANGED <<proc, env, centres, master>> /\ (pc' = "create" => next' = 0)
    BY <1>1 DEF Place, NoClass, RankInfo, Spawn, Unused, CallInit, InitReturns, InitFails
  <2> QED
    BY <2>1 DEF RendezvousInv
<1>2. CASE CreateWorker
  <2> DEFINE p == <<pool, next>>
  <2>1. /\ pc = "create" /\ UNCHANGED <<centres, master, pool>>
        /\ proc' = [proc EXCEPT ![p] = "created"]
        /\ env' = [env EXCEPT ![p] = IF next = 0 THEN Nobody ELSE master[pool]]
        /\ next' = next + 1 /\ (pc' = "create" => next # 0)
    BY <1>2 DEF CreateWorker
  <2>2. next # 0 => master[pool] = <<pool, 0>>
    BY <2>1 DEF RendezvousInv, Shape
  <2>3. \A q \in Procs : /\ proc'[q] = IF q = p THEN "created" ELSE proc[q]
                         /\ env'[q] = IF q = p THEN (IF next = 0 THEN Nobody ELSE master[pool]) ELSE env[q]
    BY <2>1 DEF Shape
  <2>4. ASSUME NEW q \in Procs
        PROVE  /\ Addressed(q, proc'[q], env'[q])
               /\ proc'[q] = "alive" => \A m \in Members(q[1]) : proc'[m] # "none"
    <3>1. CASE q = p
      BY <2>2, <2>3, <3>1 DEF Addressed
    <3>2. CASE q # p
      <4>1. \A m \in Members(q[1]) : m \in Procs
        BY Coordinates, MembersAre
      <4> QED
        BY <2>3, <3>2, <4>1 DEF RendezvousInv
    <3> QED
      BY <3>1, <3>2
  <2> QED
    BY <2>1, <2>2, <2>4 DEF RendezvousInv
<1>3. CASE Poll
  <2>1. UNCHANGED <<proc, env, centres, pool, next>>
    BY <1>3 DEF Poll
  <2>2. pc' = "create" => master'[pool] = <<pool, 0>>
    BY <1>3 DEF Poll, Prefix, Shape, RendezvousInv
  <2> QED
    BY <2>1, <2>2 DEF RendezvousInv
<1>4. ASSUME NEW p \in Procs, Configure(p) PROVE RendezvousInv'
  <2>1. /\ proc[p] = "created" /\ proc' = [proc EXCEPT ![p] = "configured"]
        /\ UNCHANGED <<master, pool, next, pc>>
    BY <1>4 DEF Configure, driver
  <2>2. CASE p[2] = 0
    <3>1. /\ env' = [env EXCEPT ![p] = p]
          /\ centres' = [k \in {p[1]} \cup DOMAIN centres |-> IF k = p[1] THEN p ELSE centres[k]]
      BY <1>4, <2>2 DEF Configure, Registered, Prefix
    <3>2. \A q \in Procs : /\ proc'[q] = IF q = p THEN "configured" ELSE proc[q]
                           /\ env'[q] = IF q = p THEN p ELSE env[q]
      BY <2>1, <3>1 DEF Shape
    <3>3. p = <<p[1], 0>> /\ p[1] \in Pools
      BY <2>2, Coordinates
    <3>4. \A k \in DOMAIN centres' : k \in Pools /\ centres'[k] = <<k, 0>>
      BY <3>1, <3>3 DEF RendezvousInv
    <3>5. ASSUME NEW q \in Procs
          PROVE  /\ Addressed(q, proc'[q], env'[q])
                 /\ proc'[q] = "alive" => \A m \in Members(q[1]) : proc'[m] # "none"
      <4>1. CASE q = p
        BY <3>2, <3>3, <4>1 DEF Addressed
      <4>2. CASE q # p
        <5>1. \A m \in Members(q[1]) : m \in Procs
          BY Coordinates, MembersAre
        <5> QED
          BY <3>2, <4>2, <5>1 DEF RendezvousInv
      <4> QED
        BY <4>1, <4>2
    <3> QED
      BY <2>1, <3>4, <3>5 DEF RendezvousInv
  <2>3. CASE p[2] # 0
    <3>1. UNCHANGED <<env, centres>>
      BY <1>4, <2>3 DEF Configure
    <3>2. Addressed(p, "configured", env[p])
      BY <2>1, <2>3 DEF RendezvousInv, Addressed
    <3> QED
      BY <2>1, <3>1, <3>2, Moved
  <2> QED
    BY <2>2, <2>3
<1>5. ASSUME NEW p \in Procs, Join(p) PROVE RendezvousInv'
  <2>1. /\ proc[p] = "configured" /\ proc' = [proc EXCEPT ![p] = "joined"]
        /\ UNCHANGED <<env, centres, master, pool, next, pc>>
    BY <1>5 DEF Join, driver
  <2>2. Addressed(p, "joined", env[p])
    BY <2>1 DEF RendezvousInv, Addressed
  <2> QED
    BY <2>1, <2>2, Moved
<1>6. ASSUME NEW p \in Procs, Form(p) PROVE RendezvousInv'
  <2>1. /\ proc[p] = "joined" /\ proc' = [proc EXCEPT ![p] = "alive"]
        /\ UNCHANGED <<env, centres, master, pool, next, pc>>
        /\ Cardinality(Met(p)) >= WorldSize(p[1])
    BY <1>6 DEF Form, driver
  <2>2. Addressed(p, "alive", env[p])
    BY <2>1 DEF RendezvousInv, Addressed
  <2>3. Met(p) = Members(p[1])
    <3>1. Met(p) \in SUBSET Members(p[1])
      BY <2>1, MetApart
    <3>2. /\ IsFiniteSet(Members(p[1])) /\ Cardinality(Members(p[1])) = WorldSize(p[1])
          /\ WorldSize(p[1]) \in Nat
      BY Coordinates, MembersCount, StoreType
    <3>3. /\ IsFiniteSet(Met(p)) /\ Cardinality(Met(p)) <= WorldSize(p[1])
          /\ Cardinality(Members(p[1])) = Cardinality(Met(p)) => Members(p[1]) = Met(p)
      BY <3>1, <3>2, FS_Subset
    <3>4. Cardinality(Met(p)) \in Nat
      BY <3>3, FS_CardinalityType
    <3> QED
      BY <2>1, <3>2, <3>3, <3>4
  <2>4. \A q \in Members(p[1]) : proc[q] # "none"
    BY <2>3 DEF Met
  <2> QED
    BY <2>1, <2>2, <2>4, Moved
<1>7. ASSUME NEW p \in Procs, GiveUp(p) \/ CopyFails(p) \/ Crash(p) PROVE RendezvousInv'
  <2>1. PICK s \in {"dead", "raised"} : proc' = [proc EXCEPT ![p] = s]
    BY <1>7 DEF GiveUp, CopyFails, Crash
  <2>2. /\ UNCHANGED <<env, master, pool, next, pc>>
        /\ \A k \in DOMAIN centres' : k \in DOMAIN centres /\ centres'[k] = centres[k]
    BY <1>7 DEF GiveUp, CopyFails, Crash, driver
  <2>3. Addressed(p, s, env[p])
    BY DEF Addressed
  <2> QED
    BY <2>1, <2>2, <2>3, Moved
<1>8. ASSUME NEW p \in Procs, Serve(p) PROVE RendezvousInv'
  <2>1. UNCHANGED <<env, centres, master, pool, next, pc>>
    BY <1>8 DEF Serve, driver
  <2>2. CASE proc' = [proc EXCEPT ![p] = "raised"]
    <3>1. Addressed(p, "raised", env[p])
      BY DEF Addressed
    <3> QED
      BY <2>1, <2>2, <3>1, Moved
  <2>3. CASE UNCHANGED proc
    BY <2>1, <2>3 DEF RendezvousInv
  <2> QED
    BY <1>8, <2>2, <2>3 DEF Serve
<1>9. CASE (\E p \in Procs : BeginCopy(p) \/ EndCopy(p)) \/ UNCHANGED vars
  <2>1. UNCHANGED <<proc, env, centres, master, pool, next, pc>>
    BY <1>9 DEF BeginCopy, EndCopy, vars, driver
  <2> QED
    BY <2>1 DEF RendezvousInv
<1> QED
  BY <1>1, <1>2, <1>3, <1>4, <1>5, <1>6, <1>7, <1>8, <1>9 DEF Next, Driver, Worker

\* Every process gets a bundle of its own, on a node of its placement group.
LEMMA NextPlaces ==
  ASSUME Shape, PlacesInv, [Next]_vars
  PROVE  PlacesInv'
<1>1. CASE Place
  <2>1. PICK nodes \in Placements(pool) : pgs' = [pgs EXCEPT ![pool] = nodes]
    BY <1>1 DEF Place
  <2>2. pc = "place" /\ pc' = "create" /\ next' = 0 /\ UNCHANGED <<pool, proc, at>>
    BY <1>1 DEF Place
  <2>3. pgs'[pool] \in [DOMAIN Store[pool] -> Nodes]
    BY <2>1 DEF Placements, Shape
  <2>4. \A q \in Procs : Uncreated(q)' => Uncreated(q)
    BY <2>2 DEF Uncreated
  <2> QED
    BY <2>2, <2>3, <2>4 DEF PlacesInv
<1>2. CASE CreateWorker
  <2> DEFINE p == <<pool, next>>
  <2>1. /\ pc = "create" /\ next < WorldSize(pool) /\ UNCHANGED <<pool, pgs>>
        /\ proc' = [proc EXCEPT ![p] = "created"] /\ at' = [at EXCEPT ![p] = Slot(pool, next)]
        /\ next' = next + 1 /\ pc' \in {"create", "poll"}
    BY <1>2 DEF CreateWorker
  <2>2. next \in 0..(WorldSize(pool) - 1) /\ pool \in Pools
    BY <2>1, StoreType DEF Shape
  <2>3. pgs[pool][IndexOf(pool, next)] \in Nodes
    BY <2>1, <2>2, IndexExists DEF PlacesInv
  <2>4. Slot(pool, next) = <<pgs[pool][IndexOf(pool, next)], BundleOf(pool, next)>>
    BY SlotIs
  <2>5. ASSUME NEW q \in Procs
        PROVE  /\ Uncreated(q)' => proc'[q] = "none"
               /\ proc'[q] # "none" => at'[q][1] \in Nodes /\ at'[q][2] = BundleOf(q[1], q[2])
    <3>1. CASE q = p
      <4>1. q[1] = pool /\ q[2] = next
        BY <3>1
      <4>2. ~Uncreated(q)'
        BY <2>1, <2>2, <4>1, StoreType DEF Uncreated, Shape
      <4> QED
        BY <2>1, <2>3, <2>4, <3>1, <4>1, <4>2 DEF Shape
    <3>2. CASE q # p
      <4>1. proc'[q] = proc[q] /\ at'[q] = at[q]
        BY <2>1, <3>2 DEF Shape
      <4>2. q[1] \in Nat /\ q[2] \in Nat /\ q = <<q[1], q[2]>> /\ pool \in Nat
        BY <2>2, Coordinates, StoreType
      <4>3. Uncreated(q)' => Uncreated(q)
        BY <2>1, <4>2 DEF Uncreated, Shape
      <4> QED
        BY <4>1, <4>3 DEF PlacesInv
    <3> QED
      BY <3>1, <3>2
  <2> QED
    BY <2>1, <2>5 DEF PlacesInv
<1>3. CASE Poll
  <2>1. pc = "poll" /\ pc' \in {"create", "poll", "failed"} /\ UNCHANGED <<pool, next, proc, at, pgs>>
    BY <1>3 DEF Poll
  <2> QED
    BY <2>1 DEF PlacesInv, Uncreated
<1>4. CASE Spawn
  <2>1. /\ UNCHANGED <<next, proc, at, pgs>>
        /\ \/ pool' = pool + 1 /\ pc' = "place"
           \/ pool' = pool /\ pc' = "init"
    BY <1>4 DEF Spawn
  <2>2. ASSUME NEW q \in Procs PROVE Uncreated(q)' => Uncreated(q)
    <3>1. q[1] \in Nat /\ pool \in Nat
      BY Coordinates, StoreType DEF Shape
    <3> QED
      BY <2>1, <3>1 DEF Uncreated
  <2> QED
    BY <2>1, <2>2 DEF PlacesInv
<1>5. CASE NoClass \/ RankInfo \/ Unused \/ CallInit \/ InitReturns \/ InitFails
  <2>1. /\ UNCHANGED <<pool, next, proc, at, pgs>>
        /\ pc' \in {"failed", "spawn", "init", "wait", "trained"}
    BY <1>5 DEF NoClass, RankInfo, Unused, CallInit, InitReturns, InitFails
  <2> QED
    BY <2>1 DEF PlacesInv, Uncreated
<1>6. ASSUME NEW p \in Procs, Worker(p) \/ CopyFails(p) \/ Crash(p) PROVE PlacesInv'
  <2>1. UNCHANGED <<pc, pool, next, at, pgs>> /\ proc[p] # "none"
    BY <1>6 DEF Worker, Configure, Join, Form, GiveUp, BeginCopy, EndCopy, CopyFails, Serve, Crash,
       driver
  <2>2. \A q \in Procs : q # p => proc'[q] = proc[q]
    BY <1>6 DEF Worker, Configure, Join, Form, GiveUp, BeginCopy, EndCopy, CopyFails, Serve, Crash,
       Shape
  <2>3. \A q \in Procs : Uncreated(q)' <=> Uncreated(q)
    BY <2>1 DEF Uncreated
  <2> QED
    BY <2>1, <2>2, <2>3 DEF PlacesInv
<1>7. CASE UNCHANGED vars
  BY <1>7 DEF vars, driver, PlacesInv, Uncreated
<1> QED
  BY <1>1, <1>2, <1>3, <1>4, <1>5, <1>6, <1>7 DEF Next, Driver

\* What stands at the path of the model is a whole copy, or is being written under its lock,
\* or is what is left of a copy that was cut off.
LEMMA NextCopies ==
  ASSUME Shape, PlacesInv, CopiesInv, [Next]_vars
  PROVE  CopiesInv'
<1>1. CASE CreateWorker
  <2> DEFINE p == <<pool, next>>
  <2>1. /\ pc = "create" /\ UNCHANGED <<crashes, inited, cache, lock>>
        /\ proc' = [proc EXCEPT ![p] = "created"] /\ at' = [at EXCEPT ![p] = Slot(pool, next)]
    BY <1>1 DEF CreateWorker, files
  <2>2. \A q \in Procs : /\ q # p => proc'[q] = proc[q] /\ at'[q] = at[q]
                         /\ q = p => proc'[q] = "created"
    BY <2>1 DEF Shape
  <2>3. p \in Procs => inited[p] = <<>>
    <3>1. p \in Procs => Uncreated(p)
      BY <2>1 DEF Uncreated, Shape
    <3> QED
      BY <3>1 DEF PlacesInv, CopiesInv
  <2> QED
    BY <2>1, <2>2, <2>3 DEF CopiesInv
<1>2. ASSUME NEW p \in Procs, BeginCopy(p) \/ EndCopy(p) \/ CopyFails(p) PROVE CopiesInv'
  <2> DEFINE n == at[p][1]
  <2>1. n \in Nodes /\ p # Nobody
    BY <1>2, Coordinates DEF BeginCopy, EndCopy, CopyFails, PlacesInv
  <2>2. /\ UNCHANGED <<at, inited>> /\ proc[p] = "alive"
        /\ cache[n] = "none" \/ lock[n] = p
    BY <1>2 DEF BeginCopy, EndCopy, CopyFails, Local
  <2>3. cache[n] # "whole"
    BY <2>1, <2>2 DEF CopiesInv
  <2>4. CASE BeginCopy(p)
    <3>1. /\ \A m \in Nodes : /\ lock'[m] = IF m = n THEN p ELSE lock[m]
                              /\ cache'[m] = IF m = n THEN "partial" ELSE cache[m]
          /\ UNCHANGED <<proc, crashes>>
      BY <2>4 DEF BeginCopy, Local, Shape
    <3> QED
      BY <2>1, <2>2, <2>3, <3>1 DEF CopiesInv, PlacesInv
  <2>5. CASE EndCopy(p)
    <3>1. /\ \A m \in Nodes : /\ lock'[m] = IF m = n THEN Nobody ELSE lock[m]
                              /\ cache'[m] = IF m = n THEN "whole" ELSE cache[m]
          /\ UNCHANGED <<proc, crashes>>
      BY <2>5 DEF EndCopy, Local, Shape
    <3> QED
      BY <2>1, <2>2, <2>3, <3>1 DEF CopiesInv, PlacesInv
  <2>6. CASE CopyFails(p)
    <3>1. PICK left \in {"none", "partial"} : cache' = [cache EXCEPT ![n] = left]
      BY <2>6 DEF CopyFails, Local
    <3>2. /\ \A m \in Nodes : /\ lock'[m] = IF m = n THEN Nobody ELSE lock[m]
                              /\ cache'[m] = IF m = n THEN left ELSE cache[m]
          /\ \A q \in Procs : proc'[q] = IF q = p THEN "raised" ELSE proc[q]
          /\ crashes' > 0
      BY <2>6, <3>1 DEF CopyFails, Local, Shape
    <3> QED
      BY <2>1, <2>2, <2>3, <3>2 DEF CopiesInv, PlacesInv
  <2> QED
    BY <1>2, <2>4, <2>5, <2>6
<1>3. ASSUME NEW p \in Procs, Serve(p) PROVE CopiesInv'
  <2> DEFINE n == at[p][1]
  <2>1. /\ UNCHANGED <<at, crashes, cache, lock>> /\ proc[p] = "alive"
        /\ lock[n] = Nobody
    BY <1>3 DEF Serve, Found, Local, files
  <2>2. n \in Nodes
    BY <2>1 DEF PlacesInv
  <2>3. CASE cache[n] = "whole" /\ UNCHANGED proc
    <3>1. \A q \in Procs : q # p => inited'[q] = inited[q]
      BY <1>3 DEF Serve, Shape
    <3> QED
      BY <2>1, <2>3, <3>1 DEF CopiesInv
  <2>4. CASE cache[n] = "partial" /\ UNCHANGED inited
    <3>1. \A q \in Procs : q # p => proc'[q] = proc[q]
      BY <1>3 DEF Serve, Shape
    <3>2. crashes > 0
      BY <2>1, <2>2, <2>4 DEF CopiesInv
    <3>3. proc'[p] # "none"
      BY <1>3 DEF Serve, Shape
    <3> QED
      BY <2>1, <2>4, <3>1, <3>2, <3>3 DEF CopiesInv
  <2> QED
    BY <1>3, <2>3, <2>4 DEF Serve, Local
<1>4. ASSUME NEW p \in Procs, Crash(p) PROVE CopiesInv'
  <2>1. /\ UNCHANGED <<at, inited, cache>> /\ crashes' > 0
        /\ \A q \in Procs : proc'[q] = IF q = p THEN "dead" ELSE proc[q]
        /\ \A n \in Nodes : lock'[n] = IF lock[n] = p THEN Nobody ELSE lock[n]
    BY <1>4 DEF Crash, Shape
  <2> QED
    BY <2>1 DEF CopiesInv
<1>5. ASSUME NEW p \in Procs, Configure(p) \/ Join(p) \/ Form(p) \/ GiveUp(p) PROVE CopiesInv'
  <2>1. UNCHANGED <<at, inited, cache, lock, crashes>>
    BY <1>5 DEF Configure, Join, Form, GiveUp, files
  <2>2. \A q \in Procs : /\ q # p => proc'[q] = proc[q]
                         /\ proc'[p] \notin {"none", "raised"}
    BY <1>5 DEF Configure, Join, Form, GiveUp, Shape
  <2> QED
    BY <2>1, <2>2 DEF CopiesInv
<1>6. CASE \/ Place \/ NoClass \/ Poll \/ RankInfo \/ Spawn \/ Unused \/ CallInit \/ InitReturns
           \/ InitFails \/ UNCHANGED vars
  <2>1. UNCHANGED <<proc, at, inited, cache, lock, crashes>>
    BY <1>6 DEF Place, NoClass, Poll, RankInfo, Spawn, Unused, CallInit, InitReturns, InitFails,
       vars, files
  <2> QED
    BY <2>1 DEF CopiesInv
<1> QED
  BY <1>1, <1>2, <1>3, <1>4, <1>5, <1>6 DEF Next, Driver, Worker

-----------------------------------------------------------------------------
(* The roles. *)

LEMMA RolesDiffer ==
  /\ <<"critic">> # <<"ref">> /\ <<"critic">> # <<"rm">> /\ <<"ref">> # <<"rm">>
  /\ ActorRollout \notin {<<"critic">>, <<"ref">>, <<"rm">>}
<1>1. Len(ActorRollout) = 2 /\ Len(<<"critic">>) = 1 /\ Len(<<"ref">>) = 1 /\ Len(<<"rm">>) = 1
  BY DEF ActorRollout
<1>2. <<"critic">>[1] = "critic" /\ <<"ref">>[1] = "ref" /\ <<"rm">>[1] = "rm"
  OBVIOUS
<1> QED
  BY <1>1, <1>2

LEMMA RolesAre == Range(AllRoles) = {ActorRollout, <<"critic">>, <<"ref">>, <<"rm">>}
BY DEF Range, AllRoles

LEMMA RolloutUsed == Uses(ActorRollout)
BY RolesDiffer DEF Uses

\* What is left of the order in which the models are built.
Rests == {InitOrder, <<<<"ref">>, <<"rm">>, ActorRollout>>, <<<<"rm">>, ActorRollout>>,
          <<ActorRollout>>, <<>>}

LEMMA RestOf ==
  ASSUME NEW s \in Rests, s # <<>>
  PROVE  /\ Tail(s) \in Rests /\ Head(s) \in Range(AllRoles)
         /\ Range(s) = {Head(s)} \cup Range(Tail(s)) /\ Head(s) \notin Range(Tail(s))
         /\ Head(s) = ActorRollout <=> Tail(s) = <<>>
         /\ ActorRollout \in Range(s)
<1>1. CASE s = InitOrder
  <2>1. Tail(s) = <<<<"ref">>, <<"rm">>, ActorRollout>> /\ Head(s) = <<"critic">>
    BY <1>1 DEF InitOrder, ActorRollout
  <2>2. Range(s) = {<<"critic">>, <<"ref">>, <<"rm">>, ActorRollout}
    BY <1>1 DEF InitOrder, ActorRollout, Range
  <2>4. Range(<<<<"ref">>, <<"rm">>, ActorRollout>>) = {<<"ref">>, <<"rm">>, ActorRollout}
    BY DEF Range
  <2>5. <<<<"ref">>, <<"rm">>, ActorRollout>> # <<>>
    OBVIOUS
  <2>3. Range(Tail(s)) = {<<"ref">>, <<"rm">>, ActorRollout} /\ Tail(s) # <<>>
    BY <2>1, <2>4, <2>5
  <2> QED
    BY <2>1, <2>2, <2>3, RolesAre, RolesDiffer DEF Rests
<1>2. CASE s = <<<<"ref">>, <<"rm">>, ActorRollout>>
  <2>1. Tail(s) = <<<<"rm">>, ActorRollout>> /\ Head(s) = <<"ref">>
    BY <1>2
  <2>2. Range(s) = {<<"ref">>, <<"rm">>, ActorRollout}
    BY <1>2 DEF Range
  <2>4. Range(<<<<"rm">>, ActorRollout>>) = {<<"rm">>, ActorRollout}
    BY DEF Range
  <2>5. <<<<"rm">>, ActorRollout>> # <<>>
    OBVIOUS
  <2>3. Range(Tail(s)) = {<<"rm">>, ActorRollout} /\ Tail(s) # <<>>
    BY <2>1, <2>4, <2>5
  <2> QED
    BY <2>1, <2>2, <2>3, RolesAre, RolesDiffer DEF Rests
<1>3. CASE s = <<<<"rm">>, ActorRollout>>
  <2>1. Tail(s) = <<ActorRollout>> /\ Head(s) = <<"rm">>
    BY <1>3
  <2>2. Range(s) = {<<"rm">>, ActorRollout}
    BY <1>3 DEF Range
  <2>4. Range(<<ActorRollout>>) = {ActorRollout}
    BY DEF Range
  <2>5. <<ActorRollout>> # <<>>
    OBVIOUS
  <2>3. Range(Tail(s)) = {ActorRollout} /\ Tail(s) # <<>>
    BY <2>1, <2>4, <2>5
  <2> QED
    BY <2>1, <2>2, <2>3, RolesAre, RolesDiffer DEF Rests
<1>4. CASE s = <<ActorRollout>>
  <2>1. Tail(s) = <<>> /\ Head(s) = ActorRollout
    BY <1>4
  <2>2. Range(s) = {ActorRollout}
    BY <1>4 DEF Range
  <2>3. Range(Tail(s)) = {}
    BY <2>1 DEF Range
  <2> QED
    BY <2>1, <2>2, <2>3, RolesAre DEF Rests
<1> QED
  BY <1>1, <1>2, <1>3, <1>4 DEF Rests

\* The words of the names of roles and methods.
Words ==
  {"actor", "rollout", "critic", "ref", "rm", "init", "model"}
    \cup UNION {UNION {Range(m) : m \in Methods[r]} : r \in Range(AllRoles)}

LEMMA NamesAreWords ==
  ASSUME NEW r \in Range(AllRoles)
  PROVE  /\ r \in Seq(Words) /\ Len(r) \in {1, 2}
         /\ InitModel \in Methods[r] /\ Methods[r] \subseteq Seq(Words)
         /\ InitModel \in Seq(Words) /\ Len(InitModel) = 2
<1>1. \A x, y \in Words : <<x>> \in Seq(Words) /\ <<x, y>> \in Seq(Words)
  OBVIOUS
<1>2. /\ "actor" \in Words /\ "rollout" \in Words /\ "critic" \in Words /\ "ref" \in Words
      /\ "rm" \in Words /\ "init" \in Words /\ "model" \in Words
  BY DEF Words
<1>3. r \in Seq(Words) /\ Len(r) \in {1, 2}
  <2>1. CASE r = <<"actor", "rollout">>
    BY <1>1, <1>2, <2>1
  <2>2. CASE r = <<"critic">>
    BY <1>1, <1>2, <2>2
  <2>3. CASE r = <<"ref">>
    BY <1>1, <1>2, <2>3
  <2>4. CASE r = <<"rm">>
    BY <1>1, <1>2, <2>4
  <2> QED
    BY <2>1, <2>2, <2>3, <2>4, RolesAre DEF ActorRollout
<1>4. InitModel \in Seq(Words) /\ Len(InitModel) = 2
  BY <1>1, <1>2 DEF InitModel
<1>5. ASSUME NEW m \in Methods[r] PROVE m \in Seq(Words)
  <2>1. m \in Seq(Range(m))
    BY ClusterAssumption
  <2>2. Range(m) \subseteq Words
    BY DEF Words
  <2> QED
    BY <2>1, <2>2
<1> QED
  BY <1>3, <1>4, <1>5, ClusterAssumption

LEMMA Joined ==
  ASSUME NEW W, NEW a \in Seq(W), NEW b \in Seq(W)
  PROVE  a \o b \in Seq(W) /\ Len(a \o b) = Len(a) + Len(b)
OBVIOUS

\* A call of init_model through the group of a role reaches the worker of that role.
LEMMA Reached ==
  ASSUME NEW g, NEW role \in RolesOf(g)
  PROVE  Rebound(role, Bound(g))[InitModel] = <<role, InitModel>>
<1> DEFINE name == role \o InitModel
           own == {n \in DOMAIN Bound(g) : IsPrefix(role, n)}
           short(n) == SubSeq(n, Len(role) + 1, Len(n))
<1>1. \A r \in RolesOf(g) : /\ r \in Range(AllRoles) /\ r \in Seq(Words) /\ Len(r) \in {1, 2}
                            /\ InitModel \in Methods[r] /\ Methods[r] \subseteq Seq(Words)
  BY NamesAreWords DEF RolesOf
<1>0. InitModel \in Seq(Words) /\ Len(InitModel) = 2
  BY <1>1, NamesAreWords
<1>2. name \in DOMAIN DictMethods(role) /\ DictMethods(role)[name] = <<role, short(name)>>
  BY <1>1 DEF DictMethods
<1>3. name \in Seq(Words) /\ Len(name) = Len(role) + 2 /\ short(name) = InitModel
  <2>0. role \in Seq(Words)
    BY <1>1
  <2>1. name \in Seq(Words) /\ Len(name) = Len(role) + 2
    BY <1>0, <2>0, Joined
  <2>2. /\ short(name) \in Seq(Words) /\ Len(short(name)) = 2
        /\ short(name)[1] = InitModel[1] /\ short(name)[2] = InitModel[2]
    BY <1>0, <1>1, <2>1
  <2> QED
    BY <1>0, <2>1, <2>2
<1>4. name \in own
  <2>1. Len(role) <= Len(name) /\ SubSeq(name, 1, Len(role)) = role /\ SubSeq(role, 1, Len(role)) = role
    BY <1>0, <1>1, <1>3
  <2> QED
    BY <1>2, <2>1 DEF Bound, IsPrefix
\* Names of different roles differ in their first word.
<1>5. ASSUME NEW r \in RolesOf(g), NEW m \in Methods[r], r \o m = name PROVE r = role
  <2>1. r[1] = name[1] /\ role[1] = name[1]
    BY <1>0, <1>1, <1>5
  <2> QED
    BY <1>1, <2>1, RolesAre DEF ActorRollout
<1>6. Bound(g)[name] = <<role, InitModel>>
  <2>1. \A r \in RolesOf(g) : name \in DOMAIN DictMethods(r) => r = role
    BY <1>5 DEF DictMethods
  <2>2. (CHOOSE r \in RolesOf(g) : name \in DOMAIN DictMethods(r)) = role
    BY <1>2, <2>1
  <2>3. name \in DOMAIN Bound(g)
    BY <1>4
  <2> QED
    BY <1>2, <1>3, <2>2, <2>3 DEF Bound
<1>7. ASSUME NEW n \in own, short(n) = InitModel PROVE n = name
  <2>1. PICK r \in RolesOf(g) : \E m \in Methods[r] : n = r \o m
    BY DEF Bound, DictMethods
  <2>0. n \in Seq(Words)
    BY <1>1, <2>1
  <2>2. n \in Seq(Words) /\ Len(role) <= Len(n) /\ SubSeq(n, 1, Len(role)) = SubSeq(role, 1, Len(role))
    BY <2>0 DEF IsPrefix
  <2>3. Len(n) = Len(name)
    BY <1>0, <1>1, <1>3, <1>7, <2>2
  <2>4. \A i \in 1..Len(role) : n[i] = role[i] /\ name[i] = role[i]
    BY <1>0, <1>1, <1>3, <2>2, <2>3
  <2>5. \A i \in 1..2 : n[Len(role) + i] = InitModel[i] /\ name[Len(role) + i] = InitModel[i]
    BY <1>0, <1>1, <1>3, <1>7, <2>2, <2>3
  <2>6. \A i \in 1..Len(n) : n[i] = name[i]
    <3> SUFFICES ASSUME NEW i \in 1..Len(n) PROVE n[i] = name[i]
      OBVIOUS
    <3>0. i \in Nat /\ i >= 1 /\ Len(role) \in Nat
      BY <1>1, <2>2
    <3>1. CASE i <= Len(role)
      <4>1. i \in 1..Len(role)
        BY <3>0, <3>1
      <4> QED
        BY <2>4, <4>1
    <3>2. CASE ~(i <= Len(role))
      <4>1. i - Len(role) \in 1..2 /\ i = Len(role) + (i - Len(role))
        BY <1>1, <1>3, <2>3, <3>0, <3>2
      <4> QED
        BY <2>5, <4>1
    <3> QED
      BY <3>1, <3>2
  <2> QED
    BY <1>3, <2>2, <2>3, <2>6
<1> HIDE DEF name
<1>8. (CHOOSE n \in own : short(n) = InitModel) = name
  BY <1>3, <1>4, <1>7
<1>9. /\ InitModel \in DOMAIN Bound(g) \cup {short(n) : n \in own}
      /\ \E n \in own : short(n) = InitModel
  BY <1>3, <1>4
<1>10. Rebound(role, Bound(g))[InitModel] = Bound(g)[CHOOSE n \in own : short(n) = InitModel]
  BY <1>9 DEF Rebound
<1> QED
  BY <1>6, <1>8, <1>10

-----------------------------------------------------------------------------
(* Which models are there: the driver goes through the order of the roles, and a process has  *)
(* initialised those the driver is through with, and the current one once it has answered.    *)

Began == pc \in {"init", "wait", "trained"} \/ (pc = "failed" /\ todo # <<>>)
Through(p, role) ==
  \/ role \notin Range(todo)
  \/ pc \in {"wait", "failed"} /\ role = Head(todo) /\ asked[p] = <<>>
Done(p) == {role \in RolesOf(p[1]) : Began /\ Through(p, role)}

TodoInv ==
  /\ config \in Configs
  /\ pc \in {"place", "create", "poll", "spawn", "init", "wait", "trained", "failed"}
  /\ todo \in Rests
  /\ pc \in {"place", "create", "poll", "spawn", "trained"} => todo = <<>>
  /\ pc \in {"init", "wait"} => todo # <<>>
  /\ todo # <<>> /\ pc \in {"wait", "failed"} => Uses(Head(todo))

\* A group answers for its own role, and every role in use has one when the models are built.
GroupsInv ==
  /\ \A role \in DOMAIN wg : wg[role][InitModel] = <<role, InitModel>>
  /\ \A role \in Range(AllRoles) :
       Uses(role) /\ (config.pool[role] < pool \/ pc \in {"init", "wait"}) => role \in DOMAIN wg

BuiltInv(p) ==
  /\ asked[p] # <<>> =>
       /\ pc \in {"wait", "failed"} /\ todo # <<>>
       /\ asked[p] = <<Head(todo), InitModel>> /\ Head(todo) \in RolesOf(p[1])
  /\ inited[p] \in Seq(Range(AllRoles)) /\ IsInjective(inited[p]) /\ Range(inited[p]) = Done(p)

RolesInv == TodoInv /\ GroupsInv /\ \A p \in Procs : BuiltInv(p)

ClusterInv == Shape /\ RendezvousInv /\ PlacesInv /\ CopiesInv /\ RolesInv

\* The configuration is fixed.
LEMMA Fixed ==
  ASSUME [Next]_vars
  PROVE  config' = config /\ \A role : Uses(role)' = Uses(role) /\ \A g : RolesOf(g)' = RolesOf(g)
<1>1. config' = config
  BY DEF Next, vars, Driver, Worker, Place, NoClass, CreateWorker, Poll, RankInfo, Spawn, Unused,
         CallInit, InitReturns, InitFails, Configure, Join, Form, GiveUp, BeginCopy, EndCopy, Serve,
         CopyFails, Crash
<1>2. ASSUME NEW role PROVE Uses(role)' = Uses(role)
  BY <1>1 DEF Uses
<1>3. ASSUME NEW g PROVE RolesOf(g)' = RolesOf(g)
  BY <1>1, <1>2 DEF RolesOf
<1> QED
  BY <1>1, <1>2, <1>3

\* A process that works, or dies, leaves the driver alone.
LEMMA WorkersApart ==
  ASSUME NEW p \in Procs, Worker(p) \/ CopyFails(p) \/ Crash(p)
  PROVE  UNCHANGED <<pc, pool, todo, wg>> /\ (~Serve(p) => UNCHANGED <<asked, inited>>)
BY DEF Worker, Configure, Join, Form, GiveUp, BeginCopy, EndCopy, Serve, CopyFails, Crash, driver

LEMMA NextTodo ==
  ASSUME Shape, TodoInv, [Next]_vars
  PROVE  TodoInv'
<1> USE Fixed
<1>1. CASE Place \/ NoClass \/ CreateWorker \/ Poll \/ RankInfo
  <2>1. /\ pc \in {"place", "create", "poll"} /\ todo' = todo
        /\ pc' \in {"place", "create", "poll", "spawn", "failed"}
    BY <1>1 DEF Place, NoClass, CreateWorker, Poll, RankInfo
  <2> QED
    BY <2>1 DEF TodoInv
<1>2. CASE Spawn
  <2>1. /\ pc \in {"spawn", "create"}
        /\ (pc' = "place" /\ todo' = todo) \/ (pc' = "init" /\ todo' = InitOrder)
    BY <1>2 DEF Spawn
  <2>2. InitOrder # <<>> /\ InitOrder \in Rests
    BY DEF InitOrder, Rests
  <2> QED
    BY <2>1, <2>2 DEF TodoInv
<1>3. CASE Unused
  <2>1. pc = "init" /\ pc' = "init" /\ todo' = Tail(todo) /\ ~Uses(Head(todo))
    BY <1>3 DEF Unused
  <2>2. todo \in Rests /\ todo # <<>>
    BY <2>1 DEF TodoInv
  <2>3. Tail(todo) \in Rests /\ Tail(todo) # <<>>
    BY <2>1, <2>2, RestOf, RolloutUsed
  <2> QED
    BY <2>1, <2>3 DEF TodoInv
<1>4. CASE CallInit
  BY <1>4 DEF CallInit, TodoInv
<1>5. CASE InitReturns
  <2>1. pc = "wait" /\ pc' = (IF Tail(todo) = <<>> THEN "trained" ELSE "init") /\ todo' = Tail(todo)
    BY <1>5 DEF InitReturns
  <2>2. Tail(todo) \in Rests
    BY <2>1, RestOf DEF TodoInv
  <2> QED
    BY <2>1, <2>2 DEF TodoInv
<1>6. CASE InitFails
  BY <1>6 DEF InitFails, TodoInv
<1>7. CASE (\E p \in Procs : Worker(p) \/ CopyFails(p) \/ Crash(p)) \/ UNCHANGED vars
  <2>1. UNCHANGED <<pc, todo>>
    BY <1>7, WorkersApart DEF vars, driver
  <2> QED
    BY <2>1 DEF TodoInv
<1> QED
  BY <1>1, <1>2, <1>3, <1>4, <1>5, <1>6, <1>7 DEF Next, Driver

LEMMA NextGroups ==
  ASSUME Shape, TodoInv, GroupsInv, [Next]_vars
  PROVE  GroupsInv'
<1> USE Fixed
<1>1. CASE Spawn
  <2>1. /\ wg' = [role \in DOMAIN wg \cup RolesOf(pool) |->
                    IF role \in DOMAIN wg THEN wg[role] ELSE Rebound(role, Bound(pool))]
        /\ pc \notin {"init", "wait"}
        /\ \/ pool' = pool + 1 /\ pc' = "place"
           \/ pool' = pool /\ pool + 1 \notin Pools
    BY <1>1 DEF Spawn
  <2>2. ASSUME NEW role \in DOMAIN wg' PROVE wg'[role][InitModel] = <<role, InitModel>>
    <3>1. CASE role \in DOMAIN wg
      BY <2>1, <3>1 DEF GroupsInv
    <3>2. CASE role \notin DOMAIN wg
      <4>1. role \in RolesOf(pool) /\ wg'[role] = Rebound(role, Bound(pool))
        BY <2>1, <3>2
      <4> QED
        BY <4>1, Reached
    <3> QED
      BY <3>1, <3>2
  <2>3. ASSUME NEW role \in Range(AllRoles), Uses(role),
               config.pool[role] < pool' \/ pc' \in {"init", "wait"}
        PROVE  role \in DOMAIN wg'
    <3>1. config.pool[role] \in Pools
      BY ClusterAssumption DEF TodoInv
    <3>2. Pools = 1..Len(Store) /\ Len(Store) \in Nat /\ pool \in Pools
      BY ClusterAssumption DEF Pools, Shape
    <3>3. config.pool[role] < pool \/ config.pool[role] = pool
      BY <2>1, <2>3, <3>1, <3>2
    <3>4. CASE config.pool[role] < pool
      BY <2>1, <2>3, <3>4 DEF GroupsInv
    <3>5. CASE config.pool[role] = pool
      BY <2>1, <2>3, <3>5 DEF RolesOf
    <3> QED
      BY <3>3, <3>4, <3>5
  <2> QED
    BY <2>2, <2>3 DEF GroupsInv
<1>2. CASE \/ Place \/ NoClass \/ CreateWorker \/ Poll \/ RankInfo \/ Unused \/ CallInit
           \/ InitReturns \/ InitFails
           \/ (\E p \in Procs : Worker(p) \/ CopyFails(p) \/ Crash(p)) \/ UNCHANGED vars
  <2>1. UNCHANGED <<wg, pool>> /\ (pc' \in {"init", "wait"} => pc \in {"init", "wait"})
    BY <1>2, WorkersApart DEF Place, NoClass, CreateWorker, Poll, RankInfo, Unused, CallInit,
       InitReturns, InitFails, vars, driver
  <2> QED
    BY <2>1 DEF GroupsInv
<1> QED
  BY <1>1, <1>2 DEF Next, Driver

\* A new element at the end of a sequence without repetitions.
LEMMA Appended ==
  ASSUME NEW S, NEW s \in Seq(S), NEW x \in S, IsInjective(s), x \notin Range(s)
  PROVE  /\ Append(s, x) \in Seq(S) /\ IsInjective(Append(s, x))
         /\ Range(Append(s, x)) = Range(s) \cup {x}
<1> DEFINE t == Append(s, x)
<1>1. /\ t \in Seq(S) /\ DOMAIN t = 1..(Len(s) + 1) /\ DOMAIN s = 1..Len(s) /\ Len(s) \in Nat
      /\ t[Len(s) + 1] = x /\ \A i \in 1..Len(s) : t[i] = s[i]
  OBVIOUS
<1>2. \A i \in DOMAIN t : i \in 1..Len(s) \/ i = Len(s) + 1
  BY <1>1
<1>3. \A i \in 1..Len(s) : t[i] # x
  BY <1>1 DEF Range
<1>4. IsInjective(t)
  <2> SUFFICES ASSUME NEW a \in DOMAIN t, NEW b \in DOMAIN t, t[a] = t[b] PROVE a = b
    BY DEF IsInjective
  <2>1. CASE a = Len(s) + 1 \/ b = Len(s) + 1
    BY <1>1, <1>2, <1>3, <2>1
  <2>2. CASE a \in 1..Len(s) /\ b \in 1..Len(s)
    BY <1>1, <2>2 DEF IsInjective
  <2> QED
    BY <1>2, <2>1, <2>2
<1>5. Range(t) = Range(s) \cup {x}
  <2>1. \A y : (\E i \in DOMAIN t : t[i] = y) <=> (y = x \/ \E i \in DOMAIN s : s[i] = y)
    BY <1>1, <1>2
  <2> QED
    BY <2>1 DEF Range
<1> QED
  BY <1>1, <1>4, <1>5

\* A process that was asked nothing and initialised nothing new keeps the invariant when the same
\* models are done.
LEMMA SameBuilt ==
  ASSUME NEW p \in Procs, BuiltInv(p), asked'[p] = asked[p], inited'[p] = inited[p],
         Done(p)' = Done(p),
         asked[p] # <<>> => todo' = todo /\ pc' \in {"wait", "failed"} /\ \A g : RolesOf(g)' = RolesOf(g)
  PROVE  BuiltInv(p)'
BY DEF BuiltInv

LEMMA NextBuilt ==
  ASSUME Shape, TodoInv, GroupsInv, NEW p \in Procs, BuiltInv(p), [Next]_vars
  PROVE  BuiltInv(p)'
<1> USE Fixed
<1>1. CASE Place \/ NoClass \/ CreateWorker \/ Poll \/ RankInfo
  <2>1. /\ pc \in {"place", "create", "poll"} /\ UNCHANGED <<todo, asked, inited>>
        /\ pc' \in {"place", "create", "poll", "spawn", "failed"}
    BY <1>1 DEF Place, NoClass, CreateWorker, Poll, RankInfo
  <2>2. asked[p] = <<>> /\ todo = <<>>
    BY <2>1 DEF BuiltInv, TodoInv
  <2>3. Done(p)' = {} /\ Done(p) = {}
    BY <2>1, <2>2 DEF Done, Began
  <2> QED
    BY <2>1, <2>2, <2>3, SameBuilt
<1>2. CASE Spawn
  <2>1. /\ pc \in {"create", "spawn"} /\ UNCHANGED <<asked, inited>>
        /\ (pc' = "place" /\ todo' = todo) \/ (pc' = "init" /\ todo' = InitOrder)
    BY <1>2 DEF Spawn
  <2>2. asked[p] = <<>> /\ Done(p) = {}
    BY <2>1 DEF BuiltInv, Done, Began
  <2>3. Done(p)' = {}
    <3>1. CASE pc' = "place"
      BY <3>1 DEF Done, Began
    <3>2. CASE pc' = "init" /\ todo' = InitOrder
      <4>1. InitOrder \in Rests /\ Range(InitOrder) = Range(AllRoles)
        <5>1. Range(InitOrder) = {<<"critic">>, <<"ref">>, <<"rm">>, ActorRollout}
          BY DEF InitOrder, ActorRollout, Range
        <5> QED
          BY <5>1, RolesAre DEF Rests
      <4>2. \A role \in RolesOf(p[1]) : role \in Range(todo')
        BY <3>2, <4>1 DEF RolesOf
      <4> QED
        BY <3>2, <4>2 DEF Done, Through
    <3> QED
      BY <2>1, <3>1, <3>2
  <2> QED
    BY <2>1, <2>2, <2>3, SameBuilt
<1>3. CASE Unused
  <2>1. /\ pc = "init" /\ pc' = "init" /\ todo' = Tail(todo) /\ ~Uses(Head(todo))
        /\ UNCHANGED <<asked, inited>>
    BY <1>3 DEF Unused
  <2>2. asked[p] = <<>> /\ Range(todo) = {Head(todo)} \cup Range(Tail(todo))
    BY <2>1, RestOf DEF BuiltInv, TodoInv
  <2>3. \A role \in RolesOf(p[1]) : role # Head(todo)
    BY <2>1 DEF RolesOf
  <2>4. Done(p)' = Done(p)
    BY <2>1, <2>2, <2>3 DEF Done, Began, Through
  <2> QED
    BY <2>1, <2>2, <2>4, SameBuilt
<1>4. CASE CallInit
  <2> DEFINE h == Head(todo)
  <2>1. /\ pc = "init" /\ pc' = "wait" /\ UNCHANGED <<todo, inited>> /\ Uses(h)
        /\ asked'[p] = IF p \in Members(config.pool[h]) THEN wg[h][InitModel] ELSE asked[p]
    BY <1>4 DEF CallInit
  <2>2. todo # <<>> /\ asked[p] = <<>> /\ h \in Range(AllRoles)
    BY <2>1, RestOf DEF BuiltInv, TodoInv
  <2>3. wg[h][InitModel] = <<h, InitModel>>
    BY <2>1, <2>2 DEF GroupsInv
  <2>4. p \in Members(config.pool[h]) <=> h \in RolesOf(p[1])
    BY <2>1, <2>2, Coordinates DEF RolesOf
  <2>5. <<h, InitModel>> # <<>>
    OBVIOUS
  <2>6. Done(p)' = Done(p)
    <3>1. ASSUME NEW role \in RolesOf(p[1]) PROVE Through(p, role)' <=> Through(p, role)
      BY <2>1, <2>3, <2>4, <2>5, <3>1 DEF Through
    <3> QED
      BY <2>1, <3>1 DEF Done, Began
  <2>7. asked'[p] # <<>> => asked'[p] = <<h, InitModel>> /\ h \in RolesOf(p[1])
    BY <2>1, <2>2, <2>3, <2>4
  <2> QED
    BY <2>1, <2>2, <2>6, <2>7 DEF BuiltInv
<1>5. CASE InitReturns
  <2> DEFINE h == Head(todo)
  <2>1. /\ pc = "wait" /\ pc' = (IF Tail(todo) = <<>> THEN "trained" ELSE "init") /\ todo' = Tail(todo)
        /\ UNCHANGED <<asked, inited>>
        /\ \A q \in Members(config.pool[h]) : asked[q] = <<>>
    BY <1>5 DEF InitReturns
  <2>2. /\ Range(todo) = {h} \cup Range(Tail(todo)) /\ h \notin Range(Tail(todo))
    BY <2>1, RestOf DEF TodoInv
  <2>3. h \in RolesOf(p[1]) => asked[p] = <<>>
    BY <2>1, Coordinates DEF RolesOf
  <2>4. asked[p] = <<>>
    BY <2>3 DEF BuiltInv
  <2>5. Done(p)' = Done(p)
    <3>1. ASSUME NEW role \in RolesOf(p[1]) PROVE Through(p, role)' <=> Through(p, role)
      BY <2>1, <2>2, <2>4, <3>1 DEF Through
    <3> QED
      BY <2>1, <3>1 DEF Done, Began
  <2> QED
    BY <2>1, <2>4, <2>5, SameBuilt
<1>6. CASE InitFails
  <2>1. pc = "wait" /\ pc' = "failed" /\ UNCHANGED <<todo, asked, inited>> /\ todo # <<>>
    BY <1>6 DEF InitFails, TodoInv
  <2>2. Done(p)' = Done(p)
    BY <2>1 DEF Done, Began, Through
  <2> QED
    BY <2>1, <2>2, SameBuilt
<1>7. ASSUME NEW q \in Procs, Serve(q), cache[Local(q)] = "whole",
             inited' = [inited EXCEPT ![q] = Append(@, asked[q][1])],
             asked' = [asked EXCEPT ![q] = <<>>]
      PROVE  BuiltInv(p)'
  <2>1. UNCHANGED <<pc, todo>> /\ asked[q] # <<>>
    BY <1>7, WorkersApart DEF Worker, Serve
  <2>2. CASE q # p
    <3>1. asked'[p] = asked[p] /\ inited'[p] = inited[p]
      BY <1>7, <2>2 DEF Shape
    <3>2. Done(p)' = Done(p)
      BY <2>1, <3>1 DEF Done, Began, Through
    <3> QED
      BY <2>1, <3>1, <3>2, SameBuilt DEF BuiltInv
  <2>3. CASE q = p
    <3> DEFINE h == Head(todo)
    <3>1. /\ pc \in {"wait", "failed"} /\ todo # <<>> /\ asked[p] = <<h, InitModel>>
          /\ h \in RolesOf(p[1]) /\ h \in Range(todo) /\ h \in Range(AllRoles)
      BY <2>1, <2>3, RestOf DEF BuiltInv, TodoInv
    <3>2. asked'[p] = <<>> /\ inited'[p] = Append(inited[p], h)
      BY <1>7, <2>3, <3>1 DEF Shape
    <3>3. Done(p)' = Done(p) \cup {h} /\ h \notin Done(p)
      <4>1. Began /\ Began'
        BY <2>1, <3>1 DEF Began
      <4>2. ASSUME NEW role \in RolesOf(p[1]) PROVE Through(p, role)' <=> (Through(p, role) \/ role = h)
        BY <2>1, <3>1, <3>2, <4>2 DEF Through
      <4>3. ~Through(p, h)
        BY <2>1, <2>3, <3>1 DEF Through
      <4> QED
        BY <3>1, <4>1, <4>2, <4>3 DEF Done
    <3>4. /\ inited[p] \in Seq(Range(AllRoles)) /\ IsInjective(inited[p]) /\ Range(inited[p]) = Done(p)
      BY DEF BuiltInv
    <3>5. /\ inited'[p] \in Seq(Range(AllRoles)) /\ IsInjective(inited'[p])
          /\ Range(inited'[p]) = Range(inited[p]) \cup {h}
      BY <3>1, <3>2, <3>3, <3>4, Appended
    <3> QED
      BY <3>2, <3>3, <3>4, <3>5 DEF BuiltInv
  <2> QED
    BY <2>2, <2>3
<1>8. CASE \/ UNCHANGED vars
           \/ \E q \in Procs : (Worker(q) \/ CopyFails(q) \/ Crash(q)) /\ UNCHANGED <<asked, inited>>
  <2>1. UNCHANGED <<pc, todo, asked, inited>>
    BY <1>8, WorkersApart DEF vars, driver
  <2>2. Done(p)' = Done(p)
    BY <2>1 DEF Done, Began, Through
  <2> QED
    BY <2>1, <2>2, SameBuilt DEF BuiltInv
<1>9. ASSUME NEW q \in Procs, Worker(q) \/ CopyFails(q) \/ Crash(q) PROVE BuiltInv(p)'
  <2>1. CASE Serve(q)
    <3>1. \/ /\ cache[Local(q)] = "whole"
             /\ inited' = [inited EXCEPT ![q] = Append(@, asked[q][1])]
             /\ asked' = [asked EXCEPT ![q] = <<>>]
          \/ UNCHANGED <<asked, inited>>
      BY <2>1 DEF Serve
    <3> QED
      BY <1>7, <1>8, <1>9, <2>1, <3>1
  <2>2. CASE ~Serve(q)
    BY <1>8, <1>9, <2>2, WorkersApart
  <2> QED
    BY <2>1, <2>2
<1> QED
  BY <1>1, <1>2, <1>3, <1>4, <1>5, <1>6, <1>8, <1>9 DEF Next, Driver

-----------------------------------------------------------------------------
(* The theorems. *)

LEMMA InitCluster == Init => ClusterInv
<1> SUFFICES ASSUME Init PROVE ClusterInv
  OBVIOUS
<1> USE DEF Init
<1>1. Pools = 1..Len(Store) /\ Len(Store) \in Nat /\ Len(Store) >= 1
  BY ClusterAssumption DEF Pools
<1>2. Shape
  BY <1>1 DEF Shape
<1>3. \A p \in Procs : proc[p] = "none" /\ inited[p] = <<>> /\ asked[p] = <<>>
  OBVIOUS
<1>4. RendezvousInv
  BY <1>3 DEF RendezvousInv, Addressed, Empty
<1>5. PlacesInv
  BY <1>3 DEF PlacesInv
<1>6. CopiesInv
  BY <1>3 DEF CopiesInv
<1>7. TodoInv
  BY DEF TodoInv, Rests
<1>8. GroupsInv
  <2>1. \A role \in Range(AllRoles) : config.pool[role] \in Nat /\ config.pool[role] >= 1
    BY <1>1, ClusterAssumption
  <2> QED
    BY <2>1 DEF GroupsInv, Empty
<1>9. ASSUME NEW p \in Procs PROVE BuiltInv(p)
  <2>1. Done(p) = {}
    BY DEF Done, Began
  <2>2. <<>> \in Seq(Range(AllRoles)) /\ IsInjective(<<>>) /\ Range(<<>>) = {}
    BY DEF IsInjective, Range
  <2> QED
    BY <1>3, <2>1, <2>2 DEF BuiltInv
<1> QED
  BY <1>2, <1>4, <1>5, <1>6, <1>7, <1>8, <1>9 DEF ClusterInv, RolesInv

LEMMA NextCluster == ClusterInv /\ [Next]_vars => ClusterInv'
<1> SUFFICES ASSUME ClusterInv, [Next]_vars PROVE ClusterInv'
  OBVIOUS
<1> USE DEF ClusterInv
<1>1. Shape' /\ RendezvousInv' /\ PlacesInv' /\ CopiesInv'
  BY NextShape, NextRendezvous, NextPlaces, NextCopies
<1>2. TodoInv' /\ GroupsInv'
  BY NextTodo, NextGroups DEF RolesInv
<1>3. ASSUME NEW p \in Procs PROVE BuiltInv(p)'
  BY <1>3, NextBuilt DEF RolesInv
<1> QED
  BY <1>1, <1>2, <1>3 DEF RolesInv

\* The invariant of the bring-up of the workers: what the addresses, the places, the local copies,
\* the groups and the initialised models of the processes are in every state (init_workers of
\* ray_trainer.py, RayWorkerGroup, Worker.__new__ and utils/fs.py).
THEOREM ClusterInvariance == Spec => []ClusterInv
<1>1. ClusterInv /\ [Next]_vars => ClusterInv'
  BY NextCluster
<1> QED
  BY InitCluster, <1>1, PTL DEF Spec

\* Whichever rank zero registers first, ranks meet only ranks of their own pool, and a pool that has
\* met is there with all its ranks, each with a bundle of its own (RayWorkerGroup, Worker.__new__).
THEOREM GroupsStayApart == Spec => []GroupsApart
<1>1. ClusterInv => GroupsApart
  <2> SUFFICES ASSUME ClusterInv, NEW p \in Procs, proc[p] \in {"joined", "alive"}
               PROVE  /\ Met(p) \subseteq Members(p[1])
                      /\ proc[p] = "alive" => Cardinality({at[q] : q \in Members(p[1])}) = WorldSize(p[1])
    BY DEF GroupsApart
  <2>1. Met(p) \subseteq Members(p[1])
    BY MetApart DEF ClusterInv
  <2>2. ASSUME proc[p] = "alive"
        PROVE  Cardinality({at[q] : q \in Members(p[1])}) = WorldSize(p[1])
    <3> DEFINE g == p[1]
               Places == {at[q] : q \in Members(g)}
               f == [q \in Members(g) |-> at[q]]
    <3>1. g \in Pools
      BY Coordinates
    <3>2. \A q \in Members(g) : at[q][2] = BundleOf(g, q[2])
      BY <2>2, <3>1, MembersAre DEF ClusterInv, RendezvousInv, PlacesInv
    <3>3. ASSUME NEW a \in Members(g), NEW b \in Members(g), at[a] = at[b] PROVE a = b
      <4>1. BundleOf(g, a[2]) = BundleOf(g, b[2])
        BY <3>2, <3>3
      <4>2. /\ a = <<g, a[2]>> /\ a[2] \in 0..(WorldSize(g) - 1)
            /\ b = <<g, b[2]>> /\ b[2] \in 0..(WorldSize(g) - 1)
        BY DEF Members
      <4>3. a[2] = b[2]
        BY <3>1, <4>1, <4>2, BundlesDiffer
      <4> QED
        BY <4>2, <4>3
    <3>4. f \in Bijection(Members(g), Places)
      BY <3>3 DEF Bijection, Injection, Surjection, IsInjective
    <3> QED
      BY <3>1, <3>4, MembersCount, FS_Bijection DEF ExistsBijection
  <2> QED
    BY <2>1, <2>2
<1> QED
  BY ClusterInvariance, <1>1, PTL

\* When the rollout is built in a process, every other model of that process is there, and no model
\* is built twice (the order of the calls in init_workers).
THEOREM RolloutIsLast == Spec => []RolloutLast
<1>1. ClusterInv => RolloutLast
  <2> SUFFICES ASSUME ClusterInv, NEW p \in Procs
               PROVE  /\ IsInjective(inited[p])
                      /\ ActorRollout \in Range(inited[p]) => Range(inited[p]) = RolesOf(p[1])
    BY DEF RolloutLast, ActorRollout
  <2>1. IsInjective(inited[p]) /\ Range(inited[p]) = Done(p) /\ todo \in Rests
    BY DEF ClusterInv, RolesInv, TodoInv, BuiltInv
  <2>2. ASSUME ActorRollout \in Done(p), NEW role \in RolesOf(p[1]) PROVE role \in Done(p)
    <3>1. CASE todo = <<>>
      <4>1. Range(todo) = {}
        BY <3>1 DEF Range
      <4> QED
        BY <2>2, <4>1 DEF Done, Through
    <3>2. CASE todo # <<>>
      <4>1. Head(todo) = ActorRollout /\ pc \in {"wait", "failed"} /\ asked[p] = <<>>
        BY <2>1, <2>2, <3>2, RestOf DEF Done, Through
      <4>2. Tail(todo) = <<>> /\ Range(todo) = {Head(todo)} \cup Range(Tail(todo))
        BY <2>1, <3>2, <4>1, RestOf
      <4>3. Range(todo) = {ActorRollout}
        BY <4>1, <4>2 DEF Range
      <4> QED
        BY <2>2, <4>1, <4>3 DEF Done, Through
    <3> QED
      BY <3>1, <3>2
  <2>3. Done(p) \subseteq RolesOf(p[1])
    BY DEF Done
  <2> QED
    BY <2>1, <2>2, <2>3
<1> QED
  BY ClusterInvariance, <1>1, PTL

\* No process takes the path of a model for the model while another one is still copying it, unless
\* a process died or a copy failed before (copy_local_path_from_hdfs of utils/fs.py).
THEOREM CopiesAreWhole == Spec => []LoadsWholeCopies
<1>1. ClusterInv => LoadsWholeCopies
  BY DEF ClusterInv, CopiesInv, LoadsWholeCopies, Local
<1> QED
  BY ClusterInvariance, <1>1, PTL

=============================================================================
