-------------------------- MODULE PPOTrainerProofs --------------------------
(***************************************************************************)
(* The workers first, under any caller that waits for its answers, for any *)
(* number of ranks and any choice of what is offloaded: no rank computes   *)
(* with what is on its CPU, the engine samples from the current weights    *)
(* only and is empty when it should be, and the answers of the ranks come  *)
(* from the models they are asked about.  The invariant adds where a rank  *)
(* can be in each kind of call, that what is never offloaded never leaves  *)
(* the GPU, and how the shards of two ranks may differ while an optimizer  *)
(* steps.                                                                  *)
(*                                                                         *)
(* Then fit(), which is one of these callers: every step of the trainer is *)
(* a step of the workers under some caller, or leaves them alone.  What is *)
(* proved of the workers therefore holds of the trainer, for any number of *)
(* ranks, rows, turns and steps, and with it what the trainer puts into    *)
(* its batches.                                                            *)
(***************************************************************************)
EXTENDS PPOTrainer, TLAPS

-----------------------------------------------------------------------------
(* The workers under any caller. *)


\* The parts of a method are parts.
LEMMA UsesParts == \A method : Uses(method) \subseteq Parts /\ ModelOf(method) \in Models
  BY DEF Uses, ModelOf, Optimizer, Parts, Models

\* What every call is.
LEMMA CallTypes ==
  ASSUME NEW c \in Calls(Nat)
  PROVE  /\ c.method \in Methods
         /\ c.method = "generate_sequences" => c.recompute \in BOOLEAN
         /\ c.method \in Saves => c.tag \in Nat
<1>1. CASE c \in [method : {"generate_sequences"}, recompute : BOOLEAN, greedy : BOOLEAN]
  BY <1>1 DEF Methods, Saves
<1>2. CASE c \in [method : Saves, tag : Nat]
  BY <1>2 DEF Methods, Saves
<1>3. CASE c \in [method : Methods \ (Saves \cup {"generate_sequences"})]
  BY <1>3 DEF Methods, Saves
<1> QED
  BY <1>1, <1>2, <1>3 DEF Calls

\* Where the ranks of a call are, spelt out.
LEMMA Paths ==
  ASSUME OnPath, NEW k \in Ranks, call # None
  PROVE  /\ wpc[k] # "idle"
         /\ wpc[k] \in {"enter", "sample", "exit"} => call.method = "generate_sequences"
         /\ wpc[k] = "step" => call.method \in Updates
         /\ wpc[k] \in {"write", "barrier"} => call.method \in Saves
BY DEF OnPath, Path, Updates, Saves

LEMMA HybridInitInv == HybridInit => HybridInv
<1> SUFFICES ASSUME HybridInit PROVE HybridInv
  OBVIOUS
<1> USE DEF HybridInit
<1>1. HybridTypeOK
  BY OffloadAssumption DEF HybridTypeOK, Models, Parts
<1>2. OnPath
  BY DEF OnPath
<1>3. NeverOffloaded
  BY DEF NeverOffloaded
<1>4. ShardsAgree
  BY DEF ShardsAgree, Stepped
<1>5. UsedIsLoaded /\ EngineIsCurrent /\ EngineGivesWay
  BY DEF UsedIsLoaded, EngineIsCurrent, EngineGivesWay
<1>6. CheckpointsWhole
  BY RankAssumption DEF CheckpointsWhole
<1> QED
  BY <1>1, <1>2, <1>3, <1>4, <1>5, <1>6 DEF HybridInv

\* A new call starts every rank afresh, from shards that agree.
LEMMA InvokeStep == HybridInv /\ call' \in Calls(Nat) /\ Invoke(call') => HybridInv'
<1> SUFFICES ASSUME HybridInv, call' \in Calls(Nat), Invoke(call') PROVE HybridInv'
  OBVIOUS
<1>0. DOMAIN result' = Ranks
  BY DEF Invoke, HybridInv, HybridTypeOK
<1>1. call = None /\ call' # None /\ \A k \in Ranks : wpc'[k] = "load"
  BY NoneAssumption DEF Invoke
<1>2. UNCHANGED <<offload, gpu, shard, engine, saved>>
  BY DEF Invoke
<1>3. wpc' = [k \in Ranks |-> "load"]
  BY DEF Invoke
<1>4. HybridTypeOK'
  BY <1>0, <1>1, <1>2, <1>3 DEF HybridInv, HybridTypeOK
<1>5. OnPath'
  BY <1>1 DEF OnPath, Path
<1>6. NeverOffloaded'
  BY <1>2 DEF HybridInv, NeverOffloaded
<1>7. ShardsAgree'
  BY <1>1, <1>2 DEF HybridInv, ShardsAgree, Stepped
<1>8. UsedIsLoaded' /\ EngineIsCurrent' /\ EngineGivesWay'
  BY <1>1, <1>2 DEF HybridInv, UsedIsLoaded, EngineIsCurrent, EngineGivesWay
<1>9. CheckpointsWhole'
  BY <1>1, <1>2, RankAssumption DEF HybridInv, CheckpointsWhole
<1> QED
  BY <1>4, <1>5, <1>6, <1>7, <1>8, <1>9 DEF HybridInv

\* The driver returns when every rank has finished, so that none is one step
\* behind the others.
LEMMA ReturnStep == HybridInv /\ Return => HybridInv'
<1> SUFFICES ASSUME HybridInv, Return PROVE HybridInv'
  OBVIOUS
<1>0. DOMAIN result' = Ranks
  BY DEF Return, HybridInv, HybridTypeOK
<1>1. call # None /\ call' = None /\ \A k \in Ranks : wpc[k] = "done" /\ wpc'[k] = "idle"
  BY DEF Return, Answered
<1>2. UNCHANGED <<offload, gpu, shard, engine, saved>>
  BY DEF Return
<1>3. wpc' = [k \in Ranks |-> "idle"]
  BY DEF Return
<1>4. HybridTypeOK'
  BY <1>0, <1>1, <1>2, <1>3 DEF HybridInv, HybridTypeOK
<1>5. OnPath'
  BY <1>1 DEF OnPath
<1>6. NeverOffloaded'
  BY <1>2 DEF HybridInv, NeverOffloaded
<1>7. ShardsAgree'
  BY <1>1, <1>2 DEF HybridInv, ShardsAgree, Stepped
<1>8. UsedIsLoaded' /\ EngineIsCurrent' /\ EngineGivesWay'
  BY <1>1, <1>2 DEF HybridInv, UsedIsLoaded, EngineIsCurrent, EngineGivesWay
<1>9. CheckpointsWhole'
  BY <1>1, <1>2, RankAssumption DEF HybridInv, CheckpointsWhole
<1> QED
  BY <1>4, <1>5, <1>6, <1>7, <1>8, <1>9 DEF HybridInv

LEMMA LoadStep == ASSUME HybridInv, NEW k \in Ranks, Load(k) PROVE HybridInv'
<1>0. DOMAIN result' = Ranks
  BY DEF Load, HybridInv, HybridTypeOK
<1>1. call # None /\ wpc[k] = "load"
  BY DEF Load, HybridInv, OnPath
<1>2. wpc' = [wpc EXCEPT ![k] = IF call.method = "generate_sequences" THEN "enter" ELSE "compute"]
  BY DEF Load, Goto
<1>3. gpu' = [gpu EXCEPT ![k] = @ \cup (Uses(call.method) \cap offload)]
      /\ UNCHANGED <<offload, call, shard, engine, saved>>
  BY DEF Load
<1>4. HybridTypeOK'
  BY <1>0, <1>1, <1>2, <1>3, UsesParts DEF HybridInv, HybridTypeOK
<1>5. OnPath'
  BY <1>1, <1>2, <1>3 DEF HybridInv, HybridTypeOK, OnPath, Path
<1>6. NeverOffloaded'
  BY <1>3 DEF HybridInv, HybridTypeOK, NeverOffloaded
<1>7. ShardsAgree'
  BY <1>1, <1>2, <1>3 DEF HybridInv, HybridTypeOK, ShardsAgree, Stepped
<1>8. UsedIsLoaded'
  BY <1>1, <1>2, <1>3, UsesParts DEF HybridInv, HybridTypeOK, UsedIsLoaded, NeverOffloaded
<1>9. EngineIsCurrent' /\ EngineGivesWay'
  BY <1>1, <1>2, <1>3 DEF HybridInv, HybridTypeOK, EngineIsCurrent, EngineGivesWay
<1>10. CheckpointsWhole'
  BY <1>1, <1>2, <1>3 DEF HybridInv, HybridTypeOK, CheckpointsWhole, Load
<1> QED
  BY <1>4, <1>5, <1>6, <1>7, <1>8, <1>9, <1>10 DEF HybridInv

\* While it generates no rank has an optimizer step behind it: the gathered
\* shards are those of any rank.
LEMMA EnterStep == ASSUME HybridInv, Enter PROVE HybridInv'
<1>0. DOMAIN result' = Ranks
  BY DEF Enter, HybridInv, HybridTypeOK
<1>1. \A k \in Ranks : wpc[k] = "enter"
  BY DEF Enter, Together
<1>2. wpc' = [k \in Ranks |-> "sample"] /\ engine' = [k \in Ranks |-> Gathered("actor")]
  BY DEF Enter, Together
<1>3. UNCHANGED <<offload, call, gpu, shard, saved>>
  BY DEF Enter
<1>4. \A k \in Ranks : call # None /\ call.method = "generate_sequences"
  BY <1>1, Paths DEF HybridInv, OnPath
<1>5. \A j, k \in Ranks : shard[j]["actor"] = shard[k]["actor"]
  BY <1>4 DEF HybridInv, ShardsAgree, Stepped, Updates, Models
<1>6. \A k \in Ranks : Gathered("actor") = {<<"actor", shard[k]["actor"]>>}
  BY <1>5 DEF Gathered
<1>7. Gathered("actor") \in Lineages
  BY DEF HybridInv, HybridTypeOK, Gathered, Lineages, Models
<1>8. HybridTypeOK'
  BY <1>0, <1>2, <1>3, <1>7 DEF HybridInv, HybridTypeOK
<1>9. OnPath'
  BY <1>2, <1>3, <1>4 DEF OnPath, Path
<1>10. NeverOffloaded'
  BY <1>3 DEF HybridInv, NeverOffloaded
<1>11. ShardsAgree'
  BY <1>1, <1>2, <1>3 DEF HybridInv, ShardsAgree, Stepped
<1>12. UsedIsLoaded'
  BY <1>1, <1>2, <1>3 DEF HybridInv, UsedIsLoaded
<1>13. EngineIsCurrent' /\ EngineGivesWay'
  BY <1>2, <1>3, <1>4, <1>6 DEF EngineIsCurrent, EngineGivesWay
<1>14. CheckpointsWhole'
  BY <1>2, <1>3, RankAssumption DEF HybridInv, CheckpointsWhole
<1> QED
  BY <1>8, <1>9, <1>10, <1>11, <1>12, <1>13, <1>14 DEF HybridInv

LEMMA SampleStep == ASSUME HybridInv, NEW k \in Ranks, Sample(k) PROVE HybridInv'
<1>0. DOMAIN result' = Ranks
  BY DEF Sample, HybridInv, HybridTypeOK
<1>1. wpc[k] = "sample" /\ wpc' = [wpc EXCEPT ![k] = "exit"]
  BY DEF Sample, Goto
<1>2. UNCHANGED <<offload, call, gpu, shard, engine, saved>>
  BY DEF Sample
<1>3. call # None /\ call.method = "generate_sequences"
  BY <1>1, Paths DEF HybridInv, OnPath
<1>4. HybridTypeOK' /\ OnPath' /\ NeverOffloaded'
  BY <1>0, <1>1, <1>2, <1>3 DEF HybridInv, HybridTypeOK, OnPath, Path, NeverOffloaded
<1>5. ShardsAgree'
  BY <1>1, <1>2 DEF HybridInv, HybridTypeOK, ShardsAgree, Stepped
<1>6. UsedIsLoaded' /\ EngineIsCurrent' /\ EngineGivesWay'
  BY <1>1, <1>2, <1>3 DEF HybridInv, HybridTypeOK, UsedIsLoaded, EngineIsCurrent, EngineGivesWay
<1>7. CheckpointsWhole'
  BY <1>1, <1>2, <1>3, RankAssumption, Paths DEF HybridInv, HybridTypeOK, CheckpointsWhole, Sample, Saves
<1> QED
  BY <1>4, <1>5, <1>6, <1>7 DEF HybridInv

LEMMA ExitStep == ASSUME HybridInv, NEW k \in Ranks, Exit(k) PROVE HybridInv'
<1>0. DOMAIN result' = Ranks
  BY DEF Exit, HybridInv, HybridTypeOK
<1>1. wpc[k] = "exit" /\ engine' = [engine EXCEPT ![k] = None]
      /\ wpc' = [wpc EXCEPT ![k] = IF call.recompute THEN "compute" ELSE "offload"]
  BY DEF Exit, Goto
<1>2. UNCHANGED <<offload, call, gpu, shard, saved>>
  BY DEF Exit
<1>3. call # None /\ call.method = "generate_sequences"
  BY <1>1, Paths DEF HybridInv, OnPath
<1>4. HybridTypeOK' /\ OnPath' /\ NeverOffloaded'
  BY <1>0, <1>1, <1>2, <1>3 DEF HybridInv, HybridTypeOK, OnPath, Path, NeverOffloaded
<1>5. ShardsAgree'
  BY <1>2, <1>3 DEF HybridInv, ShardsAgree, Stepped, Updates
<1>6. UsedIsLoaded' /\ EngineIsCurrent' /\ EngineGivesWay'
  BY <1>1, <1>2, <1>3 DEF HybridInv, HybridTypeOK, UsedIsLoaded, EngineIsCurrent, EngineGivesWay
<1>7. CheckpointsWhole'
  BY <1>1, <1>2 DEF HybridInv, HybridTypeOK, CheckpointsWhole, Exit
<1> QED
  BY <1>4, <1>5, <1>6, <1>7 DEF HybridInv

\* The collectives after the engine: the ranks go on together and only the call's
\* results and the place change.
LEMMA TogetherStep ==
  ASSUME HybridInv, NEW from, NEW to, Together(from, to), call # None,
         UNCHANGED <<offload, call, gpu, shard, engine, saved>>, DOMAIN result' = Ranks,
         to = "write" => OneVersion(result'[Rank0]["state_dict"], ModelOf(call.method)),
         from \in {"compute", "barrier"},
         to \in Path(call), to \in {"step", "write"} \/ (to = "offload" /\ call.method \notin Updates)
  PROVE  HybridInv'
<1>1. wpc' = [k \in Ranks |-> to] /\ \A k \in Ranks : wpc[k] = from
  BY DEF Together
<1>2. to \in {"step", "write", "offload"}
  OBVIOUS
<1>3. HybridTypeOK' /\ OnPath' /\ NeverOffloaded'
  BY <1>1, <1>2 DEF HybridInv, HybridTypeOK, OnPath, NeverOffloaded
<1>4. \A k \in Ranks, m \in Models : ~Stepped(k, m) /\ ~Stepped(k, m)'
  BY <1>1 DEF Stepped
<1>5. ShardsAgree'
  BY <1>4 DEF HybridInv, ShardsAgree
<1>6. UsedIsLoaded' /\ EngineIsCurrent' /\ EngineGivesWay'
  BY <1>1, <1>2 DEF HybridInv, UsedIsLoaded, EngineIsCurrent, EngineGivesWay
<1>7. CheckpointsWhole'
  BY <1>1, RankAssumption DEF HybridInv, CheckpointsWhole
<1> QED
  BY <1>3, <1>5, <1>6, <1>7 DEF HybridInv

\* The optimizer's step: rank k was level with the ranks that have not stepped and
\* one behind those that have.
LEMMA StepStep == ASSUME HybridInv, NEW k \in Ranks, Step(k) PROVE HybridInv'
<1> DEFINE m0 == ModelOf(call.method)
<1>0. DOMAIN result' = Ranks
  BY DEF Step, HybridInv, HybridTypeOK
<1>1. wpc[k] = "step" /\ wpc' = [wpc EXCEPT ![k] = "offload"]
      /\ shard' = [shard EXCEPT ![k][m0] = @ + 1]
  BY DEF Step, Goto
<1>2. UNCHANGED <<offload, call, gpu, engine, saved>>
  BY DEF Step
<1>3. call # None /\ call.method \in Updates
  BY <1>1, Paths DEF HybridInv, OnPath
<1>4. m0 \in Models
  BY UsesParts
<1>5. HybridTypeOK'
  BY <1>0, <1>1, <1>2, <1>4 DEF HybridInv, HybridTypeOK
<1>6. OnPath' /\ NeverOffloaded'
  BY <1>1, <1>2, <1>3 DEF HybridInv, HybridTypeOK, OnPath, Path, NeverOffloaded
<1>7. ShardsAgree'
  <2> SUFFICES ASSUME NEW i \in Ranks, NEW j \in Ranks, NEW m \in Models
               PROVE  /\ (Stepped(i, m)' <=> Stepped(j, m)') => shard'[i][m] = shard'[j][m]
                      /\ Stepped(i, m)' /\ ~Stepped(j, m)' => shard'[i][m] = shard'[j][m] + 1
    BY DEF ShardsAgree
  <2>1. \A r \in Ranks : shard[r][m] \in Nat
    BY DEF HybridInv, HybridTypeOK
  <2>2. \A r \in Ranks : shard'[r][m] = IF r = k /\ m = m0 THEN shard[r][m] + 1 ELSE shard[r][m]
    BY <1>1, <1>4 DEF HybridInv, HybridTypeOK
  <2>3. \A r \in Ranks : Stepped(r, m)' = (Stepped(r, m) \/ (r = k /\ m = m0))
    BY <1>1, <1>2, <1>3 DEF HybridInv, HybridTypeOK, Stepped
  <2>4. ~Stepped(k, m)
    BY <1>1 DEF Stepped
  <2>5. \A r, q \in Ranks : /\ (Stepped(r, m) <=> Stepped(q, m)) => shard[r][m] = shard[q][m]
                            /\ Stepped(r, m) /\ ~Stepped(q, m) => shard[r][m] = shard[q][m] + 1
    BY DEF HybridInv, ShardsAgree
  <2> HIDE DEF m0
  <2> QED
    BY <2>1, <2>2, <2>3, <2>4, <2>5, ZenonT(60)
<1>8. UsedIsLoaded'
  BY <1>1, <1>2 DEF HybridInv, HybridTypeOK, UsedIsLoaded
<1>9. EngineGivesWay' /\ \A r \in Ranks : engine'[r] = None
  BY <1>2, <1>3 DEF HybridInv, EngineGivesWay, Updates
<1>10. EngineIsCurrent'
  BY <1>9 DEF EngineIsCurrent
<1>11. CheckpointsWhole'
  BY <1>1, <1>2 DEF HybridInv, HybridTypeOK, CheckpointsWhole, Step
<1> QED
  BY <1>5, <1>6, <1>7, <1>8, <1>9, <1>10, <1>11 DEF HybridInv

LEMMA WriteStep == ASSUME HybridInv, NEW k \in Ranks, WriteCheckpoint(k) PROVE HybridInv'
<1>1. wpc[k] = "write" /\ wpc' = [wpc EXCEPT ![k] = "barrier"]
  BY DEF WriteCheckpoint, Goto
<1>2. UNCHANGED <<offload, call, gpu, shard, engine>>
  BY DEF WriteCheckpoint
<1>3. call # None /\ call.method \in Saves
  BY <1>1, Paths DEF HybridInv, OnPath
<1>4. OnPath' /\ NeverOffloaded'
  BY <1>1, <1>2, <1>3 DEF HybridInv, HybridTypeOK, OnPath, Path, NeverOffloaded, Saves, Updates
<1>5. /\ saved' \subseteq [model : Models, tag : Nat, lineage : Lineages]
      /\ \A c \in saved' : OneVersion(c.lineage, c.model)
  <2>1. CASE k = Rank0
    <3> DEFINE m == ModelOf(call.method)
               held == result[Rank0]["state_dict"]
    <3>1. saved' = saved \cup {[model |-> m, tag |-> call.tag, lineage |-> held]}
      BY <2>1 DEF WriteCheckpoint
    <3>2. OneVersion(held, m)
      BY <1>1, <2>1 DEF HybridInv, CheckpointsWhole
    <3>3. m \in Models /\ call.tag \in Nat
      BY <1>3, UsesParts, CallTypes DEF HybridInv, HybridTypeOK
    <3>4. held \in Lineages
      BY <3>2, <3>3 DEF OneVersion, Lineages
    <3>5. \A c \in saved : OneVersion(c.lineage, c.model)
      BY DEF HybridInv, CheckpointsWhole
    <3> HIDE DEF m, held
    <3> QED
      BY <3>1, <3>2, <3>3, <3>4, <3>5 DEF HybridInv, HybridTypeOK
  <2>2. CASE k # Rank0
    BY <2>2 DEF WriteCheckpoint, HybridInv, HybridTypeOK, CheckpointsWhole
  <2> QED
    BY <2>1, <2>2
<1>8. CheckpointsWhole'
  BY <1>1, <1>2, <1>5 DEF HybridInv, HybridTypeOK, CheckpointsWhole, WriteCheckpoint
<1>9. HybridTypeOK'
  BY <1>1, <1>2, <1>5 DEF HybridInv, HybridTypeOK, WriteCheckpoint
<1>6. ShardsAgree'
  BY <1>2, <1>3 DEF HybridInv, ShardsAgree, Stepped, Saves, Updates
<1>7. UsedIsLoaded' /\ EngineIsCurrent' /\ EngineGivesWay'
  BY <1>1, <1>2, <1>3 DEF HybridInv, HybridTypeOK, UsedIsLoaded, EngineIsCurrent, EngineGivesWay, Saves
<1> QED
  BY <1>4, <1>6, <1>7, <1>8, <1>9 DEF HybridInv

LEMMA OffloadStep == ASSUME HybridInv, NEW k \in Ranks, Offload(k) PROVE HybridInv'
<1>0. DOMAIN result' = Ranks
  BY DEF Offload, HybridInv, HybridTypeOK
<1>1. wpc[k] = "offload" /\ wpc' = [wpc EXCEPT ![k] = "done"]
      /\ gpu' = [gpu EXCEPT ![k] = @ \ (Uses(call.method) \cap offload)]
  BY DEF Offload, Goto
<1>2. UNCHANGED <<offload, call, shard, engine, saved>>
  BY DEF Offload
<1>3. call # None
  BY <1>1 DEF HybridInv, OnPath
<1>4. HybridTypeOK' /\ OnPath' /\ NeverOffloaded'
  BY <1>0, <1>1, <1>2, <1>3 DEF HybridInv, HybridTypeOK, OnPath, Path, NeverOffloaded
<1>5. \A r \in Ranks, m \in Models : Stepped(r, m)' = Stepped(r, m)
  BY <1>1, <1>2 DEF HybridInv, HybridTypeOK, Stepped
<1>6. ShardsAgree'
  BY <1>2, <1>5 DEF HybridInv, ShardsAgree
<1>7. UsedIsLoaded' /\ EngineIsCurrent' /\ EngineGivesWay'
  BY <1>1, <1>2 DEF HybridInv, HybridTypeOK, UsedIsLoaded, EngineIsCurrent, EngineGivesWay
<1>8. CheckpointsWhole'
  BY <1>1, <1>2 DEF HybridInv, HybridTypeOK, CheckpointsWhole, Offload
<1> QED
  BY <1>4, <1>6, <1>7, <1>8 DEF HybridInv

\* A state dict is gathered while no optimizer steps, so it is of one version.
LEMMA GatherStep == ASSUME HybridInv, GatherCheckpoint PROVE HybridInv'
<1> DEFINE m == ModelOf(call.method)
<1>1. /\ call # None /\ call.method \in Saves /\ Together("compute", "write")
      /\ UNCHANGED <<offload, call, gpu, shard, engine, saved>>
      /\ DOMAIN result' = Ranks
  BY DEF GatherCheckpoint
<1>2. result'[Rank0] = Columns(<< >>, "state_dict", Gathered(m))
  BY RankAssumption DEF GatherCheckpoint
<1>3. result'[Rank0]["state_dict"] = Gathered(m)
  BY <1>2 DEF Columns
<1>4. m \in Models
  BY UsesParts
<1>5. \A j, k \in Ranks : shard[j][m] = shard[k][m]
  BY <1>1, <1>4 DEF HybridInv, ShardsAgree, Stepped, Saves, Updates
<1>6. \A k \in Ranks : shard[k][m] \in Nat
  BY <1>4 DEF HybridInv, HybridTypeOK
<1>7. OneVersion(Gathered(m), m)
  BY <1>5, <1>6 DEF OneVersion, Gathered
<1>8. "write" \in Path(call)
  BY <1>1 DEF Path, Saves, Updates
<1> QED
  BY <1>1, <1>3, <1>7, <1>8, TogetherStep

LEMMA CollectiveInv == HybridInv /\ Collective => HybridInv'
<1> SUFFICES ASSUME HybridInv, Collective PROVE HybridInv'
  OBVIOUS
<1>1. CASE Enter
  BY <1>1, EnterStep
<1>2. CASE Forward
  <2>1. call # None /\ call.method \notin Updates /\ "offload" \in Path(call)
    BY <1>2 DEF Forward, Adds, Updates, Path
  <2> QED
    BY <1>2, <2>1, TogetherStep DEF Forward
<1>3. CASE Backward
  <2>1. "step" \in Path(call) /\ call # None
    BY <1>3 DEF Backward, Path, Updates
  <2> QED
    BY <1>3, <2>1, TogetherStep DEF Backward, HybridInv, HybridTypeOK
<1>4. CASE GatherCheckpoint
  BY <1>4, GatherStep
<1>5. CASE Barrier
  <2>1. call # None /\ call.method \in Saves
    BY <1>5, RankAssumption, Paths DEF Barrier, Together, HybridInv, OnPath
  <2>2. "offload" \in Path(call) /\ call.method \notin Updates
    BY <2>1 DEF Path, Saves, Updates
  <2> QED
    BY <1>5, <2>1, <2>2, TogetherStep DEF Barrier, HybridInv, HybridTypeOK
<1> QED
  BY <1>1, <1>2, <1>3, <1>4, <1>5 DEF Collective

LEMMA WorkerInv == ASSUME HybridInv, NEW k \in Ranks, Worker(k) PROVE HybridInv'
  BY LoadStep, SampleStep, ExitStep, StepStep, WriteStep, OffloadStep DEF Worker

LEMMA StutterInv == HybridInv /\ UNCHANGED workers => HybridInv'
<1> SUFFICES ASSUME HybridInv, UNCHANGED workers PROVE HybridInv'
  OBVIOUS
<1> USE DEF workers
<1>1. HybridTypeOK' /\ OnPath' /\ NeverOffloaded'
  BY DEF HybridInv, HybridTypeOK, OnPath, NeverOffloaded
<1>2. ShardsAgree' /\ CheckpointsWhole'
  BY DEF HybridInv, ShardsAgree, Stepped, CheckpointsWhole
<1>3. UsedIsLoaded' /\ EngineIsCurrent' /\ EngineGivesWay'
  BY DEF HybridInv, UsedIsLoaded, EngineIsCurrent, EngineGivesWay
<1> QED
  BY <1>1, <1>2, <1>3 DEF HybridInv

-----------------------------------------------------------------------------
(* The theorems. *)

\* The inductive invariant of the workers, whoever calls them: the whole of the
\* hybrid engine (fsdp_workers.py:400) on any number of ranks.
THEOREM HybridInvariance == HybridSpec => []HybridInv
<1>1. HybridInit => HybridInv
  BY HybridInitInv
<1>2. HybridInv /\ [HybridNext]_workers => HybridInv'
  BY InvokeStep, ReturnStep, WorkerInv, CollectiveInv, StutterInv DEF HybridNext
<1> QED
  BY <1>1, <1>2, PTL DEF HybridSpec

\* No rank ever samples with weights from before an update, or with shards of two
\* versions (fsdp_vllm.py:69).
THEOREM EngineFresh == HybridSpec => []EngineIsCurrent
<1>1. HybridInv => EngineIsCurrent
  BY DEF HybridInv
<1> QED
  BY <1>1, HybridInvariance, PTL

\* No rank ever computes with a part of a model that is on its CPU, for any choice
\* of what is offloaded (fsdp_workers.py:359).
THEOREM AlwaysLoaded == HybridSpec => []UsedIsLoaded
<1>1. HybridInv => UsedIsLoaded
  BY DEF HybridInv
<1> QED
  BY <1>1, HybridInvariance, PTL

\* The engine holds weights only while it generates (fsdp_vllm.py:93).
THEOREM EngineYields == HybridSpec => []EngineGivesWay
<1>1. HybridInv => EngineGivesWay
  BY DEF HybridInv
<1> QED
  BY <1>1, HybridInvariance, PTL

-----------------------------------------------------------------------------
(* What an answer holds: the columns of the ranks are those of their method,  *)
(* and every one comes from the shards of all ranks as they are.              *)

\* What was computed from one version of each model, the current one.
Current(lineage) ==
  /\ lineage \in Lineages
  /\ \A source \in lineage, k \in Ranks : source[2] = shard[k][source[1]]

\* The columns a rank has so far.
Answers(k) ==
  IF call.method = "generate_sequences"
    THEN {c \in {"sequences"} : wpc[k] \in {"exit", "compute", "offload", "done"}}
           \cup {c \in {"old_log_probs"} : call.recompute /\ wpc[k] \in {"offload", "done"}}
    ELSE {c \in {Adds[call.method]} : wpc[k] \in {"offload", "done"}}

AnswerInv(k) ==
  /\ DOMAIN result[k] = Answers(k)
  /\ \A c \in DOMAIN result[k] : Current(result[k][c])
  /\ wpc[k] = "sample" => Current(engine[k])
  /\ call.method = "generate_sequences" /\ ~call.recompute => wpc[k] # "compute"

\* A call that is answered with a column.
Asked == call # None /\ call.method \in DOMAIN Adds
AnswersInv == Asked => \A k \in Ranks : AnswerInv(k)

\* What the shards of a model amount to while no optimizer steps.
LEMMA GatheredCurrent ==
  ASSUME HybridInv, Asked, NEW m \in Models
  PROVE  Current(Gathered(m))
<1>1. \A j, k \in Ranks : shard[j][m] = shard[k][m] /\ shard[k][m] \in Nat
  BY DEF HybridInv, HybridTypeOK, ShardsAgree, Stepped, Updates, Asked, Adds
<1> QED
  BY <1>1 DEF Current, Gathered, Lineages

\* A rank that stands still keeps what it has.
LEMMA StillAnswers ==
  ASSUME NEW k \in Ranks, AnswerInv(k), UNCHANGED <<call, shard>>,
         wpc'[k] = wpc[k], result'[k] = result[k], engine'[k] = engine[k]
  PROVE  AnswerInv(k)'
BY DEF AnswerInv, Answers, Current, Lineages

\* A rank's own step, in a call for columns.
LEMMA RankAnswers ==
  ASSUME HybridInv, Asked, NEW k \in Ranks, AnswerInv(k),
         Load(k) \/ Sample(k) \/ Exit(k) \/ Offload(k)
  PROVE  AnswerInv(k)'
<1>1. call' = call /\ shard' = shard /\ k \in DOMAIN wpc /\ k \in DOMAIN result /\ k \in DOMAIN engine
  BY DEF Load, Sample, Exit, Offload, HybridInv, HybridTypeOK
<1>2. \A lineage : Current(lineage)' <=> Current(lineage)
  BY <1>1 DEF Current, Lineages
<1>3. CASE Load(k)
  <2>1. /\ wpc[k] = "load" /\ result' = result
        /\ wpc'[k] = IF call.method = "generate_sequences" THEN "enter" ELSE "compute"
    BY <1>1, <1>3 DEF Load, Goto
  <2> QED
    BY <1>1, <1>2, <2>1 DEF AnswerInv, Answers
<1>4. CASE Sample(k)
  <2>1. /\ wpc[k] = "sample" /\ wpc'[k] = "exit"
        /\ result'[k] = Columns(result[k], "sequences", engine[k])
    BY <1>1, <1>4 DEF Sample, Goto
  <2>2. call.method = "generate_sequences"
    BY <2>1, Paths DEF HybridInv, Asked
  <2>3. DOMAIN result[k] = {} /\ Current(engine[k])
    BY <2>1, <2>2 DEF AnswerInv, Answers
  <2>4. DOMAIN result'[k] = {"sequences"} /\ result'[k]["sequences"] = engine[k]
    <3> DEFINE data == result[k]
    <3> HIDE DEF data
    <3>1. /\ DOMAIN Columns(data, "sequences", engine[k]) = DOMAIN data \cup {"sequences"}
          /\ Columns(data, "sequences", engine[k])["sequences"] = engine[k]
      BY DEF Columns
    <3> QED
      BY <2>1, <2>3, <3>1 DEF data
  <2>5. Answers(k)' = {"sequences"}
    BY <1>1, <2>1, <2>2 DEF Answers
  <2> QED
    BY <1>1, <1>2, <2>1, <2>3, <2>4, <2>5 DEF AnswerInv
<1>5. CASE Exit(k)
  <2>1. /\ wpc[k] = "exit" /\ result' = result
        /\ wpc'[k] = IF call.recompute THEN "compute" ELSE "offload"
    BY <1>1, <1>5 DEF Exit, Goto
  <2>2. call.method = "generate_sequences"
    BY <2>1, Paths DEF HybridInv, Asked
  <2>3. Answers(k)' = Answers(k)
    BY <1>1, <2>1, <2>2 DEF Answers
  <2> QED
    BY <1>1, <1>2, <2>1, <2>3 DEF AnswerInv
<1>6. CASE Offload(k)
  <2>1. wpc[k] = "offload" /\ wpc'[k] = "done" /\ result' = result
    BY <1>1, <1>6 DEF Offload, Goto
  <2>2. Answers(k)' = Answers(k)
    BY <1>1, <2>1 DEF Answers
  <2> QED
    BY <1>1, <1>2, <2>1, <2>2 DEF AnswerInv
<1> QED
  BY <1>3, <1>4, <1>5, <1>6

\* The collectives of a call for columns.
LEMMA TogetherAnswers ==
  ASSUME HybridInv, Asked, \A k \in Ranks : AnswerInv(k), Enter \/ Forward
  PROVE  \A k \in Ranks : AnswerInv(k)'
<1> SUFFICES ASSUME NEW k \in Ranks PROVE AnswerInv(k)'
  OBVIOUS
<1>1. call' = call /\ shard' = shard
  BY DEF Enter, Forward
<1>2. \A lineage : Current(lineage)' <=> Current(lineage)
  BY <1>1 DEF Current, Lineages
<1>3. CASE Enter
  <2>1. wpc[k] = "enter" /\ wpc'[k] = "sample" /\ engine'[k] = Gathered("actor") /\ result' = result
    BY <1>3 DEF Enter, Together
  <2>2. Current(Gathered("actor"))
    BY GatheredCurrent DEF Models
  <2>3. Answers(k)' = Answers(k)
    BY <1>1, <2>1 DEF Answers
  <2> QED
    BY <1>1, <1>2, <2>1, <2>2, <2>3 DEF AnswerInv
<1>4. CASE Forward
  <2> DEFINE c == Adds[call.method]
             lineage == Gathered(ModelOf(call.method))
  <2>1. /\ wpc[k] = "compute" /\ wpc'[k] = "offload"
        /\ result'[k] = Columns(result[k], c, lineage)
    BY <1>4 DEF Forward, Together
  <2>2. Current(lineage)
    BY GatheredCurrent, UsesParts
  <2>3. Answers(k)' = Answers(k) \cup {c}
    <3>1. CASE call.method = "generate_sequences"
      <4>1. call.recompute /\ c = "old_log_probs"
        BY <2>1, <3>1 DEF AnswerInv, Adds
      <4> QED
        BY <1>1, <2>1, <3>1, <4>1 DEF Answers
    <3>2. CASE call.method # "generate_sequences"
      BY <1>1, <2>1, <3>2 DEF Answers
    <3> QED
      BY <3>1, <3>2
  <2>4. DOMAIN result'[k] = Answers(k)' /\ \A d \in DOMAIN result'[k] : Current(result'[k][d])
    <3>1. /\ DOMAIN result'[k] = DOMAIN result[k] \cup {c} /\ result'[k][c] = lineage
          /\ \A d \in DOMAIN result[k] : d # c => result'[k][d] = result[k][d]
      <4> HIDE DEF c, lineage
      <4> QED
        BY <2>1 DEF Columns
    <3> HIDE DEF c, lineage
    <3> QED
      BY <2>2, <2>3, <3>1 DEF AnswerInv
  <2> QED
    BY <1>1, <1>2, <2>1, <2>4 DEF AnswerInv
<1> QED
  BY <1>3, <1>4

LEMMA NextAnswers ==
  ASSUME HybridInv, AnswersInv, [HybridNext]_workers
  PROVE  AnswersInv'
<1>1. CASE Invoke(call')
  <2>1. \A k \in Ranks : wpc'[k] = "load" /\ result'[k] = << >> /\ DOMAIN << >> = {}
    BY <1>1 DEF Invoke
  <2> QED
    BY <2>1 DEF AnswersInv, AnswerInv, Answers
<1>2. CASE Return
  BY <1>2 DEF Return, AnswersInv, Asked
<1>3. CASE UNCHANGED workers
  BY <1>3, StillAnswers DEF workers, AnswersInv, Asked
<1>4. ASSUME NEW k \in Ranks, Worker(k) PROVE AnswersInv'
  <2>1. call' = call
    BY <1>4 DEF Worker, Load, Sample, Exit, Step, WriteCheckpoint, Offload
  <2> SUFFICES ASSUME Asked, NEW j \in Ranks PROVE AnswerInv(j)'
    BY <2>1 DEF AnswersInv, Asked
  <2>2. wpc[k] \notin {"step", "write"}
    BY Paths DEF HybridInv, Asked, Adds, Updates, Saves
  <2>3. Load(k) \/ Sample(k) \/ Exit(k) \/ Offload(k)
    BY <1>4, <2>2 DEF Worker, Step, WriteCheckpoint
  <2>4. CASE j = k
    BY <2>3, <2>4, RankAnswers DEF AnswersInv
  <2>5. CASE j # k
    <3>1. UNCHANGED shard /\ wpc'[j] = wpc[j] /\ result'[j] = result[j] /\ engine'[j] = engine[j]
      BY <2>3, <2>5 DEF Load, Sample, Exit, Offload, Goto, HybridInv, HybridTypeOK
    <3> QED
      BY <2>1, <3>1, StillAnswers DEF AnswersInv
  <2> QED
    BY <2>4, <2>5
<1>5. CASE Collective
  <2>1. call' = call
    BY <1>5 DEF Collective, Enter, Forward, Backward, GatherCheckpoint, Barrier
  <2> SUFFICES ASSUME Asked PROVE \A k \in Ranks : AnswerInv(k)'
    BY <2>1 DEF AnswersInv, Asked
  <2>2. call.method \notin Updates \cup Saves
    BY DEF Asked, Adds, Updates, Saves
  <2>3. ~Barrier
    BY <2>2, RankAssumption, Paths DEF Barrier, Together, HybridInv, Asked
  <2>4. Enter \/ Forward
    BY <1>5, <2>2, <2>3 DEF Collective, Backward, GatherCheckpoint
  <2> QED
    BY <2>4, TogetherAnswers DEF AnswersInv
<1> QED
  BY <1>1, <1>2, <1>3, <1>4, <1>5 DEF HybridNext

\* Whatever a rank answers with comes from the current weights of every rank, and has the columns
\* of its method: no answer mixes what was computed before and after an update (fsdp_workers.py:400).
THEOREM AnswersAreCurrent == HybridSpec => []AnswersInv
<1>1. HybridInit => AnswersInv
  BY DEF HybridInit, AnswersInv, Asked
<1>2. HybridInv /\ AnswersInv /\ [HybridNext]_workers => AnswersInv'
  BY NextAnswers
<1> QED
  BY <1>1, <1>2, HybridInvariance, PTL DEF HybridSpec


-----------------------------------------------------------------------------
(* The trainer. *)


\* fit() calls methods the workers have, with what they expect.
LEMMA TurnCalls == Turn => call' \in Calls(Nat) /\ Invoke(call')
<1> SUFFICES ASSUME Turn PROVE call' \in Calls(Nat) /\ Invoke(call')
  OBVIOUS
<1> DEFINE c == [method |-> "generate_sequences",
                 recompute |-> ~(Validating /\ turn = 0), greedy |-> Validating /\ turn = 0]
<1>1. Invoke(c) /\ call' = c
  BY DEF Turn, Invoke
<1>2. c \in [method : {"generate_sequences"}, recompute : BOOLEAN, greedy : BOOLEAN]
  OBVIOUS
<1> QED
  BY <1>1, <1>2 DEF Calls

LEMMA SendCalls == steps \in Nat /\ Send => call' \in Calls(Nat) /\ Invoke(call')
<1> SUFFICES ASSUME steps \in Nat, Send PROVE call' \in Calls(Nat) /\ Invoke(call')
  OBVIOUS
<1>1. pc \in {"ref", "values", "update_critic", "update_actor", "save_actor", "save_critic"}
  BY DEF Send, Remote
<1>2. CASE pc \in {"save_actor", "save_critic"}
  <2> DEFINE c == [method |-> Remote[pc], tag |-> steps]
  <2>1. Invoke(c) /\ call' = c
    BY <1>2 DEF Send, Invoke
  <2>2. c \in [method : Saves, tag : Nat]
    BY <1>2 DEF Remote, Saves
  <2> QED
    BY <2>1, <2>2 DEF Calls
<1>3. CASE pc \notin {"save_actor", "save_critic"}
  <2> DEFINE c == [method |-> Remote[pc]]
  <2>1. Invoke(c) /\ call' = c
    BY <1>3 DEF Send, Invoke
  <2>2. c \in [method : Methods \ (Saves \cup {"generate_sequences"})]
    BY <1>1, <1>3 DEF Remote, Saves, Methods, Updates
  <2> QED
    BY <2>1, <2>2 DEF Calls
<1> QED
  BY <1>2, <1>3

\* global_steps is a number.
LEMMA StepsCount == steps \in Nat /\ [Next]_vars => steps' \in Nat
<1> SUFFICES ASSUME steps \in Nat, [Next]_vars PROVE steps' \in Nat
  OBVIOUS
<1>1. CASE Driver
  BY <1>1 DEF Driver, Skip, First, NextBatch, NextEpoch, Turn, TurnGoesOn, RowEnds,
    RolloutEnds, Validated, Balance, Raise, Send, Receive, Reward, ApplyKL, Advantage,
    Compute, EndStep, driver
<1>2. CASE (\E k \in Ranks : WorkerStep(k)) \/ CollectiveStep \/ UNCHANGED vars
  BY <1>2 DEF WorkerStep, CollectiveStep, driver, vars
<1> QED
  BY <1>1, <1>2 DEF Next, Over

LEMMA StepMaps == steps \in Nat /\ [Next]_vars => [HybridNext]_workers
<1> SUFFICES ASSUME steps \in Nat, [Next]_vars PROVE [HybridNext]_workers
  OBVIOUS
<1>1. CASE Turn
  BY <1>1, TurnCalls DEF HybridNext
<1>2. CASE Send
  BY <1>2, SendCalls DEF HybridNext
<1>3. CASE TurnGoesOn \/ RowEnds \/ Receive
  BY <1>3 DEF TurnGoesOn, RowEnds, Receive, HybridNext
<1>4. CASE \/ Skip \/ First \/ NextBatch \/ NextEpoch \/ RolloutEnds \/ Validated
           \/ Balance \/ Raise \/ Reward \/ ApplyKL \/ Advantage \/ EndStep
  BY <1>4 DEF Skip, First, NextBatch, NextEpoch, RolloutEnds, Validated, Balance, Raise,
    Reward, ApplyKL, Advantage, Compute, EndStep
<1>5. CASE (\E k \in Ranks : WorkerStep(k)) \/ CollectiveStep
  BY <1>5 DEF WorkerStep, CollectiveStep, HybridNext
<1>6. CASE UNCHANGED vars
  BY <1>6 DEF vars
<1> QED
  BY <1>1, <1>2, <1>3, <1>4, <1>5, <1>6 DEF Next, Driver, Over

\* The trainer implements the workers' specification (ray_trainer.py:560).
THEOREM TrainerUsesWorkers == Spec => HybridSpec
<1>1. Init => HybridInit /\ steps \in Nat
  BY DEF Init
<1>2. steps \in Nat /\ [Next]_vars => (steps \in Nat)' /\ [HybridNext]_workers
  BY StepsCount, StepMaps
<1> QED
  BY <1>1, <1>2, PTL DEF Spec, HybridSpec

\* In a whole training job every rank samples from the current, whole weights
\* (fsdp_vllm.py:69).
THEOREM TrainingIsFresh == Spec => []EngineIsCurrent
  BY TrainerUsesWorkers, EngineFresh, PTL

\* In a whole training job no rank computes with what is on its CPU
\* (fsdp_workers.py:359).
THEOREM TrainingIsLoaded == Spec => []UsedIsLoaded
  BY TrainerUsesWorkers, AlwaysLoaded, PTL

\* In a whole training job the engine is empty whenever it does not generate
\* (fsdp_vllm.py:93).
THEOREM TrainingIsYielded == Spec => []EngineGivesWay
  BY TrainerUsesWorkers, EngineYields, PTL

\* The inductive invariant of the workers holds in a whole training job.
THEOREM TrainingInvariance == Spec => []HybridInv
  BY TrainerUsesWorkers, HybridInvariance, PTL

-----------------------------------------------------------------------------
(* The experience of an update.  Up to the critic's update every column of the batch, and every   *)
(* reply it is made of, comes from the weights the shards still have; while the critic is updated *)
(* the columns stay level with the other models, and the actor's update finds them so.            *)

Playing == {"rollout", "test", "final"}
Building == {"rollout", "balance", "ref", "values", "reward", "kl", "advantage"}

\* The models whose weights have not changed since the batch was made.
Unchanged ==
  IF pc \in Building \/ (pc = "update_critic" /\ call = None) THEN Models
  ELSE IF pc = "update_critic" \/ (pc = "update_actor" /\ call = None) THEN {"actor", "ref"}
  ELSE {}
Fresh(lineage, models) ==
  \A source \in lineage, k \in Ranks : source[1] \in models => source[2] = shard[k][source[1]]

\* A call is served at the stage that sent it.
CallInv ==
  call # None =>
    /\ ~failed /\ Wanted
    /\ \/ pc \in Playing /\ call.method = "generate_sequences"
       \/ pc \in DOMAIN Remote /\ call.method = Remote[pc]

DriverInv ==
  /\ cfg \in Configs /\ steps \in Nat
  /\ pc \in StageSet \cup {"first", "next", "final", "done"}

\* The rows the rollout manager has finished, and what the current one has said.
Names == {"sequences", "old_log_probs", "response_mask"}
Rows == UNION {[columns -> Lineages] : columns \in {C \in SUBSET Names : "sequences" \in C}}
OutsInv ==
  /\ outs \in Seq(Rows) /\ said \in Lineages
  /\ pc \notin Playing \/ ~Wanted => outs = << >> /\ said = {}
  /\ pc \in Playing /\ (said # {} \/ call # None) => Len(outs) < RolloutRows
  /\ pc = "rollout" =>
       /\ Fresh(said, Models)
       /\ \A i \in DOMAIN outs : \A c \in DOMAIN outs[i] : Fresh(outs[i][c], Models)

Orders == [1 .. cfg.rows -> 1 .. cfg.rows]
BatchInv ==
  /\ \A c \in DOMAIN batch : batch[c] \in [order : Orders, lineage : Lineages]
  /\ pc = "rollout" =>
       DOMAIN batch = {"ground_truth"} /\ batch["ground_truth"].order = [i \in 1 .. cfg.rows |-> i]
  /\ pc \in StageSet \ {"rollout"} => "sequences" \in DOMAIN batch
  /\ RowsAligned
  /\ \A c \in DOMAIN batch : Fresh(batch[c].lineage, Unchanged)

FitInv == DriverInv /\ CallInv /\ OutsInv /\ BatchInv

\* The stages, one after the other.
LEMMA StageAfter ==
  /\ StageSet = {"rollout", "balance", "ref", "values", "reward", "kl", "advantage", "update_critic",
                 "update_actor", "test", "save_actor", "save_critic", "end"}
  /\ pc = "rollout" => NextStage = "balance"
  /\ pc = "balance" => NextStage = "ref"
  /\ pc = "ref" => NextStage = "values"
  /\ pc = "values" => NextStage = "reward"
  /\ pc = "reward" => NextStage = "kl"
  /\ pc = "kl" => NextStage = "advantage"
  /\ pc = "advantage" => NextStage = "update_critic"
  /\ pc = "update_critic" => NextStage = "update_actor"
  /\ pc = "update_actor" => NextStage = "test"
  /\ pc = "test" => NextStage = "save_actor"
  /\ pc = "save_actor" => NextStage = "save_critic"
  /\ pc = "save_critic" => NextStage = "end"
<1>1. DOMAIN Stages = 1 .. 13
  BY DEF Stages
<1>2. /\ Stages[1] = "rollout" /\ Stages[2] = "balance" /\ Stages[3] = "ref" /\ Stages[4] = "values"
      /\ Stages[5] = "reward" /\ Stages[6] = "kl" /\ Stages[7] = "advantage"
      /\ Stages[8] = "update_critic" /\ Stages[9] = "update_actor" /\ Stages[10] = "test"
      /\ Stages[11] = "save_actor" /\ Stages[12] = "save_critic" /\ Stages[13] = "end"
  BY DEF Stages
<1>3. \A i \in 1 .. 13 : i = 1 \/ i = 2 \/ i = 3 \/ i = 4 \/ i = 5 \/ i = 6 \/ i = 7 \/ i = 8 \/ i = 9
                          \/ i = 10 \/ i = 11 \/ i = 12 \/ i = 13
  OBVIOUS
<1>4. \A i, j \in 1 .. 13 : Stages[i] = Stages[j] => i = j
  BY <1>2, <1>3
<1>5. ASSUME NEW i \in 1 .. 12, pc = Stages[i] PROVE NextStage = Stages[i + 1]
  <2>1. (CHOOSE j \in DOMAIN Stages : Stages[j] = pc) = i
    <3>1. i \in 1 .. 13
      OBVIOUS
    <3>2. \A j \in 1 .. 13 : Stages[j] = pc <=> j = i
      BY <1>4, <1>5, <3>1
    <3> QED
      BY <1>1, <3>1, <3>2
  <2> QED
    BY <2>1 DEF NextStage
<1>6. StageSet = {"rollout", "balance", "ref", "values", "reward", "kl", "advantage", "update_critic",
                 "update_actor", "test", "save_actor", "save_critic", "end"}
  BY <1>1, <1>2, <1>3 DEF StageSet
<1> QED
  BY <1>2, <1>5, <1>6

\* The steps of the driver that call no worker.
Alone ==
  \/ Skip \/ First \/ NextBatch \/ NextEpoch \/ RolloutEnds \/ Validated \/ Balance \/ Raise
  \/ Reward \/ ApplyKL \/ Advantage \/ EndStep
LEMMA AloneSteps == Alone => call = None /\ ~failed /\ cfg' = cfg /\ UNCHANGED workers
BY DEF Alone, Skip, First, NextBatch, NextEpoch, RolloutEnds, Validated, Balance, Raise, Reward,
       ApplyKL, Advantage, Compute, EndStep, At, Missing, Generating

\* Where the driver goes on its own.
LEMMA AlonePlaces ==
  ASSUME DriverInv, Alone
  PROVE  pc' \in StageSet \cup {"first", "next", "final", "done"}
BY StageAfter DEF DriverInv, Alone, Skip, First, NextBatch, NextEpoch, RolloutEnds, Validated, Balance,
  Raise, Reward, ApplyKL, Advantage, Compute, EndStep, At, Wanted

LEMMA NextDriver == DriverInv /\ [Next]_vars => DriverInv'
<1> SUFFICES ASSUME DriverInv, [Next]_vars PROVE DriverInv'
  OBVIOUS
<1>1. steps' \in Nat
  BY StepsCount DEF DriverInv
<1>2. CASE Alone
  BY <1>1, <1>2, AloneSteps, AlonePlaces DEF DriverInv
<1>3. CASE Turn \/ TurnGoesOn \/ RowEnds \/ Send
  BY <1>1, <1>3 DEF Turn, TurnGoesOn, RowEnds, Send, driver, DriverInv
<1>4. CASE Receive
  <2>1. cfg' = cfg /\ pc \in DOMAIN Remote /\ pc' = NextStage
    BY <1>4 DEF Receive
  <2> QED
    BY <1>1, <2>1, StageAfter DEF DriverInv, Remote
<1>5. CASE (\E k \in Ranks : WorkerStep(k)) \/ CollectiveStep \/ UNCHANGED vars
  BY <1>5 DEF WorkerStep, CollectiveStep, driver, vars, DriverInv
<1> QED
  BY <1>2, <1>3, <1>4, <1>5 DEF Next, Driver, Alone, Over

LEMMA NextCall == DriverInv /\ CallInv /\ [Next]_vars => CallInv'
<1> SUFFICES ASSUME DriverInv, CallInv, [Next]_vars PROVE CallInv'
  OBVIOUS
<1>1. CASE Alone
  BY <1>1, AloneSteps DEF workers, CallInv
<1>2. CASE Turn \/ Send
  <2>1. UNCHANGED driver /\ ~failed /\ Wanted
    BY <1>2 DEF Turn, Send, Generating, At
  <2>2. Wanted' /\ ~failed' /\ pc' = pc
    BY <2>1 DEF driver, Wanted, Due
  <2>3. \/ pc \in Playing /\ call'.method = "generate_sequences"
        \/ pc \in DOMAIN Remote /\ call'.method = Remote[pc]
    BY <1>2 DEF Turn, Send, Generating, At, Playing, Invoke
  <2> QED
    BY <2>2, <2>3 DEF CallInv, Remote
<1>3. CASE TurnGoesOn \/ RowEnds \/ Receive
  BY <1>3 DEF TurnGoesOn, RowEnds, Receive, Return, CallInv
<1>4. CASE (\E k \in Ranks : WorkerStep(k)) \/ CollectiveStep \/ UNCHANGED vars
  <2>1. call' = call /\ UNCHANGED driver
    BY <1>4 DEF WorkerStep, CollectiveStep, Worker, Collective, Load, Sample, Exit, Step,
      WriteCheckpoint, Offload, Enter, Forward, Backward, GatherCheckpoint, Barrier, vars, workers
  <2>2. Wanted' <=> Wanted
    BY <2>1 DEF driver, Wanted, Due
  <2> QED
    BY <2>1, <2>2 DEF driver, CallInv, Remote
<1> QED
  BY <1>1, <1>2, <1>3, <1>4 DEF Next, Driver, Alone, Over

\* Which shards a step may change: those of the model that is updated.
LEMMA ShardsMove ==
  ASSUME HybridInv, DriverInv, CallInv, [Next]_vars
  PROVE  \/ shard' = shard
         \/ /\ call # None /\ call' = call /\ UNCHANGED driver
            /\ \/ pc = "update_critic"
                    /\ \A k \in Ranks : \A m \in {"actor", "ref"} : shard'[k][m] = shard[k][m]
               \/ pc = "update_actor"
<1>1. CASE \E k \in Ranks : Step(k) /\ UNCHANGED driver
  <2>1. PICK k \in Ranks : Step(k) /\ UNCHANGED driver
    BY <1>1
  <2>2. /\ wpc[k] = "step" /\ call' = call
        /\ shard' = [shard EXCEPT ![k][ModelOf(call.method)] = @ + 1]
    BY <2>1 DEF Step
  <2>3. call # None /\ call.method \in Updates
    BY <2>2, Paths DEF HybridInv, OnPath
  <2>4. pc \in {"update_critic", "update_actor"} /\ call.method = pc
    BY <2>3 DEF CallInv, Updates, Remote
  <2>5. CASE pc = "update_critic"
    <3>1. ModelOf(call.method) = "critic"
      BY <2>4, <2>5 DEF ModelOf
    <3>2. \A j \in Ranks : \A m \in {"actor", "ref"} : shard'[j][m] = shard[j][m]
      BY <2>2, <3>1 DEF HybridInv, HybridTypeOK, Models
    <3> QED
      BY <2>1, <2>2, <2>3, <2>5, <3>2
  <2> QED
    BY <2>1, <2>2, <2>3, <2>4, <2>5
<1>2. CASE ~(\E k \in Ranks : Step(k) /\ UNCHANGED driver)
  <2>1. shard' = shard
    BY <1>2, AloneSteps DEF Next, Driver, Alone, Over, Turn, Send, TurnGoesOn, RowEnds, Receive, Invoke,
       Return, WorkerStep, CollectiveStep, Worker, Collective, Load, Sample, Exit, WriteCheckpoint,
       Offload, Enter, Forward, Backward, GatherCheckpoint, Barrier, vars, workers
  <2> QED
    BY <2>1
<1> QED
  BY <1>1, <1>2

LEMMA FreshSame ==
  ASSUME UNCHANGED shard
  PROVE  \A lineage, models : Fresh(lineage, models)' <=> Fresh(lineage, models)
BY DEF Fresh

\* What a generation has answered, once all ranks have.
LEMMA Generated ==
  ASSUME HybridInv, AnswersInv, Answered, Asked
  PROVE  /\ \A c \in DOMAIN result[Rank0] : Current(Collected(c))
         /\ call.method = "generate_sequences" =>
              "sequences" \in DOMAIN result[Rank0] /\ DOMAIN result[Rank0] \subseteq {"sequences", "old_log_probs"}
<1>1. \A k \in Ranks : wpc[k] = "done" /\ AnswerInv(k)
  BY DEF Answered, AnswersInv
<1>2. \A k \in Ranks : Answers(k) = Answers(Rank0)
  BY <1>1, RankAssumption DEF Answers
<1>3. \A k \in Ranks : DOMAIN result[k] = DOMAIN result[Rank0]
  BY <1>1, <1>2, RankAssumption DEF AnswerInv
<1>4. ASSUME NEW c \in DOMAIN result[Rank0] PROVE Current(Collected(c))
  <2>1. \A k \in Ranks : Current(result[k][c])
    BY <1>1, <1>3 DEF AnswerInv
  <2> QED
    BY <2>1 DEF Current, Collected, Lineages
<1>5. call.method = "generate_sequences" =>
        "sequences" \in DOMAIN result[Rank0] /\ DOMAIN result[Rank0] \subseteq {"sequences", "old_log_probs"}
  BY <1>1, RankAssumption DEF AnswerInv, Answers
<1> QED
  BY <1>4, <1>5

LEMMA CurrentFresh == \A lineage, models : Current(lineage) => lineage \in Lineages /\ Fresh(lineage, models)
BY DEF Current, Fresh

LEMMA NextOuts ==
  ASSUME HybridInv, AnswersInv, DriverInv, CallInv, OutsInv, [Next]_vars
  PROVE  OutsInv'
<1>1. CASE RolloutEnds \/ Validated
  <2>1. /\ pc \in Playing /\ Len(outs) = RolloutRows /\ outs' = << >> /\ said' = said
        /\ pc' \notin Playing
    BY <1>1, StageAfter DEF RolloutEnds, Validated, At, Playing
  <2>2. said = {}
    <3>1. RolloutRows \in Nat
      BY ConfigAssumption DEF RolloutRows, DriverInv
    <3> QED
      BY <2>1, <3>1 DEF OutsInv
  <2>3. << >> \in Seq(Rows) /\ {} \in Lineages
    BY DEF Lineages
  <2> QED
    BY <2>1, <2>2, <2>3 DEF OutsInv, Playing
<1>2. CASE Skip \/ First \/ NextBatch \/ NextEpoch \/ Balance \/ Reward \/ ApplyKL \/ Advantage \/ EndStep
  <2>1. /\ UNCHANGED <<outs, said>> /\ call' = None
        /\ pc \notin Playing \/ ~Wanted
    BY <1>2, AloneSteps DEF Skip, First, NextBatch, NextEpoch, Balance, Reward, ApplyKL, Advantage, EndStep,
       Compute, At, Playing, Alone, workers
  <2>2. outs = << >> /\ said = {}
    BY <2>1 DEF OutsInv
  <2>3. << >> \in Seq(Rows) /\ {} \in Lineages /\ DOMAIN << >> = {}
    BY DEF Lineages
  <2>4. Fresh({}, Models)'
    BY DEF Fresh
  <2> QED
    BY <2>1, <2>2, <2>3, <2>4 DEF OutsInv
<1>3. CASE Turn
  <2>1. UNCHANGED driver /\ shard' = shard /\ Len(outs) < RolloutRows
    BY <1>3 DEF Turn, Invoke
  <2>2. (Wanted' <=> Wanted) /\ RolloutRows' = RolloutRows
    BY <2>1 DEF driver, Wanted, Due, RolloutRows, Validating
  <2> QED
    BY <2>1, <2>2, FreshSame DEF OutsInv, driver, Rows, Lineages
<1>4. CASE Raise \/ Send \/ (\E k \in Ranks : WorkerStep(k)) \/ CollectiveStep \/ UNCHANGED vars
  <2>1. UNCHANGED <<cfg, pc, steps, outs, said>> /\ (pc \in Playing => call' = call)
    BY <1>4 DEF Raise, Send, WorkerStep, CollectiveStep, Worker, Collective, Load, Sample, Exit, Step,
      WriteCheckpoint, Offload, Enter, Forward, Backward, GatherCheckpoint, Barrier, vars, workers, driver,
      Playing, Remote
  <2>2. (Wanted' <=> Wanted) /\ RolloutRows' = RolloutRows
    BY <2>1 DEF Wanted, Due, RolloutRows, Validating
  <2>3. pc = "rollout" => shard' = shard
    BY ShardsMove
  <2> QED
    BY <2>1, <2>2, <2>3, FreshSame DEF OutsInv, Rows, Lineages
<1>5. CASE Receive
  <2>1. pc \notin Playing /\ pc \in DOMAIN Remote /\ pc' = NextStage /\ UNCHANGED <<outs, said>> /\ call' = None
    BY <1>5 DEF Receive, Remote, Playing, Return
  <2>2. pc' # "rollout"
    BY <2>1, StageAfter DEF Remote
  <2>3. outs' = << >> /\ said' = {} /\ outs = << >> /\ said = {}
    BY <2>1 DEF OutsInv
  <2>4. << >> \in Seq(Rows) /\ {} \in Lineages
    BY DEF Lineages
  <2> QED
    BY <2>1, <2>2, <2>3, <2>4 DEF OutsInv
<1>6. CASE TurnGoesOn \/ RowEnds
  <2>1. pc \in Playing /\ Answered /\ call' = None /\ UNCHANGED <<cfg, pc, steps>> /\ shard' = shard
    BY <1>6 DEF TurnGoesOn, RowEnds, Return, Playing
  <2>2. call # None /\ call.method = "generate_sequences" /\ Asked /\ Wanted /\ Wanted'
    BY <2>1 DEF Answered, CallInv, Remote, Playing, Asked, Adds, Wanted, Due
  <2>3. /\ \A c \in DOMAIN result[Rank0] : Collected(c) \in Lineages /\ Fresh(Collected(c), Models)
        /\ "sequences" \in DOMAIN result[Rank0] /\ DOMAIN result[Rank0] \subseteq {"sequences", "old_log_probs"}
    BY <2>1, <2>2, Generated, CurrentFresh
  <2>4. Len(outs) < RolloutRows /\ RolloutRows' = RolloutRows
    BY <2>1, <2>2 DEF OutsInv, RolloutRows, Validating
  <2> DEFINE more == said \cup Collected("sequences")
  <2>5. more \in Lineages /\ (pc = "rollout" => Fresh(more, Models))
    BY <2>3 DEF OutsInv, Fresh, Lineages
  <2> HIDE DEF more
  <2>6. CASE TurnGoesOn
    <3>1. said' = more /\ outs' = outs
      BY <2>6 DEF TurnGoesOn, more
    <3> QED
      BY <2>1, <2>2, <2>4, <2>5, <3>1, FreshSame DEF OutsInv, Rows, Lineages
  <2>7. CASE RowEnds
    <3> DEFINE row == Finished(DOMAIN result[Rank0] \cup {"response_mask"})
    <3>1. said' = {} /\ outs' = Append(outs, row)
      BY <2>7 DEF RowEnds
    <3>2. /\ DOMAIN row = DOMAIN result[Rank0] \cup {"response_mask"}
          /\ \A c \in DOMAIN row : row[c] = more \/ (c \in DOMAIN result[Rank0] /\ row[c] = Collected(c))
          /\ row = [c \in DOMAIN row |-> row[c]]
      BY DEF Finished, more
    <3> HIDE DEF row
    <3>3. row \in Rows /\ (pc = "rollout" => \A c \in DOMAIN row : Fresh(row[c], Models))
      <4>1. \A c \in DOMAIN row : row[c] \in Lineages /\ (pc = "rollout" => Fresh(row[c], Models))
        BY <2>3, <2>5, <3>2
      <4>2. DOMAIN row \in {C \in SUBSET Names : "sequences" \in C}
        BY <2>3, <3>2 DEF Names
      <4>3. row \in [DOMAIN row -> Lineages]
        BY <3>2, <4>1
      <4> QED
        BY <4>1, <4>2, <4>3 DEF Rows
    <3>4. /\ outs' \in Seq(Rows)
          /\ pc = "rollout" => \A i \in DOMAIN outs' : \A c \in DOMAIN outs'[i] : Fresh(outs'[i][c], Models)
      <4>1. outs \in Seq(Rows)
        BY DEF OutsInv
      <4>2. /\ outs' \in Seq(Rows) /\ DOMAIN outs' = 1 .. Len(outs) + 1 /\ Len(outs) \in Nat
            /\ DOMAIN outs = 1 .. Len(outs)
            /\ \A i \in 1 .. Len(outs) + 1 : outs'[i] = IF i = Len(outs) + 1 THEN row ELSE outs[i]
        BY <3>1, <3>3, <4>1
      <4> QED
        BY <3>3, <4>2 DEF OutsInv
    <3>5. {} \in Lineages /\ Fresh({}, Models)'
      BY DEF Lineages, Fresh
    <3> QED
      BY <2>1, <2>2, <3>1, <3>4, <3>5, FreshSame DEF OutsInv, Rows, Lineages
  <2> QED
    BY <1>6, <2>6, <2>7
<1> QED
  BY <1>1, <1>2, <1>3, <1>4, <1>5, <1>6 DEF Next, Driver, Over

\* A step that leaves the batch alone, and finds it no fresher.
LEMMA BatchKept ==
  ASSUME BatchInv, UNCHANGED <<cfg, batch>>,
         \A c \in DOMAIN batch : Fresh(batch[c].lineage, Unchanged) => Fresh(batch[c].lineage, Unchanged)',
         pc' = "rollout" => pc = "rollout",
         pc' \in StageSet \ {"rollout"} => pc \in StageSet \ {"rollout"}
  PROVE  BatchInv'
<1>1. (\A c \in DOMAIN batch : Fresh(batch[c].lineage, Unchanged))'
  BY DEF BatchInv
<1>2. pc' \in StageSet => pc \in StageSet
  BY StageAfter
<1> QED
  BY <1>1, <1>2 DEF BatchInv, RowsAligned, Orders, StageSet

\* A step that adds columns in the order of the batch.
LEMMA BatchGrows ==
  ASSUME BatchInv, UNCHANGED <<cfg, shard>>, NEW data, batch' = Union(data), Unchanged' = Models,
         Unchanged = Models, pc \in StageSet \ {"rollout"}, pc' \in StageSet \ {"rollout"},
         \A c \in DOMAIN data : /\ data[c] = [order |-> Order, lineage |-> data[c].lineage]
                                /\ data[c].lineage \in Lineages /\ Fresh(data[c].lineage, Models)
  PROVE  BatchInv'
<1>1. Order \in Orders
  BY DEF BatchInv, Order
<1>2. /\ DOMAIN batch' = DOMAIN batch \cup DOMAIN data
      /\ \A c \in DOMAIN batch' : batch'[c] = IF c \in DOMAIN data THEN data[c] ELSE batch[c]
  BY DEF Union
<1>3. \A c \in DOMAIN batch' : /\ batch'[c] \in [order : Orders, lineage : Lineages]
                               /\ Fresh(batch'[c].lineage, Models)
  BY <1>1, <1>2 DEF BatchInv
<1>4. \A c \in DOMAIN batch' : batch'[c].order = Order
  BY <1>2 DEF BatchInv, RowsAligned, Order
<1>5. "sequences" \in DOMAIN batch'
  BY <1>2 DEF BatchInv
<1> QED
  BY <1>3, <1>4, <1>5, FreshSame DEF BatchInv, RowsAligned, Orders

LEMMA NextBatchInv ==
  ASSUME HybridInv, AnswersInv, DriverInv, CallInv, OutsInv, BatchInv, [Next]_vars
  PROVE  BatchInv'
<1>1. CASE NextBatch
  <2>1. /\ pc' = "rollout" /\ cfg' = cfg /\ DOMAIN batch' = {"ground_truth"}
        /\ batch'["ground_truth"] = [order |-> [i \in 1 .. cfg.rows |-> i], lineage |-> {}]
    BY <1>1 DEF NextBatch
  <2>2. [i \in 1 .. cfg.rows |-> i] \in Orders /\ {} \in Lineages /\ Orders' = Orders
    BY <2>1 DEF Orders, Lineages
  <2>3. batch'["ground_truth"] \in [order : Orders, lineage : Lineages]
    BY <2>1, <2>2
  <2>5. (\A c \in DOMAIN batch : batch[c] \in [order : Orders, lineage : Lineages])'
    BY <2>1, <2>2, <2>3
  <2>6. (\A c \in DOMAIN batch : Fresh(batch[c].lineage, Unchanged))'
    BY <2>1 DEF Fresh
  <2>7. RowsAligned'
    BY <2>1 DEF RowsAligned
  <2>8. batch'["ground_truth"].order = [i \in 1 .. cfg'.rows |-> i]
    BY <2>1
  <2> QED
    BY <2>1, <2>5, <2>6, <2>7, <2>8 DEF BatchInv
<1>2. CASE RolloutEnds
  <2> DEFINE all == Columns(Concat, "uid", batch["ground_truth"])
             ids == [i \in 1 .. cfg.rows |-> i]
  <2>1. /\ pc = "rollout" /\ pc' = "balance" /\ batch' = Union(all) /\ UNCHANGED <<cfg, shard>>
        /\ Len(outs) = cfg.rows /\ ~Mixed /\ cfg.rows \in Nat \ {0}
    BY <1>2, ConfigAssumption DEF RolloutEnds, At, RolloutRows, Validating, workers, DriverInv
  <2>2. DOMAIN outs = 1 .. cfg.rows /\ outs[1] \in Rows /\ \A i \in 1 .. cfg.rows : outs[i] \in Rows
    BY <2>1 DEF OutsInv
  <2>3. \A i \in DOMAIN outs : DOMAIN outs[i] = DOMAIN outs[1]
    BY <2>1, <2>2 DEF Mixed
  <2>4. \A row \in Rows : "sequences" \in DOMAIN row /\ \A c \in DOMAIN row : row[c] \in Lineages
    BY DEF Rows
  <2> DEFINE from(c) == UNION {outs[i][c] : i \in DOMAIN outs}
  <2>5. ASSUME NEW c \in DOMAIN outs[1]
        PROVE  /\ Concat[c] = [order |-> ids, lineage |-> from(c)]
               /\ from(c) \in Lineages /\ Fresh(from(c), Models)
    <3>1. \A i \in DOMAIN outs : outs[i][c] \in Lineages /\ Fresh(outs[i][c], Models)
      BY <2>1, <2>2, <2>3, <2>4 DEF OutsInv
    <3> QED
      BY <2>2, <3>1 DEF Concat, Lineages, Fresh
  <2>6. DOMAIN Concat = DOMAIN outs[1]
    BY DEF Concat
  <2>7. /\ batch["ground_truth"].order = ids /\ batch["ground_truth"] \in [order : Orders, lineage : Lineages]
        /\ Fresh(batch["ground_truth"].lineage, Models) /\ DOMAIN batch = {"ground_truth"}
    BY <2>1 DEF BatchInv, Unchanged, Building
  <2>8. ids \in Orders
    BY DEF Orders
  <2>9. \A c \in DOMAIN all : /\ all[c] \in [order : Orders, lineage : Lineages]
                              /\ all[c].order = ids /\ Fresh(all[c].lineage, Models)
    <3>1. \A c \in DOMAIN outs[1] : /\ Concat[c] \in [order : Orders, lineage : Lineages]
                                   /\ Concat[c].order = ids /\ Fresh(Concat[c].lineage, Models)
      <4> SUFFICES ASSUME NEW c \in DOMAIN outs[1]
                   PROVE  /\ Concat[c] \in [order : Orders, lineage : Lineages]
                          /\ Concat[c].order = ids /\ Fresh(Concat[c].lineage, Models)
        OBVIOUS
      <4>1. PICK l : Concat[c] = [order |-> ids, lineage |-> l] /\ l \in Lineages /\ Fresh(l, Models)
        BY <2>5
      <4> HIDE DEF ids, from
      <4> QED
        BY <2>8, <4>1
    <3>2. \A c \in DOMAIN all : all[c] = batch["ground_truth"] \/ (c \in DOMAIN outs[1] /\ all[c] = Concat[c])
      BY <2>6 DEF Columns
    <3> HIDE DEF all, ids
    <3> QED
      BY <2>7, <3>1, <3>2
  <2>10. "sequences" \in DOMAIN all
    BY <2>2, <2>4, <2>6 DEF Columns
  <2> HIDE DEF all, ids
  <2>11. /\ DOMAIN batch' = DOMAIN batch \cup DOMAIN all
         /\ \A c \in DOMAIN batch' : batch'[c] = IF c \in DOMAIN all THEN all[c] ELSE batch[c]
    BY <2>1 DEF Union
  <2>12. \A c \in DOMAIN batch' : /\ batch'[c] \in [order : Orders, lineage : Lineages]
                                  /\ batch'[c].order = ids /\ Fresh(batch'[c].lineage, Models)
    BY <2>7, <2>9, <2>11
  <2>13. Unchanged' = Models
    BY <2>1 DEF Unchanged, Building
  <2> QED
    BY <2>1, <2>10, <2>11, <2>12, <2>13, FreshSame DEF BatchInv, RowsAligned, Orders
<1>3. CASE Balance
  <2>1. /\ pc = "balance" /\ pc' = "ref" /\ UNCHANGED <<cfg, shard>>
    BY <1>3, StageAfter DEF Balance, At, workers
  <2>2. PICK p \in Permutations : batch' = Reordered(p)
    BY <1>3 DEF Balance
  <2>3. p \in Orders
    BY DEF Permutations, Orders
  <2>4. \A c \in DOMAIN batch : batch[c] \in [order : Orders, lineage : Lineages]
    BY DEF BatchInv
  <2> DEFINE permuted(o) == [i \in 1 .. cfg.rows |-> o[p[i]]]
  <2>5. \A c \in DOMAIN batch : /\ batch'[c].order = permuted(batch[c].order)
                                /\ batch'[c].lineage = batch[c].lineage
                                /\ batch'[c] \in [order : Orders, lineage : Lineages]
    <3> SUFFICES ASSUME NEW c \in DOMAIN batch
                 PROVE  /\ batch'[c].order = permuted(batch[c].order)
                        /\ batch'[c].lineage = batch[c].lineage
                        /\ batch'[c] \in [order : Orders, lineage : Lineages]
      OBVIOUS
    <3> DEFINE o == permuted(batch[c].order)
    <3>1. batch'[c] = [batch[c] EXCEPT !.order = o]
      BY <2>2, <2>4 DEF Reordered, Orders
    <3>2. o \in Orders
      BY <2>3, <2>4 DEF Orders
    <3> QED
      BY <2>4, <3>1, <3>2
  <2>6. DOMAIN batch' = DOMAIN batch
    BY <2>2 DEF Reordered
  <2>7. Unchanged = Models /\ Unchanged' = Models
    BY <2>1 DEF Unchanged, Building
  <2>8. \A c, d \in DOMAIN batch : batch[c].order = batch[d].order
    BY <2>1, StageAfter DEF BatchInv, RowsAligned
  <2>9. "sequences" \in DOMAIN batch
    BY <2>1, StageAfter DEF BatchInv
  <2>10. \A c, d \in DOMAIN batch' : batch'[c].order = batch'[d].order
    <3> HIDE DEF permuted
    <3> QED
      BY <2>5, <2>6, <2>8
  <2>11. \A c \in DOMAIN batch' : Fresh(batch'[c].lineage, Models)
    BY <2>5, <2>6, <2>7 DEF BatchInv
  <2>12. Orders' = Orders
    BY <2>1 DEF Orders
  <2> QED
    BY <2>1, <2>5, <2>6, <2>7, <2>9, <2>10, <2>11, <2>12, FreshSame DEF BatchInv, RowsAligned
<1>4. CASE Reward \/ ApplyKL \/ Advantage
  <2>1. PICK columns : batch' = Union(Made(columns))
    BY <1>4 DEF Reward, ApplyKL, Advantage, Compute
  <2>2. /\ pc \in {"reward", "kl", "advantage"} /\ pc' \in {"kl", "advantage", "update_critic"}
        /\ call' = None /\ UNCHANGED <<cfg, shard>> /\ At(pc) /\ ~Missing
    BY <1>4, StageAfter DEF Reward, ApplyKL, Advantage, Compute, At, workers
  <2>3. Unchanged = Models /\ Unchanged' = Models
    BY <2>2 DEF Unchanged, Building
  <2>4. Needs \subseteq DOMAIN batch
    BY <2>2, StageAfter DEF Missing
  <2>5. /\ UNION {batch[d].lineage : d \in Needs} \in Lineages
        /\ Fresh(UNION {batch[d].lineage : d \in Needs}, Models)
    BY <2>3, <2>4 DEF BatchInv, Lineages, Fresh
  <2>6. \A c \in DOMAIN Made(columns) :
          Made(columns)[c] = [order |-> Order, lineage |-> UNION {batch[d].lineage : d \in Needs}]
    BY DEF Made
  <2>7. pc \in StageSet \ {"rollout"} /\ pc' \in StageSet \ {"rollout"}
    BY <2>2, StageAfter
  <2> DEFINE data == Made(columns)
             from == UNION {batch[d].lineage : d \in Needs}
  <2>8. /\ batch' = Union(data)
        /\ \A c \in DOMAIN data : /\ data[c] = [order |-> Order, lineage |-> data[c].lineage]
                                  /\ data[c].lineage \in Lineages /\ Fresh(data[c].lineage, Models)
    <3>1. \A c \in DOMAIN data : data[c] = [order |-> Order, lineage |-> from]
      BY <2>6
    <3>2. from \in Lineages /\ Fresh(from, Models)
      BY <2>5
    <3>3. batch' = Union(data)
      BY <2>1
    <3> HIDE DEF data, from
    <3> QED
      BY <3>1, <3>2, <3>3
  <2> HIDE DEF data
  <2> QED
    BY <2>2, <2>3, <2>7, <2>8, BatchGrows
<1>5. CASE Receive /\ pc \in {"ref", "values"}
  <2> DEFINE data == [c \in DOMAIN result[Rank0] |-> [order |-> Order, lineage |-> Collected(c)]]
  <2>1. /\ batch' = Union(data) /\ pc' \in {"values", "reward"} /\ call # None /\ Answered
        /\ UNCHANGED <<cfg, shard>>
    BY <1>5, StageAfter DEF Receive, Return, Answered
  <2>2. Asked
    BY <1>5, <2>1 DEF Asked, CallInv, Remote, Adds, Playing
  <2>3. \A c \in DOMAIN data : /\ data[c] = [order |-> Order, lineage |-> data[c].lineage]
                               /\ data[c].lineage \in Lineages /\ Fresh(data[c].lineage, Models)
    BY <2>1, <2>2, Generated, CurrentFresh
  <2>4. Unchanged = Models /\ Unchanged' = Models
    BY <1>5, <2>1 DEF Unchanged, Building
  <2>5. pc \in StageSet \ {"rollout"} /\ pc' \in StageSet \ {"rollout"}
    BY <1>5, <2>1, StageAfter
  <2> HIDE DEF data
  <2> QED
    BY <2>1, <2>3, <2>4, <2>5, BatchGrows
<1>6. CASE \/ Skip \/ First \/ NextEpoch \/ Validated \/ Raise \/ EndStep
           \/ (Receive /\ pc \notin {"ref", "values"}) \/ Turn \/ Send \/ TurnGoesOn \/ RowEnds
  <2>1. UNCHANGED <<cfg, batch, shard>>
    BY <1>6 DEF Skip, First, NextEpoch, Validated, Raise, EndStep, Receive, Turn, Send, TurnGoesOn, RowEnds,
       Invoke, Return, workers, driver
  <2>2. /\ pc' = "rollout" => pc = "rollout"
        /\ pc' \in StageSet \ {"rollout"} => pc \in StageSet \ {"rollout"}
    BY <1>6, StageAfter DEF Skip, First, NextEpoch, Validated, Raise, EndStep, Receive, Turn, Send,
       TurnGoesOn, RowEnds, driver, At, Remote, Wanted
  <2>3. Unchanged' \subseteq Unchanged
    BY <1>6, <2>1, StageAfter DEF Skip, First, NextEpoch, Validated, Raise, EndStep, Receive, Turn, Send,
       TurnGoesOn, RowEnds, Return, Invoke, driver, At, Remote, Unchanged, Building, Models, workers, Wanted
  <2>4. \A lineage : Fresh(lineage, Unchanged) => Fresh(lineage, Unchanged)'
    BY <2>1, <2>3 DEF Fresh
  <2> QED
    BY <2>1, <2>2, <2>4, BatchKept
<1>7. CASE (\E k \in Ranks : WorkerStep(k)) \/ CollectiveStep \/ UNCHANGED vars
  <2>1. UNCHANGED <<cfg, pc, batch, call>>
    BY <1>7 DEF WorkerStep, CollectiveStep, Worker, Collective, Load, Sample, Exit, Step,
      WriteCheckpoint, Offload, Enter, Forward, Backward, GatherCheckpoint, Barrier, vars, workers, driver
  <2>2. Unchanged' = Unchanged
    BY <2>1 DEF Unchanged
  <2>3. \A k \in Ranks : \A m \in Unchanged : shard'[k][m] = shard[k][m]
    BY ShardsMove DEF Unchanged, Building
  <2>4. \A lineage : Fresh(lineage, Unchanged) => Fresh(lineage, Unchanged)'
    BY <2>2, <2>3 DEF Fresh
  <2> QED
    BY <2>1, <2>4, BatchKept
<1> QED
  BY <1>1, <1>2, <1>3, <1>4, <1>5, <1>6, <1>7 DEF Next, Driver, Over

-----------------------------------------------------------------------------
\* The inductive invariant of a training job: the workers', the answers', and the driver's (fit() of
\* ray_trainer.py and get_rollout of rollout_manager.py).
THEOREM FitInvariance == Spec => [](HybridInv /\ AnswersInv /\ FitInv)
<1>1. Init => AnswersInv /\ FitInv
  <2> SUFFICES ASSUME Init PROVE AnswersInv /\ FitInv
    OBVIOUS
  <2>1. call = None /\ pc = "first" /\ outs = << >> /\ said = {} /\ steps = 0 /\ cfg \in Configs
        /\ batch = << >>
    BY DEF Init, HybridInit
  <2>2. << >> \in Seq(Rows) /\ {} \in Lineages /\ DOMAIN << >> = {}
    BY DEF Lineages
  <2>3. "first" \notin StageSet
    BY StageAfter
  <2> QED
    BY <2>1, <2>2, <2>3 DEF AnswersInv, Asked, FitInv, DriverInv, CallInv, OutsInv, BatchInv, RowsAligned, Playing
<1>2. HybridInv /\ AnswersInv /\ FitInv /\ [Next]_vars => AnswersInv' /\ FitInv'
  <2> SUFFICES ASSUME HybridInv, AnswersInv, FitInv, [Next]_vars PROVE AnswersInv' /\ FitInv'
    OBVIOUS
  <2>1. AnswersInv'
    BY StepMaps, NextAnswers DEF FitInv, DriverInv
  <2> QED
    BY <2>1, NextDriver, NextCall, NextOuts, NextBatchInv DEF FitInv
<1> QED
  BY <1>1, <1>2, TrainingInvariance, PTL DEF Spec

\* The rows of every update are those of one batch, in one order, and what an update learns from was
\* computed by the weights it finds: no column is left from before an update, and no reward is credited
\* to another row (ray_trainer.py:628 and 676-688), whatever the configuration.
THEOREM ExperienceIsFresh == Spec => []ExperienceFits
<1>1. HybridInv /\ AnswersInv /\ FitInv => ExperienceFits
  <2> SUFFICES ASSUME FitInv PROVE RowsAligned /\ FreshExperience
    BY DEF ExperienceFits
  <2>1. RowsAligned
    BY DEF FitInv, BatchInv
  <2>2. ASSUME call = None, NEW c \in DOMAIN batch, NEW k \in Ranks, NEW source \in batch[c].lineage
        PROVE  /\ pc = "update_critic" => source[2] = shard[k][source[1]]
               /\ pc = "update_actor" /\ source[1] # "critic" => source[2] = shard[k][source[1]]
    <3>1. batch[c].lineage \in Lineages /\ Fresh(batch[c].lineage, Unchanged)
      BY DEF FitInv, BatchInv
    <3>2. source[1] \in Models
      BY <3>1 DEF Lineages
    <3> QED
      BY <2>2, <3>1, <3>2 DEF Fresh, Unchanged, Models, Building
  <2> QED
    BY <2>1, <2>2 DEF FreshExperience
<1> QED
  BY <1>1, FitInvariance, PTL

=============================================================================
