--------------------------- MODULE MemoryBuffers ---------------------------
(***************************************************************************)
(* utils/memory_buffer.py: the parameters of a module packed into one      *)
(* buffer per type, and the two ways the views into it are laid out: over  *)
(* the module (the actor) and over its description (the rollout).          *)
(* A parameter is [numel, dtype]; a module is the sequence of its          *)
(* parameters, sorted by name.                                             *)
(***************************************************************************)
EXTENDS Naturals, Sequences, FiniteSets, SequencesExt

CONSTANT OutOfRange     \* the assertion of MemoryBuffer.get

Bits(dtype) == CASE dtype = "bf16" -> 16 [] dtype = "fp32" -> 32

\* calc_padded_numel: up to a multiple of 128 bits.
CalcPaddedNumel(numel, dtype) ==
  LET align == 128 \div Bits(dtype) IN ((numel + align - 1) \div align) * align

\* build_memory_buffer: the types in the order they are met, and their sizes.
Dtypes(module) ==
  FoldLeft(LAMBDA acc, p : IF p.dtype \in ToSet(acc) THEN acc ELSE Append(acc, p.dtype), << >>, module)
BuildMemoryBuffer(module) ==
  [d \in ToSet(Dtypes(module)) |->
     FoldLeft(LAMBDA acc, p : IF p.dtype = d THEN acc + CalcPaddedNumel(p.numel, d) ELSE acc, 0, module)]

\* MemoryBuffer.get: a view of numel entries, or an assertion.
Get(size, numel, start) ==
  IF start + numel > size THEN OutOfRange ELSE [from |-> start, to |-> start + numel]

\* Where the i-th parameter begins, each padded as the given type asks.
Start(module, i, padAs(_)) ==
  FoldLeft(LAMBDA acc, p : IF p.dtype = module[i].dtype THEN acc + CalcPaddedNumel(p.numel, padAs(p)) ELSE acc,
           0, SubSeq(module, 1, i - 1))

\* build_memory_reference, over the description.
BuildMemoryReference(module) ==
  LET Own(p) == p.dtype
  IN  [i \in DOMAIN module |->
         Get(BuildMemoryBuffer(module)[module[i].dtype], module[i].numel, Start(module, i, Own))]

\* build_memory_reference_from_module: "dtype" is what the loop before left
\* there, the last type of the buffers.
BuildMemoryReferenceFromModule(module) ==
  LET Left(p) == Last(Dtypes(module))
  IN  [i \in DOMAIN module |->
         Get(BuildMemoryBuffer(module)[module[i].dtype], module[i].numel, Start(module, i, Left))]

\* MegatronMemoryBufferForRollout: a buffer and its views for every stage.
RolloutBuffers(stages) ==
  [s \in DOMAIN stages |-> [buffer |-> BuildMemoryBuffer(stages[s]), views |-> BuildMemoryReference(stages[s])]]

\* The rollout's views lie in their buffer, on 128 bits.  Two parameters of a
\* type lie apart for either; the actor's may run out of the buffer, which
\* asserts.  Both see each parameter at the same place exactly if no parameter
\* that another of its type follows is padded otherwise as the last type.
Apart(module, views) ==
  \A i \in DOMAIN module, j \in DOMAIN module :
    i # j /\ module[i].dtype = module[j].dtype /\ OutOfRange \notin {views[i], views[j]} =>
      views[i].to <= views[j].from \/ views[j].to <= views[i].from
PaddedAlike(module) ==
  \A i \in DOMAIN module :
    (\E j \in i + 1 .. Len(module) : module[j].dtype = module[i].dtype) =>
      CalcPaddedNumel(module[i].numel, module[i].dtype) = CalcPaddedNumel(module[i].numel, Last(Dtypes(module)))
ViewsAgree(module, actor, rollout) ==
  /\ \A i \in DOMAIN module : rollout[i] # OutOfRange /\ ((Bits(module[i].dtype) * rollout[i].from) % 128) = 0
  /\ Apart(module, rollout) /\ Apart(module, actor)
  /\ (actor = rollout) = PaddedAlike(module)
  /\ Len(Dtypes(module)) = 1 => actor = rollout
=============================================================================
