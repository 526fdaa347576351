# TLA+ models of the ART graph builder and its runtime neighbours

This directory holds TLA+ models of the sources under `src/art/`. The centre is
the optimizing compiler's graph construction (`compiler/optimizing/builder.cc`,
which spec.md describes). Around it are the runtime pieces that ship in the
same tree: the class table, the quick field entrypoints, the arm64 long-jump
context, the oat method header and the membarrier wrapper. Every module is
checked with TLC. `PROJECT.json` lists the components, the runs, the mutants
that each property must catch, the map from every definition to its source
lines, and the hazards.

## 1. Inventory

### 1.1 Graph construction (spec.md §2–§7)

| Part | Source | State | Operations |
|---|---|---|---|
| Orchestrator `HGraphBuilder` | `builder.cc` (in src/) | graph vreg counts, graph blocks (empty at entry), the result | `BuildGraph`, `SkipCompilation`, `BuildIntrinsicGraph` |
| Block partitioner `HBasicBlockBuilder` | not in src/ | block-start offsets, blocks, edges, try boundaries | `Build`, `BuildIntrinsic` |
| Dominator analyzer `HGraph::BuildDominatorTree` | not in src/ | idom per block, reachability, loop headers | `BuildDominatorTree` |
| Instruction materializer `HInstructionBuilder` | not in src/ | per-block vreg→value arrays | `Build`, `BuildIntrinsic` |
| SSA finalizer `SsaBuilder` | not in src/ | phis, types | `BuildSsa` |

How the parts interact: `BuildGraph` calls each stage in turn on one worker
thread. It hands the same `HGraph` from one stage to the next, and after each
call it returns on the first failure. It has no callbacks, locks or suspension
points. The only external policy is `SkipCompilation`. That policy depends on
whether there is a code generator (there is none in unit tests), on the
compiler filter (`kEverything` never skips), and on the code size against the
huge-method threshold. `BuildIntrinsicGraph` works out the vreg frame from the
shorty. It then runs the stages on a fixed three-block skeleton and only
DCHECKs what they return.

What is hard here:

- **Ordering.** The skip decision must come between partitioning and
  dominators.
- **Propagation.** Each stage's failure must reach the caller unchanged, and
  nothing may run after it.
- **Numbers.** The huge-method boundary and the wide/receiver vreg arithmetic
  must be exact.

Properties that make it correct:

- The right result for each method.
- No wasted stages.
- The right frame.
- For the stages: the blocks of an accepted method follow the instruction
  control flow; dominators equal the path
  definition; phi elimination keeps what every value stands for, and type
  conflicts are rejected exactly on live phis.
- For the stages together: a method that passed partitioning never ends in
  a dominator structural failure (spec.md §7). This one does not hold of
  the spec as written (§4 below).

### 1.2 Runtime components in src/

| Component | Source | State | Operations | Concurrency |
|---|---|---|---|---|
| Class table | `runtime/class_table.cc` | `classes_` (vector of hash sets, all but the last frozen), `strong_roots_`, `oat_files_`, `lock_` | constructor, `FreezeSnapshot`, `UpdateClass`, `Insert[WithHash]`, `Lookup`, `InsertStrongRoot`, `InsertOatFile[Locked]`, `ReadFromMemory`/`AddClassSet`, `ClearStrongRoots`, the `Num*` counters | reader-writer `lock_` held for each whole operation; mutators, the GC and the zygote fork call in |
| Quick field entrypoints | `runtime/entrypoints/quick/quick_field_entrypoints.cc` | the field value in the object or class; the dex-cache resolution state | `FindFieldFast`, `FindInstanceField`, `artGet/Set*{Static,Instance}From{Code,CompiledCode}`, `artSet8/16*` | races with class initialisation by another thread, and with a moving GC across the slow path's suspension |
| Arm64 context | `runtime/arch/arm64/context_arm64.cc` | `gprs_`/`fprs_` pointer arrays, `sp_`, `pc_`, `arg0_` | `Reset`, `FillCalleeSaves`, `SetGPR`, `SetFPR`, `SmashCallerSaves`, `CopyContextTo` | one thread; the static `gZero` is shared by every context |
| Oat method header | `runtime/oat/oat_quick_method_header.h` | `code_info_offset_`, code position | `Contains`, `GetCodeSize`, `GetEntryPoint`, `GetShouldDeoptimizeFlagOffset`, `IsOptimized` | none (immutable) |
| membarrier | `libartbase/base/membarrier.cc` | function-local static `membarrier_supported` | `IsMemBarrierSupported`, `membarrier` | the thread-safe static initialiser |
| Forwarders and declarations | string-builder append entrypoint, `interpreter_switch_impl.h`, `native_stack_dump.h`, `odr_artifacts.h` | none | forward to code outside src/ | none |
| Tests | `reflection_test.cc`, `instruction_set_features_x86_test.cc`, `common_compiler_test.h` | — | — | — |

Properties that make them correct:

- **Class table.** New classes go to the newest unfrozen set. Frozen and image
  sets never change. A replaced temporary class is never looked up again.
  `UpdateClass` never aborts for the calls the class linker makes. The zygote
  and non-zygote counts partition the table. Every dex cache held as a strong
  root has its oat file's .bss roots registered.
- **Field entrypoints.** A get or set succeeds only on a resolved field, of
  the right staticness, that the referrer may access. A static field is used
  only once its class is visibly initialised. A null receiver always throws
  NPE and never accesses memory. The value read or written is the one in the
  object after any GC move.
- **Arm64 context.** After `SmashCallerSaves`, `CopyContextTo` delivers 0 in
  X0. No `SetGPR` ever writes `gZero`. The callee-save slots are assigned from
  the highest register down.
- **Method header.** The return pc of every call, a call as the last
  instruction included, lies in exactly its own method's `[start, start+size]`,
  with the Thumb-2 shift. Its native pc offset is the call's end. The
  deoptimize flag lies inside the frame, below the spill area.
- **membarrier.** It is supported exactly for Linux 4.14 and later.

The hazards — what a unit test would hardly reach — are listed in
`PROJECT.json` at the line where each bites.

## 2. Plan

Modules, in the order they are built (the most important behaviour first):

1. **`GraphBuilderInputs`, `GraphBuilder`, `GraphBuilderSpec`** (done). These
   are the orchestrator and what it promises. The stage outcomes are inputs of
   the run. The detailed module is shown to refine the abstract one through
   `INSTANCE GraphBuilderSpec WITH ...`.
2. **`ClassTable`** (done). This is the runtime state machine with the most
   operations.
3. **`Dominators`** (done, spec-modelled). It computes the reverse-postorder
   iterative fixpoint over every CFG of 4 blocks, one block per step. The
   result is checked against the path definition of dominance. Unreachable
   blocks are removed, and the structural failure (entry with a predecessor)
   is reported.
4. **`SsaPhis`** (done, spec-modelled). It runs dead- and redundant-phi
   elimination in every order, the kind propagation to a fixpoint, and
   conflict detection (reference vs. primitive gives
   `kAnalysisInvalidBytecode`).
5. **`BlockPartitioner`** (done, spec-modelled). It covers leaders from branch
   targets, fall-through and try boundaries, rejects out-of-range and
   mid-instruction targets, and builds normal and exceptional edges.
6. **`GraphPipeline`** (done). It composes 3 and 5 into `GraphBuilder`: the
   partitioner's and the analyzer's outcomes are computed from the method's
   code instead of chosen. The instruction and SSA outcomes stay inputs:
   `SsaPhis` would need the phis the instruction builder creates, which is
   not modelled.
7. **`FieldEntrypoints`** (done). It covers the fast and slow paths of static and
   instance get/set, with a class-initialiser thread and a moving-GC thread.
8. **`Arm64Context`** and its abstract **`RegisterContext`** (done). It covers the register-context protocol (Reset → Fill →
   Set/Smash → Copy) over a small register file.
9. **`MethodHeader`** and **`Membarrier`** (done). These are pure arithmetic
   checked against reference definitions over bounded inputs.

The class-table map (descriptor → visible class), `ClassTableSpec`, is refined
by `ClassTable` (done). A field-store register refined by `FieldEntrypoints`
is left for later.

## 3. Modules and how they correspond to the code

### GraphBuilder (builder.cc)

**State:**

- `method` is the input of one run. For a bytecode method it holds:
  - the code-item counts and the code size;
  - the compiler filter and whether there is a code generator;
  - what each collaborator returns for this method.

  For an intrinsic it holds the shorty and the static flag.
- `pc` is where `BuildGraph` is.
- `result` is the returned `GraphAnalysisResult`.
- `numVRegs` and `numInVRegs` are the graph's counts.
- `work` is a history of the stages that ran.

**Actions:** one per collaborator call, each with the orchestrator logic that
follows it in `BuildGraph`:

| Action | Lines | What it covers |
|---|---|---|
| `BuildBlocks` | 94–120 | counts set, block builder, invalid bytecode on failure |
| `BuildDominatorTree` | 122–132 | `SkipCompilation`, then the dominator tree; its failure is returned as is |
| `BuildInstructions` | 134–137 | instruction builder, invalid bytecode on failure |
| `BuildSsa` | 139–140 | the SSA builder's result is returned |
| `BuildIntrinsicGraph` | 143–195 | the whole intrinsic path |

**Abstract specification:** `GraphBuilderSpec` does the compilation in one
step. From the method alone it gives:

- the result;
- the stages paid for;
- the vreg frame.

The frame is stated with a RECURSIVE sum of slot widths rather than the
code's character counts. The skip boundary is stated as "at the threshold
compiled, one above skipped" (spec.md §8).

### ClassTable (class_table.cc)

**State:**

- `classes` is `classes_`. Each set is a record `[id, origin, slots]`. The id
  and the origin (constructor, freeze or image) only let the properties name
  a set after `AddClassSet` moves it.
- `strongRoots` and `oatFiles` are the two vectors.
- `retired` is a history of the temporary classes `UpdateClass` replaced.
- `aborted` records a reached `LOG(FATAL)` or `CHECK`.
- `held` is the set of classes callers got from `Lookup`. A caller keeps its
  pointer after the reader lock is released, while writers go on.

**Actions:** each operation holds `lock_` for its whole body, so it is one
atomic action (`TableStep` groups the writers). `Lookup` is an action too:
under the reader lock it returns the first class of the descriptor, searching
from the last set back (`LookupCandidates`), and the result joins `held`. The
four counters change nothing and are operators.

**Abstract specification.** `ClassTableSpec` is what the table promises its
callers: a map from each descriptor to the class a lookup returns. A
descriptor without a class may get one (an insert or an image), a temporary
class may be replaced by a non-temporary class of its descriptor, and a
lookup hands its caller the mapped class. `ClassTable` maps onto it through
`LookupCandidates`, and `ImplementsClassTableSpec` checks that every step is
one of those or changes nothing a lookup can see.

**Inputs** are what the class linker really passes:

- each class object is inserted once, and only when its descriptor is not
  already in the table;
- `UpdateClass` gets a new non-temporary class whose temporary class the
  linker inserted;
- `FreezeSnapshot` runs only while no class is being linked. This is the
  single-threaded pre-fork zygote.

### FieldEntrypoints (quick_field_entrypoints.cc)

**State:**

- `status` is the declaring class's status. `resolved` and `typeResolved` are
  the dex-cache entries `FindFieldFast` looks at.
- `addr` is each object's current address. `staticVal` and `heap` are the
  field values.
- `call` holds the arguments and locals of the mutator's current entrypoint
  call: the field, the referrer, the receiver and the value to store. Each
  of these is kept both as an object and as the pointer the code holds, so
  a stale pointer can be told from the object's current address.
- `pc`, `ret` and `exc` are where the call is, what it returns and the
  exception pending.
- `lastAccess` is a history of the access the call made, if any.

**Actions:**

| Action | Code | What it covers |
|---|---|---|
| `Call` | 220–254 | the entrypoint called, with its referrer and value chosen from small sets |
| `FastPath` | 150–197 | `FindFieldFast` (31–69) and the access (`PerformAccess`, 116–147), with no suspension |
| `SlowPath` | 198–218 | `FindFieldFromCode`, `FindInstanceField` (71–90) and the access or the failure return (174–178) |
| `GcMove` | — | the moving GC while the mutator is suspended; only the locals in a `HandleWrapper` follow the object |
| `OtherThreadStartsInit`, `OtherThreadEndsInit`, `MakeVisiblyInitialized`, `OtherThreadResolves` | — | the other threads the entrypoints race with |

`FindFieldFromCode` is not under src/. It is modelled by its outcomes:

- `NoSuchFieldError`;
- `IncompatibleClassChangeError`;
- `IllegalAccessError`;
- initialising the class on this thread, or failing to with
  `ExceptionInInitializerError`;
- waiting while another thread initialises it;
- `NoClassDefFoundError` for an erroneous class.

### Arm64Context and RegisterContext (context_arm64.cc)

`gprs` and `fprs` are the pointer arrays. Each pointer is null or designates
one of these cells:

- `sp_`, `pc_` or `arg0_`;
- the shared `gZero`;
- a callee-save slot of one of two stack frames.

`mem` holds every cell's contents. Each function of the file is one action
with the same name. The compiler's prologue, which is not under src/,
decides where a frame saved each register: core registers above FP
registers, ascending. `FillCalleeSaves` must find them with its
high-to-low spill count.

`RegisterContext` is the abstract promise: a value register file. The
refinement mapping reads every register through its pointer. `Arm64Context`
implements it only if all of the following hold:

- the spill positions match the prologue;
- no two registers share a slot;
- no write reaches `gZero`;
- `SmashCallerSaves` forgets exactly the caller-saved registers.

### FieldKinds (quick_field_entrypoints.cc, primitive kinds)

`FieldKinds` follows a Java value through the C types of the entrypoints.
`Set` takes a register holding a value of one Java type and calls one of the
setters compiled code uses for it: `artSet8`/`artSet16` (shared by boolean
and byte, char and short, forwarding to the unsigned Boolean and Char
setters), `artSet32`, `artSet64`. The value is converted to the setter's
parameter type, the forwarded setter's `SetType`, and the field's C type.
`Get` calls the getter of the field's kind, converts `Get<Kind>` to the
instantiation's `RetType` and puts it in a register as the ISA's calling
convention does: sign-extended on riscv64, upper half unspecified (a choice
of garbage) on arm64. A 64-bit value is a pair of int32 halves, since TLC's
integers are 32-bit. `expected` is a history of the value stored when the
field was read.

### Dominators (HGraph::BuildDominatorTree, spec-modelled)

`nodes.cc` is not under src/, so `Dominators` follows spec.md §4.2. `Init`
chooses any skeleton over the blocks. `Start` removes the blocks unreachable
from the entry and computes the depth-first reverse postorder once;
`FailEntryPred` is the structural failure. `Step` gives the next block of a
pass the intersection of its processed predecessors' dominator chains (the
two-finger walk, `Intersect`). `EndPass` starts another pass if an idom
changed, or classifies the loop headers and finishes. The reference
definitions (`RefDominates`, `RefIdom`) are the path definition: `a`
dominates `b` when `b` is unreachable from the entry once `a` is removed.

### BlockPartitioner (HBasicBlockBuilder::Build, spec-modelled)

`block_builder.cc` is not under src/, so `BlockPartitioner` follows spec.md
§4.1. A method is a sequence of instructions (`nop`, `div`, `if`, `goto`,
`return`, `throw`) with their dex widths of one or two code units; a branch
holds its absolute target. `Init` chooses any such method whose last
instruction does not fall through, and any try entry `[start, end)` with one
handler, or none. `Build` is the one scan: `Leaders` are the block starts,
`OutOfRange` and `MidInstruction` the rejection, and `NormalEdges` and
`ExceptionalEdges` the edges out of each block (`BlockOf` is the block of an
instruction). `Flows` is an independent reference for dex control flow
between instructions, against which the blocks are checked. Left out: switches,
several try entries, the synthetic try-boundary blocks (an exceptional edge
goes straight to the handler's block) and `BuildIntrinsic`.

### SsaPhis (SsaBuilder::BuildSsa, spec-modelled)

`ssa_builder.cc` is not under src/, so `SsaPhis` follows spec.md §4.4 on the
phis of a graph. `in` maps each phi to its inputs, one per predecessor; the
values are phis and definitions of a reference or primitive kind, and `use`
is the value a real instruction uses. `EliminateDeadPhi` removes a phi no use
reaches (`LivePhis`, a RECURSIVE closure); `EliminateRedundantPhi` replaces a
phi whose inputs other than itself are one value `v` by `v` in every phi input
and in the use (`ReplaceInputs`). Both pick any phi, so every worklist order is
explored. `EndElimination` begins typing when neither applies; `PropagateKind`
adds a phi's input kinds to it; `CheckTypes`, at the fixpoint, reports a phi of
both kinds as `InvalidBytecode`. `origIn` and `origUse` are history variables
holding the graph as built. Left out: int/float equivalent phis and ambiguous
array operations.

### GraphPipeline (builder.cc with its collaborators composed)

`GraphPipeline` runs `GraphBuilder`'s actions unchanged (`INSTANCE
GraphBuilder`), but the method record is wired to a method's code:
`codeUnits` is the code's size, `blocksValid` the partitioner's verdict
(`BlocksValid`, builder.cc 116–120), and `dominatorResult` the analyzer's
outcome on the partitioner's skeleton (`DominatorResult`, 127–132): a
structural failure exactly when the entry block has a predecessor, the one
failure of `Dominators`, whose run shows the analyzer succeeds on every other
skeleton. The operators are taken from `BlockPartitioner` and `Dominators`
through `INSTANCE`.

### MethodHeader (oat_quick_method_header.h)

There are three compiled methods, laid out as the oat writer does: a 4-byte
header, then the code at the ISA's alignment. Nterp's two implementations
(with and without the clinit check) are elsewhere, with `code_info_offset_`
0. `WalkFrame` takes the return pc of a call at any instruction boundary of
one method and does four things:

- looks it up with `Contains` over all headers;
- finds the header from the method's entry point (`FromEntryPoint`);
- takes `NativeQuickPcOffset` (via `GetEntryPoint`);
- reads `GetShouldDeoptimizeFlagOffset` for the frame the compiler built,
  only when `HasShouldDeoptimizeFlag`.

`IsOptimized` is false for both Nterp headers, so their `CodeInfo` is never
decoded. Were it decoded, the bytes at Nterp's code would be read as a
`CodeInfo`; the model lets such a decode return any junk size and flag.

A `size_t`/`uintptr_t` difference that would be negative is represented by
`WrappedWord`, an integer larger than any address or frame of the model.
TLC's integers are 32-bit, so the true 2^w − k cannot be written. Comparisons
still see it as huge.

### Membarrier (membarrier.cc)

`Init` chooses a device, which fixes what the gate reads:

- whether `uname` succeeds;
- the sysname;
- how many numbers `sscanf("%d.%d")` converts;
- the kernel release;
- Bionic or not, and the API level.

`Devices` also chooses whether the build is for Linux: elsewhere
`MembarrierNonLinux` returns -1 with ENOSYS without looking at the kernel.
`Membarrier` is one call. The first call initialises the static; after that
the call fails with ENOSYS or issues the system call. The reference
`MembarrierUsable` compares versions as `major*100+minor`, not as the code's
nested test.

## 4. Runs

| Run | Properties | What it shows |
|---|---|---|
| `graph_builder` (MC_GraphBuilder.cfg) | `TypeOK`, `ImplementsGraphBuilderSpec` | every bytecode method in the bounds gets the promised result, and the skip check precedes the dominator tree; every intrinsic shorty of ≤3 arguments gets the promised frame |
| `class_table` (MC_ClassTable.cfg) | `TypeOK`, `ActiveSetIsNewest`, `FrozenSetsUnchanged`, `NoRetiredClassVisible`, `HeldClassHasReplacement`, `UpdateClassNeverAborts`, `ZygoteCountsPartition`, `BssRootsRegistered`, `ImplementsClassTableSpec` | every interleaving of the table's operations and lookups keeps the snapshot discipline, the counts and the root registration; a class a caller got from `Lookup` and still holds after `UpdateClass` retired it has exactly one linked replacement a new lookup finds; and the table refines the descriptor map |
| `field_entrypoints` (MC_FieldEntrypoints.cfg) | `TypeOK`, `AccessThroughCurrentAddress`, `StaticAccessOnInitializedClass`, `FinalWrittenOnlyByOwnClass`, `ReturnMatchesException`, `StoredReferenceTypeResolved` | against a class initialiser, dex-cache resolution and a moving GC, every access uses current addresses, statics wait for initialisation, finals are written only by their class, the return value and the pending exception agree, and a non-null reference is stored only once the field's type is resolved |
| `field_kinds` (MC_FieldKindsBuilds.cfg) | `GetterReturnsStoredValueOnEachIsa` | on arm64 and on riscv64, every getter hands compiled code the Java value last stored, whichever shared `artSet8`/`artSet16` stored it; each build is an `INSTANCE` of `FieldKinds` with its ISA, chosen in `Init` |
| `arm64_context` (MC_Arm64Context.cfg) | `TypeOK`, `ImplementsRegisterContext` | the pointer-based context is the value register file through any sequence of its operations over two frames |
| `method_header_arm` (MC_MethodHeaderArm.cfg) | `ReturnPcMapsToItsMethod`, `HeaderFromEntryPoint`, `DeoptFlagReadExactlyWhenPresent`, `DeoptFlagInsideFrame` | return pcs map to their own method and offset, the last instruction and the Thumb bit included, next to both Nterp headers; the header is found from the entry point; the deoptimize flag is read exactly for frames that have one, and lies inside the frame |
| `method_header_arm64` (MC_MethodHeaderArm64.cfg) | `ReturnPcMapsToItsMethod` | the same pc lookup with arm64's instruction size and no Thumb bit; the ISA-independent header properties are checked once, on arm |
| `dominators` (MC_Dominators.cfg) | `IdomMatchesPathDefinition`, `FixpointWithinBlockPasses` | on every skeleton of four blocks, the iterative fixpoint keeps exactly the reachable blocks, finds the path-definition idoms, and ends within one pass per block |
| `ssa_phis` (MC_SsaPhis.cfg) | `EliminationKeepsSources`, `ConflictExactlyOnMixedLivePhi` | phi elimination in any order keeps what every live value stands for, and a type conflict is reported exactly when a live phi merges a reference and a primitive, also through other phis |
| `block_partitioner` (MC_BlockPartitioner.cfg) | `BlocksFollowControlFlow`, `ExceptionEdgesExact` | on the methods it accepts, the blocks are the quotient of the instruction control flow and exception edges cover exactly the throwing instructions of the try region |
| `pipeline_entry_predecessor` (MC_GraphPipeline.cfg, expected violation) | `NoStructuralFailureAfterPartitioning` | a finding: see below |
| `membarrier` (MC_Membarrier.cfg) | `SyscallExactlyWhenUsable` | the system call is issued exactly on devices where the kernel has it and seccomp allows it |

**Finding (spec gap).** `pipeline_entry_predecessor` finds a method that
passes partitioning and still ends in the dominator analyzer's structural
failure, which spec.md §7 says "should never occur for any input that passed
block partitioning". TLC's trace is a single `throw` at offset 0 inside a try
whose handler is offset 0; `goto 0` does the same. §4.1 makes offset 0 the
first block start and puts no block before it. A branch or exception edge
back to offset 0 therefore gives the entry block a predecessor, which §3
forbids and §4.2 reports as a structural failure. The partitioner must add a
separate entry block before offset 0, and the spec never says so.

**Bounds, and why they are enough:**

- **`graph_builder`.**
  - Code sizes of threshold−1, threshold and threshold+1 cover both sides of
    the boundary.
  - Two filters and both code-generator cases cover every skip condition.
  - One dominator failure and two SSA failures make a swapped or swallowed
    failure visible.
  - Shorties of up to three arguments over {I, J, F, D, L, Z}, static and
    not, cover every mix of wide and narrow arguments with and without a
    receiver.
- **`class_table`.**
  - The classes are a temporary class, its replacement, an ordinary class and
    an image class, spread over two loaders.
  - Up to three sets allow a freeze and an image load in either order.
  - Two dex caches (one whose oat file has .bss roots, one whose oat file
    has none) and a plain object exercise every branch of
    `InsertStrongRoot`.
- **`field_entrypoints`.**
  - The fields are a final static int, a private instance int and an
    instance reference field. This gives each kind of entrypoint, one access
    failure and one final-field case.
  - There are two referrers: one of the fields' class and one of another
    class.
  - One object can move between two addresses, which is enough for a
    pointer to go stale. The null receiver covers the NPE path.
  - Every call is made in every class status, with and without dex-cache
    hits.
- **`arm64_context`.**
  - Registers x0, x1, x19, x20, SP, kPC, d0, d8 and d9 give one register of
    each kind (caller-saved, callee-saved, own cell, gZero).
  - Frame 1 saves two core registers and one FP register. Frame 2, further
    out, saves one core register and two FP registers, and its spill area
    fills it exactly. An off-by-one there leaves the frame.
- **`method_header_*`.**
  - There are three methods of 1–3 instructions. The frames have 0–2 core
    and 0–2 FP spills and 0, 4 or 8 bytes of locals.
  - This puts a method end next to the following header, and puts spills of
    both kinds in the same frame.
- **`field_kinds`** (both builds in one run).
  - Each Java type stores its extremes and a value with the sign bit of a
    narrower type set (byte −128, −1, 127; char 32768, 65535; short −32768,
    −1, 300; int minimum, −1, maximum; long ±1). Every setter of each type is
    tried, and arm64 registers carry either of two garbage upper halves.
- **`dominators`.**
  - All 2^12 skeletons of four blocks without an edge into the entry, each
    also with the edge 1 → 0. This includes diamonds, nested and self loops
    and the smallest irreducible loops, which need three passes.
- **`ssa_phis`.**
  - Every input graph of three two-input phis over two primitive definitions
    and one reference definition, with any value used. This includes
    self-inputs, phi cycles, redundant phis that make others redundant, dead
    phis with conflicts, and conflicts reached only through another phi. The
    phis are symmetric (`Permutations`), which is sound because no property
    and no action names a particular phi.
- **`block_partitioner`.**
  - Every method of one to three instructions with branch targets in 0..6,
    and every try entry in 0..6 with start < end, or none. The code ends at
    offsets 1 to 6, so targets fall past the end, at the end and inside a
    two-unit instruction. This also gives two branches to one block, a
    branch to its own block, and a try ending exactly at the end of the code.
- **`pipeline_entry_predecessor`.**
  - Methods of up to two instructions with targets in 0..4 are enough for a
    loop back to offset 0.
- **`membarrier`.**
  - Both Linux and non-Linux builds.
  - Releases 3.x, 4.x and 5.x with minors 0, 13, 14 and 19 bracket the
    4.14 threshold and include 5.0.
  - API levels are 28 and 29 (Q). All uname and sscanf outcomes are tried.
  - Two calls show the static being reused.

**Fairness.** `GraphBuilder` assumes weak fairness of its next-state
relation. A compilation runs synchronously on one worker thread with no
suspension points (spec.md §5), so the abstract specification's termination
is checked as part of the refinement. `ClassTable` has no liveness property.
Its operations are requests that callers may or may not make.
`FieldEntrypoints` checks safety only: whether a call returns depends on how
`FindFieldFromCode` (not under src/) waits for another thread's `<clinit>`,
which the model takes from spec.md, so it is not a property of this code.
`Arm64Context`, `MethodHeader`, `FieldKinds` and `Dominators`
check safety only. The dominator fixpoint's termination is stated as a bound
on the passes, `FixpointWithinBlockPasses`: the analysis is deterministic
once the skeleton is chosen, so a bounded pass count is the same as ending.

Each property has a mutant in `PROJECT.json`: a plausible bug in a mapped
definition, which TLC must catch. For example:

- the skip check moved after the dominator tree;
- the image set appended after the unfrozen set;
- the zygote-count loop running one set too far;
- `ClearStrongRoots` forgetting `strong_roots_`;
- `FindInstanceField` holding `obj` without a `HandleWrapper`;
- `FindFieldFast` without its visibly-initialised or `CanBeChangedBy` test;
- `FillCalleeSaves` restarting the spill count for FP registers;
- `Contains` excluding the end of the code;
- the version gate comparing the minor number on its own;
- the Obj setters never resolving the field's type before storing;
- `Get32` returning `size_t` on riscv64 too;
- `artSet16` forwarding to the Boolean setters;
- the new idom taken from the first processed predecessor only;
- the fixpoint loop not clearing its changed flag;
- `UpdateClass` erasing the temporary class's slot without writing the new
  class into it;
- a redundant phi replaced in the use but not in other phis' inputs;
- a phi's kind taken from its definition inputs only, not through phis;
- no block start after a branch, or at the try region's bounds.

## 5. Not modelled, and why

- The block builder, the dominator analyzer and the SSA builder are not
  under src/. They are modelled from spec.md (`BlockPartitioner`,
  `Dominators`, `SsaPhis`), within the limits each section of §3 names.
  The instruction materializer is not modelled. Its part that matters here,
  the per-block vreg arrays and the phis they create, is described by the
  spec only in words, and a model would be invented rather than translated.
  So `instructionsValid` and `ssaResult` stay inputs of `GraphPipeline`.
  The association of each block with its try region is left out of
  `Dominators`.
- What `Lookup`'s caller does with a retired temporary class it still holds
  belongs to the class linker, which is not under src/. The table's part is
  modelled: the caller's pointer is kept in `held`, and
  `HeldClassHasReplacement` checks that a replacement is always there.
- The read-barrier entrypoints at the end of `quick_field_entrypoints.cc`
  only forward to the GC.
- The MTE untagging and HWASan notification in `CopyContextTo` only inform
  sanitizers.
- `CodeInfo` decoding and the `IsStub` DCHECKs of the method header are not
  under src/.
- The syscall in `membarrier`, the unwinding in `native_stack_dump.h`, the
  assembly in `ExecuteSwitchImplAsm` and `StringBuilderAppend::AppendF` are
  I/O, or code outside src/.
- `odr_artifacts.h` derives file names by string replacement
  (`ReplaceFileExtension`, not under src/) in a constructor, with no state
  that changes afterwards, so there is nothing for a model checker to explore.
- `interpreter_switch_impl.h` only declares the switch interpreter's context
  and forwards to assembly; `native_stack_dump.h` only declares functions.
- The tests are read for what they expect, not modelled.
