# TLA+ models of the equivalence checker

This directory holds TLA+ models of the memory-aliasing and proof-obligation
machinery of the equivalence checker in `src/` (the STOKE validator of
"Semantic Program Alignment for Equivalence Checking", PLDI'19). Each model
comes with TLC configurations that check it. `PROJECT.json` lists:

- every component, and whether it is modelled;
- every run and what it shows;
- the mutants that show each checked property depends on the code it is about;
- the map from every TLA+ definition to the source lines it translates;
- the findings;
- the hazards of the code.

## The system

A validator such as `BoundedValidator` (bounded.cc) or the DDEC validator
(ddec.h, using the program alignment automaton of paa.cc) reduces
"target and rewrite are equivalent" to *proof obligations*: assume an
invariant, run path P of the target and Q of the rewrite, and prove an
invariant. Validators use the `SmtObligationChecker`
(smt_obligation_checker.cc) for every obligation. `check()` proceeds in these steps:

1. Allocate one symbolic memory model per side.
2. Turn the first memory-equality ("memequ") conjunct of the assumption into ghost writes.
3. Build the circuits of both paths with the instruction handlers.
4. Short-circuit without memory when there is no testcase.
5. Split the memequ conjunct off the proof.
6. Generate the memory constraints.
7. Ask the solver.
8. Read any model back as a counterexample and replay it in the sandbox (`check_counterexample`).

The ARM memory model (arm.cc) generates the memory constraints in step 6 in
two halves:

- **Alias analysis:** a sanity query on the assumption; discovery of fixed
  offsets between accesses, either from a sample address map taken from a
  testcase (`offsets_data`) or by three solver queries per pair
  (`offsets_nodata`); a flood fill that groups related accesses into cells
  (`enumerate_cells`, `recurse_cell_assignment`); and `check_nonoverlapping`.
- **Constraint generation:** if the cells provably never overlap, each byte
  of each cell is one variable (the memloc path). Otherwise every access is
  simulated in program order on per-cell caches over one heap per side, and
  dirty caches are flushed before each access.

## Modules

| Module | Models | Source |
|---|---|---|
| `FlatMemory` | What ARM promises (spec.md 4.3): the accesses, in `all_accesses_` order, behave as on one byte-addressed heap per side. Abstract specification. | spec.md |
| `ArmSim` | `generate_constraints_given_no_cell_overlap` and `generate_constraints_given_cells`: cell layouts, the memloc path, the dirty-cache simulation with `flush_dirty`, and the final heaps. Refines `FlatMemory`. | arm.cc 398-601 |
| `ArmCells` | `generate_constraints` up to the choice of path: sanity, `offsets_data`, `offsets_nodata`, the flood fill, `check_nonoverlapping`. | arm.cc 27-396, 604-640 |
| `ObligationChecker` | `SmtObligationChecker::check()` as a sequence of steps with every early return, ARM testcase generation, the memory models' allocation and deletion, the caller's invariant objects, and counterexample validation. | smt_obligation_checker.cc 297-311, 411-517, 518-1117 |
| `BoundedValidator` | `BoundedValidator::verify`: background checks, `paths_` and `path_to_testcase_` kept across calls, `learn_paths`, `find_pair_testcase` and the error paths of `verify_pair`. | bounded.cc 23-77, 176-358 |
| `StateGen` | `StateGen::get(cs, cfg, no_randomize)`: the attempt loop, `is_ok`, `fix` with `fix_misalignment` and the segment rebuilding, the resize helpers, and the parts of `Memory` they use. | stategen.cc 40-405, memory.h 32-122 |
| `Paa` | `ProgramAlignmentAutomata` (paa.cc): `add_edge`, `simplify`, `simplify_edges`, `remove_prefixes`, `get_edge_reachable_states`, `get_cfg_fringe`, `compute_failure_edges`, `learn_state_data`, `test_paa`, `in_scc`, `one_program_cycle`; and the traces of `DataCollector` (data_collector.cc). | paa.cc 32-131, 135-310, 465-653, 704-882; data_collector.cc 29-49, 126-187 |
| `CellMemory` | `CellMemory` (cell.cc): `write`, `read`, `equalize_cells` and `aliasing_formula`, for the accesses the map constrains to a cell. Refines `FlatMemory`. | cell.cc 23-179 |
| `PathCondition` | `build_circuit` and `is_jump` as `verify_pair` calls them: the path constraints of one side's path. | bounded.cc 55-90, 94-175, 243-244 |
| `MCArmSim`, `MCArmCells`, `MCObligationChecker`, `MCBoundedValidator`, `MCStateGen`, `MCPaa`, `MCCellMemory`, `MCPathCondition` | Constants for TLC. | |

### ArmSim

- **State:**
  - `acc`: the accesses, with side, cell, offset in cell, size in bytes and write flag;
  - `cellAddr`: concrete cell addresses;
  - `heap`: one heap per side;
  - `cache` and `dirty`: `cell.cache`/`other_cache` and `cell.dirty`/`other_dirty`;
  - `mode`: start, fast (memloc), sim, done;
  - `next`: the access the loop is at;
  - `readVal`: the bytes the last read returned.
- **Data:** a written byte is the pair <<access, byte index>> and an initial byte is <<0, address>>. Every write is therefore distinguishable, which is all a read check needs.
- **Actions:** the two choices at arm.cc 471, one access and the finish of each path.
- **Init:** enumerates every layout `enumerate_cells` can produce for
  NumAccesses accesses: target accesses first, cells numbered in order of
  first use, and each cell with an access at offset 0.
- **Refinement:** `View(s)` is what side s's memory holds now:
  - in the simulation, the heap with the dirty caches flushed;
  - in the memloc path, the heap overlaid with the memloc bytes.

  `FlatRefinement` checks `FlatMemory!Spec` under this mapping. It says every read returns exactly the latest write of its side to those bytes.

### ArmCells

- **Addresses:** an access's symbolic address is a base register plus a
  displacement, modulo AddrMod (2^64 in the code).
- **Solver:** the assumption is given as its set of models (register
  valuations), so a query is valid iff it holds in every model.
- **Solver errors:** at a site in `FallibleSites` a query may end in a
  solver error, and the result is then what the code makes of it:
  - `!is_sat` read alone turns an error into a proof (`ErrorAsProof`);
  - `!is_sat && !has_error` turns it into a failure (`ErrorAsFailure`).
- **Sample map:** `deref_maps` holds at most one map (smt_obligation_checker.cc 770-774 breaks after the first), so there is one sample.
- **Union-find:** the union-find classes are sets. The representative is the smallest member; unionfind.h is not in the repository.
- **Actions:** one action per pair of `offsets_nodata`, one per access of `offsets_data`.
- **Operators:** the flood fill is the recursive operator `RecurseCell` (arm.cc 604-640), run to completion inside `EnumerateCells`.

### ObligationChecker

- **Formulas:** abstracted to the kinds of model the final query has:
  - "reg": a real counterexample in registers;
  - "mem": a real one in memory only, visible only with a prove memequ;
  - "weak": an execution that only the memequ assumption rules out, visible when that conjunct was lost;
  - "spurious": an artefact of the encoding.
- **Invariant objects:** the caller's objects are `ConjunctionInvariant`
  sequences with or without a memequ conjunct.
- **Fresh and shared callers:** `SharedInvariants` chooses the caller. It either
  - passes fresh copies (assume and prove are distinct objects, rebuilt per call), or
  - reuses its objects, as the per-state invariants of a PAA are reused.
- **State:** `live` counts memory models allocated and not deleted.
- **ARM testcases:** with the ARM model and no testcase from the caller,
  `ArmTestcases` is `generate_arm_testcases`. It solves `assume` as the
  object is now, without its memequ conjunct. Then two `StateGen::get`
  calls follow, either of which may fail. `cur.sample` records whether a
  dereference map results.
- **Result:** `last` is the `Result` the callback received, with whether the caller's own obligation had a counterexample.

### BoundedValidator

- **Programs:** a target/rewrite pair is a record. It holds the paths `find_paths`
  returns for each side, the path each testcase runs on each side (`Beyond`
  past the bound), the path pairs that touch memory, the path pairs whose
  live-outs can differ, and the outcome of the background checks. Paths are
  model values that all programs share, as equal block-id vectors are.
- **State:** `paths_` and `ptt` (`path_to_testcase_`) are members and are
  never cleared, so a second call sees the first call's paths and testcase
  lists. `ti`, `ri`, `ok` and `hasError` are the loop's state. `result` is
  what the last call returned.
- **Actions:** `Verify` covers the call up to the loop. `Pair` is one
  `ok &= verify_pair(...)`. `VerifyPair` gives every outcome the call can
  have:
  - no common testcase returns false silently;
  - a NULL cell model is an error;
  - a handler or solver error is caught and sets `has_error_`;
  - otherwise unsat decides.
- **`find_pair_testcase`:** the recursive `Merge`. Its read at
  `rewrite_tcs[j]` past the end yields any value (`Garbage`).

### PathCondition

`verify_pair` asks the solver for a difference among the executions that run
path P of the target and Q of the rewrite. Those executions are the ones
that satisfy the constraints `build_circuit` pushes at each conditional jump.

- **Code:** blocks 1..N, each a non-empty sequence of instructions (`jcc`,
  `jmp`, `ret`, `label`, `nop` and other). A path starts at the empty
  entry block 0 and ends at the empty exit N+1, as `learn_paths` records
  it (bounded.cc 57, 73). `build_circuit` returns at once for these two
  blocks. The Cfg's successor
  vector (cfg.h is not in the repository) holds the fall-through and then
  the target for a `jcc`, the target for a `jmp`, and the exit for a `ret`.
- **Conditions:** a condition is abstracted to its outcome. `V[k]` is the
  outcome of the jump that the k-th block of the run ends with.
- **State:** `P` is the path, `i` is the loop index, `lineNo` is `line_no`,
  and `constraints` are the constraints pushed so far.
- **Action:** `BuildCircuit` is one `build_circuit(cfg, P[i], is_jump(...))`.
  It walks the block, counts lines, returns at a `ret`, and adds the `jcc`
  constraint the jump type gives.
- **`is_jump`:** `auto second = first++` leaves `second` at `succ_begin`,
  so the single-successor case is never taken. The model keeps this. The
  last block before the exit is compared with the exit, as in the code.
- **Executions:** `Run` is the block sequence that `learn_paths` and the
  sandbox callback record for a valuation, from the entry to the exit.

### StateGen

- **Memory:** a `Memory` is a base, a vector length `n` (size plus headroom) and the
  valid bytes. `Resize` rounds the base down to `Align`, pads it by
  `Headroom` and rounds up to `Word`. It keeps the byte vector's prefix, so
  moving the base down shifts the old bytes (`BitVector` is not in the
  repository; it is assumed to resize like `std::vector`).
- **Scaled constants:** the model scales the code's constants down. `AddrMod` is 2^64, `Align` 32 and
  `Headroom` 32.
- **Code:** the code is a sequence of memory accesses (a base register, a
  displacement and a size). The sandbox faults at the first access that
  touches an unmapped byte (`FaultLine`).
- **State:**
  - `cs` is the `CpuState`: registers, stack, heap and segments;
  - `i` is the attempt counter;
  - `tried` is `tried_to_fix_misalign_`.
- **Actions:**
  - `Attempt` is one iteration of the loop in `get`, with all three ways it ends:
    - `is_ok` returns true;
    - `fix` succeeds and `i--` runs;
    - `fix` fails and `get(cs)` regenerates the state.
  - `GiveUp` is "Max attempts exceeded".
- **Missing header:** `stategen.h` is not in the repository. `is_misaligned`
  and `already_allocated` are modelled from their use.

### Paa

The program alignment automaton (PAA) is what the DDEC validator builds
proof obligations from: its states pair a target block with a rewrite block,
and an edge says "the target runs path `te` and the rewrite runs path `re`,
then both are at the destination's blocks". Each edge becomes one obligation
whose last jumps are constrained toward the destination blocks
(smt_obligation_checker.cc 680-693).

- **Abstraction:** a Cfg is an entry, an exit and a successor map. A
  testcase's run is the blocks the sandbox callback records; `MineData`
  adds the entry in front (recorded by hand in `mine_data`) and the exit at
  the end (appended even after a fault). A `CpuState` is abstracted to its
  position in the trace, which is all `learn_state_data` decides by.
- **State:** `edges` stands for `next_edges_`/`prev_edges_`; `stateData` and
  `reach` for the state data and `data_reachable_states_`; `cache` for
  `DataCollector::cache_`. `failEdges` and `tested` are what the caller was
  last told for the current edges (they reset when the edges change), and
  `dataFresh` says whether the state data was learnt on the current edges.
- **Actions:** `AddEdge` adds any candidate edge; `Simplify` is the whole
  `simplify()` recursion, eliminating the largest eliminable state of the
  `std::set` first and running `simplify_edges` after each fixpoint;
  `RemovePrefixes` removes a removable edge of the smallest state (which of
  them, by `Edge::operator<`, is left open); `FailureEdges` is
  `compute_failure_edges`; `TestPaa` is `test_paa` with either value of
  `ignore_failures`.
- **Cycle tests:** `InScc` and `OneProgramCycle` are the breadth-first
  searches of `in_scc` and `one_program_cycle`, taken a level at a time.
  No code in the repository calls them, so they are checked as operators
  against the transitive closure of the community `Graphs` module.
- **Order left open:** when an item of a worklist level matches no edge,
  `learn_state_data` returns at once; the items processed before it, in an
  order the model does not fix, have recorded their data. `Lsd` returns
  every such outcome.
- **Missing header:** `paa.h` and `cfg_paths.h` are not in the repository;
  `next_edges`, `prev_edges`, `add_edge`, `remove_edge`, `has_self_loop`,
  the start, exit and fail states and `CfgPaths::is_prefix` are modelled
  from their use.

### CellMemory

The cell memory model gives each cell one bit-vector per side. Its accesses are keyed by line number, and each one names a cell, an offset and a size.

- **One model:** as in `ArmSim`, the constraints are read in one model of
  them. The cells get concrete addresses that satisfy `aliasing_formula`.
  The temporary variable `write` introduces takes the spliced value.
  A byte is <<access, index>> or <<0, address>>.
- **Caller's assumption:** `Init` assumes `aliasing_formula`. No code in the
  repository calls it: bounded.cc asserts only `equality_constraint`. This
  is listed as a hazard.
- **Placeholders:** `equalize_cells` gives each side every cell the other
  side uses, at the same address and size. The model's cells are therefore
  the union of both sides'.
- **Actions:** `Write` is the whole `write` (address constraint, splice,
  fresh variable); `Read` is the whole `read`. Together they run down
  `Lines`, the target's accesses first, as `build_circuit` does.
- **Refinement:** `View(s)` lays side s's cells over the initial memory at
  their addresses. `CellRefinement` checks `FlatMemory!Spec` under it: every
  read returns the latest write of its side to those bytes, and the final
  memories agree.

## Runs

| Run | Expect | Shows |
|---|---|---|
| armsim | pass | With ≤2 cells, 3 accesses, sizes ≤2, offsets ≤1 and 4 addresses, both paths implement one flat heap per side. This covers every cell layout and address assignment, including cells that overlap partially. 77,568 states. |
| armsim_three_cells | violation | With 3 cells, a read returns a byte another cell overwrote (finding 1). |
| armcells | pass | For 3 accesses on 2 registers, sizes 1-2 and 16 addresses, with and without a sample, and with solver errors where the code reads `has_error`, three properties hold. Cells account for every access at its true offset from the cell's base (`AddressesMatchCells`). Cell sizes and offsets are consistent (`CellAccounting`). A successful non-overlap check means no two cells share a byte in any model (`NoOverlapSound`). 620,700 states, about 100 s. |
| armcells_wrap | violation | A run crossing 2^64 passes the unsigned disjointness check (finding 2). |
| checker | pass | For a caller that passes fresh objects, with solver errors at the short circuit and the final query and counterexample checking on, `check()` is sound (`Soundness`) and reports only real counterexamples (`CegGenuine`). |
| checker_shared | violation | With shared objects, the memequ conjunct removed from assume is missing from prove too: verified, yet memory differs (finding 3). |
| bounded | pass | Over two calls to `verify()` on one validator, `verify()` returns true only for equivalent programs (`VerifySound`). This holds with the first call's stale `paths_` and testcase lists, solver and cell-model errors, and the out-of-bounds read. |
| stategen | pass | `get()` terminates (`GetTerminates`), although a successful `fix` does not use up an attempt. 15,383 states. |
| paa | pass | Any sequence of the five operations on a loop: `simplify` keeps every pair of executions the automaton accepted (`SimplifyKeepsAccepted`), and the state data `test_paa` learns sits at the trace positions at which the automaton, following the two runs block by block, is at that state (`StateDataAligned`); `in_scc` and `one_program_cycle` answer as reachability does (`CycleTestsAgree`). 20,546 states, about 100 s. |
| paa_failure_edges | violation | `compute_failure_edges` gives no failure edge for runs that leave a loop whose self-loop edge has the same paths as the exit (finding 4). |
| cellmemory | pass | For every address assignment `aliasing_formula` allows on 16 addresses, the cells of both sides, written in whole, by prefix, by suffix and in the middle, implement one flat memory per side (`CellRefinement`). 6,480 states. |
| pathcond_jcc_next | violation | A path through a `jcc` whose target is the next block gets the constraint "not taken", so the executions that take the jump, which run the same path, are never compared (finding 5). |

`CHECK_DEADLOCK FALSE` is set in every configuration except the two of
`MCPaa` (`test_paa` can always be called again, so `Paa` never stops). Each
of the other models stops once its work is done, when one of these holds:

- the simulation has handled every access;
- the alias analysis has chosen a path;
- the caller has made its last call;
- `get()` has returned.
- `build_circuit` has run on the last block of the path.

### Bounds

- **ArmSim:** 3 accesses and 2 cells already contain every pair of a write
  and a later read through another, possibly overlapping, cell. The
  run with 3 cells shows that a third cell is what breaks the protocol.
  Cells of size 3 over 4 addresses wrap around the address space.
- **ArmCells:** 16 addresses make the wrap-around reachable, and the assumptions include
  equal registers, registers 2 apart, and ranges. The displacement bound of
  1 lets accesses be adjacent, equal or unrelated.
- **BoundedValidator:** `MCBoundedValidator` uses 2 paths, 2 testcases and 2 calls. Its programs have:
  - one or two paths per side, including a path that repeats;
  - a testcase beyond the bound;
  - testcase lists that make `find_pair_testcase` read past the end;
  - memory on every pair or none;
  - differing pairs or none.

  The second call is the fewest in which stale state can matter.
- **StateGen:** there are 16 addresses, with an 8-byte stack and 4-byte alignment. The code is two
  2-byte accesses through `rbx`, at displacements 0 and 5. Together they cover these cases:
  - a misaligned access that `fix_misalignment` rewrites;
  - an extra segment that is grown;
  - a new segment, which `fix` appends when no region can grow to the access. The heap at 4 .. 5 blocks the stack and the segment;
  - a region grown over its neighbour, where the stack grows down over the heap;
  - the fallback to a fresh random state;
  - running out of attempts with `MaxAttempts` = 2.
- **Paa:** target and rewrite share a two-block loop Cfg (entry 0, blocks
  1 and 2 with 1→{1,2} and 2→{1,3}, exit 3). The six candidate edges align
  the entries, 1 with 2, 2 back with 1, the exits, a whole iteration as a
  self-loop, and a target-only iteration (empty `re`). Together they give
  two-state cycles, one-sided cycles, states `simplify` can eliminate, and
  a self-loop `remove_prefixes` can drop. The three testcases run the loop
  once on both sides, twice in the target only, and a faulting target
  against two rewrite iterations, so that `learn_state_data` both succeeds
  and fails. Paths of 6 blocks cover every run of up to two iterations.
- **CellMemory:** 16 addresses with a guard of 2 (0x40 scaled down) leave
  room for 720 layouts of three cells, of sizes 2, 3 and 1. Cell 2 is
  written by a middle, a prefix and a suffix write and read whole and by
  slice; cell 1 is written whole. Cell 3 is used only by the rewrite, so
  the target gets its placeholder.
- **PathCondition:** five blocks, paths of up to 5 blocks. Block 1 may
  jump over block 2, block 3 loops on itself, block 4's `jcc` targets the
  next block, and block 5 has an instruction after its `ret`. This gives
  JUMP and FALL_THROUGH (NONE only at the exit), and a repeated block.
- **ObligationChecker:** 2 calls and 2 objects are the fewest in which one
  call's mutation can be seen by another, or assume and prove can be one
  object.

### Fairness

One model assumes weak fairness. `StateGen` assumes it of `Next`, the
attempt loop. The loop runs sequentially in one thread, so it is always
scheduled to continue while it can.

The other models have no liveness property, because their loops are
bounded by their input. `verify()`'s loop over path pairs, for one, runs
over range-for loops on vectors that nothing modifies, so it ends whatever
`verify_pair` returns.

## Mutants

Each property of a passing run is broken by a plausible bug in the mapped
definition it is about (see `PROJECT.json`), each defined just before the
definition it replaces:

- a cell load one byte past the end (`LoadCellPastEnd`);
- a flush test that forgets the rewrite side (`FlushHappensTargetOnly`);
- a missing signed conversion (`ToSignedMissing`);
- a minimum offset that is never updated (`MinOffsetUnchanged`);
- a solver error read as a proof (`ErrorAsProof`, `IsSatOutcomes`);
- inclusive range comparison (`RangesDisjointInclusive`);
- a double delete (`ReleaseTwice`);
- counterexample validation ignored (`HasCegUnchecked`);
- an inner loop index that runs one past the end (`NextRiPastEnd`);
- a caught solver error read as unsat (`SolvedErrorAsUnsat`);
- a misalignment fix without the `& mask` wrap (`FixMisalignmentNoWrap`);
- a failed `fix` that does not count as an attempt (`FixOutcomesUncounted`);
- a reachable state recorded for every edge rather than every matching one (`RecordAnyEdge`);
- the CpuState taken one block early (`CurrentBefore`);
- an elimination that drops the out-edge's rewrite path (`ConcatDropRewrite`);
- a cycle test that looks only at self-loops (`InSccDirect`);
- a middle write that keeps one byte too many of the old high part (`WriteMiddleShifted`);
- an aliasing formula without its upper bound (`AliasingNoUpperBound`).

## Not modelled, and why

- **Formulas, instruction handlers and invariants:** the symbolic formulas,
  the x86 instruction handlers and the invariant classes build bit-vector
  formulas. They are abstracted to the properties above.
- **Cancellation:** `stop_now_` cancellation in arm.cc is not modelled; the
  thread that sets it is not in the repository. It is listed as a hazard.
- **Remote and header-only parts:** the Postgres checker, the DDEC
  validator and the tools are remote I/O, header only, or drivers.
- **Missing code:**
  - `build_cell_model` is not in the repository. `BoundedValidator` assumes
    that the cell model it builds is sound for any testcase. As a result,
    what the out-of-bounds read in `find_pair_testcase` breaks is not checked.
  - `stategen.h` and cpputil's `BitVector` are not in the repository either.
- **StateGen parts left out:** SSE registers, flags, the data segment,
  rip-relative addresses, push/pop sizes and signals other than SIGSEGV.
- **PAA parts left out:** `learn_invariants` and the invariant learner
  (they solve for invariants over the data), with the edge data and
  `compute_topological_sort` that only they read; `get_paths`, whose
  caller (ddec.cc) is not in the repository;
  serialization and printing.
- **Retired runs:** the run budget keeps one violation run per question.
  The solver errors in ARM's sanity query (arm.cc:58) and in
  `offsets_nodata` (arm.cc:205) are still modelled (`IsSatOutcomes`,
  `ErrorAsProof`) and listed as hazards, but no configuration enables them.
  The memory models `check()` leaks on four of its returns
  (smt_obligation_checker.cc:699) are still counted by `live` and stated
  by `MemoryReleased`, which no run checks. The run that showed `fix()`
  reassigning the caller's stack and heap (stategen.cc:386) was retired
  in the same way. `Patched` in `StateGen` states it, together with the
  regions that `resize_below` grows over one another (stategen.cc:234),
  and the hazards keep the traces.
- **CellMemory parts left out:** unconstrained accesses (`write` drops the
  value, `read` returns a fresh variable) and `equality_constraint` with
  its secret cell; `cell.h`, with the constructor, is not in the repository.
- **Planned for later modules** (each listed in `PROJECT.json` as a
  component and with its hazards):
  - the static `tmp_counter_`.
