------------------------------- MODULE ArmSim -------------------------------
(***************************************************************************)
(* The constraint-generation half of ARM (src/src/symstate/memory/arm.cc): *)
(* given the cells found by ArmCells, replay all_accesses_ either on one    *)
(* location per (cell, byte offset) (generate_constraints_given_no_cell_    *)
(* overlap) or through the per-cell cache-coherency protocol               *)
(* (generate_constraints_given_cells).                                      *)
(*                                                                         *)
(* The symbolic heap is evaluated in one model of the assumption: cells    *)
(* get concrete base addresses, and a byte is the write (or initial heap   *)
(* location) it came from.  A read's constraint "access.value == cache     *)
(* slice" is modelled as readVal taking the value of that slice.           *)
(***************************************************************************)
EXTENDS Naturals, Sequences, FiniteSets

CONSTANTS
  NumAccesses,   \* all_accesses_.size()
  NumCells,      \* bound on cells_.size()
  AddrMod,       \* 2^64 in the code
  MaxSize,       \* bound on access.size/8
  MaxOffset      \* bound on access.cell_offset

ASSUME MaxOffset + MaxSize <= AddrMod   \* a cell never covers an address twice

Sides   == {"target", "rewrite"}
Addrs   == 0..(AddrMod - 1)
Cells   == 1..NumCells
Indices == 1..NumAccesses
NoSkip  == 0                    \* flush_dirty's default skip_index (size_t)(-1)

AccessRec == [other: BOOLEAN, cell: Cells, off: 0..MaxOffset,
              size: 1..MaxSize, write: BOOLEAN]

VARIABLES
  acc,       \* all_accesses_, with cell and cell_offset from enumerate_cells
  cellAddr,  \* cells_[c].address in the model
  heap,      \* heap_ ("target") and am->heap_ ("rewrite")
  cache,     \* cell.cache / cell.other_cache, or the memloc bytes of a cell
  dirty,     \* cell.dirty / cell.other_dirty
  mode,      \* "start", "fast", "sim" or "done"
  next,      \* the access the loop is at
  readVal    \* byte i of the value the last read is constrained to

vars == <<acc, cellAddr, heap, cache, dirty, mode, next, readVal>>

SetMax(S) == CHOOSE x \in S : \A y \in S : y <= x

Side(a) == IF a.other THEN "rewrite" ELSE "target"

UsedCells == {acc[k].cell : k \in Indices}

\* cell.size after normalisation: tmp_max_offset - tmp_min_offset.
CellSize(c) == SetMax({acc[k].off + acc[k].size : k \in {j \in Indices : acc[j].cell = c}})

Addr(c, o) == (cellAddr[c] + o) % AddrMod

OffsetOf(c, x) == CHOOSE o \in 0..(CellSize(c) - 1) : Addr(c, o) = x

Covers(c, x) == \E o \in 0..(CellSize(c) - 1) : Addr(c, o) = x

\* Seeded faults: each property of MCArmSim.cfg fails when one of these
\* stands in for the definition after it.
LoadCellPastEnd(h, c) == [o \in 0..CellSize(c) |-> h[Addr(c, o) % AddrMod]]

\* The bytes of cell c read out of heap h (cell.cache = heap[address+i] ...).
LoadCell(h, c) == [o \in 0..(CellSize(c) - 1) |-> h[Addr(c, o)]]

InitialByte(x)     == <<0, x>>
WrittenByte(k, i)  == <<k, i>>

(***************************************************************************)
(* all_accesses_ as enumerate_cells leaves it: the target's accesses, then *)
(* the rewrite's (arm.cc 64-73); cells numbered in order of the first      *)
(* access that reaches them; every cell rebased so that some access sits  *)
(* at offset 0.                                                            *)
(***************************************************************************)
WellFormed(A) ==
  /\ \A i, j \in Indices : i < j /\ A[i].other => A[j].other
  /\ A[1].cell = 1
  /\ \A k \in Indices \ {1} : A[k].cell <= 1 + SetMax({A[j].cell : j \in 1..(k - 1)})
  /\ \A c \in {A[k].cell : k \in Indices} : \E k \in Indices : A[k].cell = c /\ A[k].off = 0

\* The (cell, offset) pairs side s touches: the keys of its memloc map.
Touched(s) == UNION {{<<acc[k].cell, acc[k].off + i>> : i \in 0..(acc[k].size - 1)}
                       : k \in {j \in Indices : Side(acc[j]) = s}}

\* What a successful check_nonoverlapping establishes in this model: bytes
\* touched through different cells are different addresses.
NoCellOverlap ==
  \A p, q \in Touched("target") \cup Touched("rewrite") :
    p[1] # q[1] => Addr(p[1], p[2]) # Addr(q[1], q[2])

\* heap = heap.update(cell.address + offset, memloc[cell][offset]) over the
\* memloc map in (cell, offset) order: the last update of an address wins.
MemlocHeap(s) ==
  [x \in Addrs |->
     LET P == {p \in Touched(s) : Addr(p[1], p[2]) = x} IN
     IF P = {} THEN heap[s][x]
     ELSE LET p == CHOOSE p \in P : \A q \in P : q[1] < p[1] \/ (q[1] = p[1] /\ q[2] <= p[2])
          IN cache[s][p[1]][p[2]]]

\* flush_dirty(skip_index) for one side: every dirty cell other than skip
\* is written back in cell order; the heap it leaves.
Flushed(s, skip) ==
  [x \in Addrs |->
     LET W == {c \in UsedCells \ {skip} : dirty[s][c] /\ Covers(c, x)} IN
     IF W = {} THEN heap[s][x]
     ELSE cache[s][SetMax(W)][OffsetOf(SetMax(W), x)]]

FlushHappensTargetOnly(skip) == \E c \in UsedCells \ {skip} : dirty["target"][c]

\* flush_dirty's return value: some cell other than skip was dirty.
FlushHappens(skip) == \E s \in Sides, c \in UsedCells \ {skip} : dirty[s][c]

\* The write's prefix || value || suffix on the cell bytes.
WriteCell(bytes, a, k) ==
  [o \in DOMAIN bytes |-> IF a.off <= o /\ o < a.off + a.size
                          THEN WrittenByte(k, o - a.off) ELSE bytes[o]]

ReadCell(bytes, a) == [i \in 0..(a.size - 1) |-> bytes[a.off + i]]

Init ==
  /\ acc \in {A \in [Indices -> AccessRec] : WellFormed(A)}
  /\ cellAddr \in {f \in [Cells -> Addrs] :
                     f[1] = 0 /\ \A c \in Cells \ UsedCells : f[c] = 0}
  /\ heap = [s \in Sides |-> [x \in Addrs |-> InitialByte(x)]]
  /\ cache = [s \in Sides |-> [c \in Cells |-> <<>>]]
  /\ dirty = [s \in Sides |-> [c \in Cells |-> FALSE]]
  /\ mode = "start"
  /\ next = 1
  /\ readVal = <<>>

(***************************************************************************)
(* arm.cc 471-473 and 403-430: one cell, or proved non-overlap, selects    *)
(* the memloc path.  Its fresh bytes are bound to the start heap by        *)
(* start_variable_ == heap_.                                               *)
(***************************************************************************)
ChooseNoOverlap ==
  /\ mode = "start"
  /\ Cardinality(UsedCells) = 1 \/ NoCellOverlap
  /\ mode' = "fast"
  /\ cache' = [s \in Sides |-> [c \in Cells |->
                 IF c \in UsedCells THEN LoadCell(heap[s], c) ELSE <<>>]]
  /\ UNCHANGED <<acc, cellAddr, heap, dirty, next, readVal>>

\* arm.cc 476-485: check_nonoverlapping failed; every cell caches the heap.
ChooseSimulation ==
  /\ mode = "start"
  /\ Cardinality(UsedCells) > 1
  /\ mode' = "sim"
  /\ cache' = [s \in Sides |-> [c \in Cells |->
                 IF c \in UsedCells THEN LoadCell(heap[s], c) ELSE <<>>]]
  /\ UNCHANGED <<acc, cellAddr, heap, dirty, next, readVal>>

\* arm.cc 433-441: one access on the memloc map.
NoOverlapAccess ==
  LET a == acc[next]
      s == Side(a)
  IN
  /\ mode = "fast"
  /\ next <= NumAccesses
  /\ IF a.write
     THEN /\ cache' = [cache EXCEPT ![s][a.cell] = WriteCell(@, a, next)]
          /\ readVal' = <<>>
     ELSE /\ readVal' = ReadCell(cache[s][a.cell], a)
          /\ UNCHANGED cache
  /\ next' = next + 1
  /\ UNCHANGED <<acc, cellAddr, heap, dirty, mode>>

\* arm.cc 443-457: the final heaps.
NoOverlapFinish ==
  /\ mode = "fast"
  /\ next > NumAccesses
  /\ heap' = [s \in Sides |-> MemlocHeap(s)]
  /\ mode' = "done"
  /\ UNCHANGED <<acc, cellAddr, cache, dirty, next, readVal>>

(***************************************************************************)
(* arm.cc 526-581: one iteration of the simulation loop.  Flush the other  *)
(* cells of both sides; reload this side's cache of the cell only if a     *)
(* flush happened; then write the cache (dirty) or read it.                *)
(***************************************************************************)
SimAccess ==
  LET a   == acc[next]
      s   == Side(a)
      c   == a.cell
      h   == [t \in Sides |-> Flushed(t, c)]
      cur == IF FlushHappens(c) THEN LoadCell(h[s], c) ELSE cache[s][c]
      d   == [t \in Sides |-> [x \in Cells |-> dirty[t][x] /\ x = c]]
  IN
  /\ mode = "sim"
  /\ next <= NumAccesses
  /\ heap' = h
  /\ IF a.write
     THEN /\ cache' = [cache EXCEPT ![s][c] = WriteCell(cur, a, next)]
          /\ dirty' = [d EXCEPT ![s][c] = TRUE]
          /\ readVal' = <<>>
     ELSE /\ cache' = [cache EXCEPT ![s][c] = cur]
          /\ dirty' = d
          /\ readVal' = ReadCell(cur, a)
  /\ next' = next + 1
  /\ UNCHANGED <<acc, cellAddr, mode>>

\* arm.cc 583-592: the last flush_dirty() and the final heaps.
SimFinish ==
  /\ mode = "sim"
  /\ next > NumAccesses
  /\ heap' = [s \in Sides |-> Flushed(s, NoSkip)]
  /\ dirty' = [s \in Sides |-> [c \in Cells |-> FALSE]]
  /\ mode' = "done"
  /\ UNCHANGED <<acc, cellAddr, cache, next, readVal>>

Next ==
  \/ ChooseNoOverlap \/ ChooseSimulation
  \/ NoOverlapAccess \/ NoOverlapFinish
  \/ SimAccess \/ SimFinish

Spec == Init /\ [][Next]_vars

-----------------------------------------------------------------------------
TypeOK ==
  /\ acc \in [Indices -> AccessRec]
  /\ cellAddr \in [Cells -> Addrs]
  /\ mode \in {"start", "fast", "sim", "done"}
  /\ next \in 1..(NumAccesses + 1)
  /\ dirty \in [Sides -> [Cells -> BOOLEAN]]
  /\ \A s \in Sides : DOMAIN heap[s] = Addrs
  /\ mode # "start" =>
       \A s \in Sides, c \in UsedCells : DOMAIN cache[s][c] = 0..(CellSize(c) - 1)

(***************************************************************************)
(* Refinement mapping.  The memory the constraints describe is the heap    *)
(* overlaid with what has not been written back yet: the dirty caches in   *)
(* the simulation (exactly what a flush_dirty() would produce), the memloc *)
(* bytes on the no-overlap path.                                           *)
(***************************************************************************)
View(s) == CASE mode = "sim"  -> Flushed(s, NoSkip)
             [] mode = "fast" -> MemlocHeap(s)
             [] OTHER         -> heap[s]

FlatAcc == [k \in Indices |-> [other |-> acc[k].other,
                               addr  |-> Addr(acc[k].cell, acc[k].off),
                               size  |-> acc[k].size,
                               write |-> acc[k].write]]

Flat == INSTANCE FlatMemory WITH
          acc <- FlatAcc, mem <- [s \in Sides |-> View(s)],
          pos <- next, lastRead <- readVal

\* Every read constraint ARM emits, and the final heaps, agree with the flat
\* memory semantics: the cache protocol of generate_constraints_given_cells
\* never lets a read see a stale byte or a write-back lose a write.
FlatRefinement == Flat!Spec
=============================================================================
