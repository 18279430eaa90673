----------------------------- MODULE CellMemory -----------------------------
(***************************************************************************)
(* CellMemory (src/src/symstate/memory/cell.cc): memory pre-partitioned    *)
(* into cells, one symbolic bit-vector per cell, keyed by the line of the  *)
(* access.  A write splices its value into the cell (prefix, suffix or    *)
(* middle) and a read extracts a slice; every access also constrains its  *)
(* address to the cell's address plus the access's offset.                *)
(*                                                                         *)
(* As in ArmSim, the constraints are evaluated in one model: cells get     *)
(* concrete addresses that satisfy aliasing_formula (the caller asserts    *)
(* it), a byte is the write or the initial memory location it came from,  *)
(* and the temporary variable write() introduces takes the spliced value. *)
(* A cell's bytes are a sequence, byte 0 first; "hi || lo" is lo \o hi.   *)
(*                                                                         *)
(* cell.h, which holds the constructor and the map_ of accesses, is not   *)
(* in the repository; the cells of each side are those its accesses name. *)
(***************************************************************************)
EXTENDS Naturals, Sequences

CONSTANTS
  AddrMod,     \* 2^64 in the code
  Guard,       \* 0x40 in the code: aliasing_formula keeps cells in
               \* [Guard, AddrMod - size - (Guard - 1)]
  CellSizes,   \* cell_sizes_: cell id (a number) |-> size in bytes
  Lines        \* map_ in line order: [other, cell, off, size, write]; the
               \* target's accesses, then the rewrite's (build_circuit order)

Sides   == {"target", "rewrite"}
Addrs   == 0..(AddrMod - 1)
Indices == 1..Len(Lines)

Side(a) == IF a.other THEN "rewrite" ELSE "target"

\* The cells the constructor gives side s.
SideCells(s) == {Lines[k].cell : k \in {j \in Indices : Side(Lines[j]) = s}}

\* equalize_cells (91-131): each side gets a placeholder for every cell only
\* the other side has, with the other's size and address.
Equalized == SideCells("target") \cup SideCells("rewrite")

Addr(A, c, o) == (A[c] + o) % AddrMod

AliasingNoUpperBound(A) ==
  /\ \A c \in Equalized : A[c] >= Guard
  /\ \A c, d \in Equalized :
       c < d => \/ (A[c] + CellSizes[c]) % AddrMod <= A[d]
                \/ (A[d] + CellSizes[d]) % AddrMod <= A[c]

\* aliasing_formula (133-179) in one model: every cell below the top margin
\* and above Guard, and no two cells overlapping, with 64-bit additions.
AliasingFormula(A) ==
  /\ \A c \in Equalized : A[c] <= AddrMod - CellSizes[c] - (Guard - 1)
  /\ \A c \in Equalized : A[c] >= Guard
  /\ \A c, d \in Equalized :
       c < d => \/ (A[c] + CellSizes[c]) % AddrMod <= A[d]
                \/ (A[d] + CellSizes[d]) % AddrMod <= A[c]

InitialByte(x)    == <<0, x>>
WrittenByte(k, i) == <<k, i>>

\* The value access k writes, byte 0 first.
Value(k) == [i \in 1..Lines[k].size |-> WrittenByte(k, i - 1)]

Cat(hi, lo) == lo \o hi

WriteMiddleShifted(old, a, v) ==
  IF a.size = CellSizes[a.cell] THEN v
  ELSE IF a.off = 0 THEN Cat(SubSeq(old, a.size + 1, CellSizes[a.cell]), v)
  ELSE IF a.off = CellSizes[a.cell] - a.size THEN Cat(v, SubSeq(old, 1, a.off))
  ELSE Cat(Cat(SubSeq(old, a.size + a.off, CellSizes[a.cell]), v), SubSeq(old, 1, a.off))

\* write (23-61): the whole cell, old[high] || value, value || old[low], or
\* old[high] || value || old[low].
Splice(old, a, v) ==
  IF a.size = CellSizes[a.cell] THEN v
  ELSE IF a.off = 0 THEN Cat(SubSeq(old, a.size + 1, CellSizes[a.cell]), v)
  ELSE IF a.off = CellSizes[a.cell] - a.size THEN Cat(v, SubSeq(old, 1, a.off))
  ELSE Cat(Cat(SubSeq(old, a.size + a.off + 1, CellSizes[a.cell]), v), SubSeq(old, 1, a.off))

\* read (64-88): the whole cell, or cell[(size + off)*8 - 1 : off*8].
Extract(cell, a) ==
  IF a.size = CellSizes[a.cell] THEN cell ELSE SubSeq(cell, a.off + 1, a.off + a.size)

VARIABLES
  cellAddr,  \* cell_addrs_ in the model
  cells,     \* cells_ of each side's CellMemory
  pos,       \* the line build_circuit is at
  readVal    \* byte i of the value the last read returned

vars == <<cellAddr, cells, pos, readVal>>

Init ==
  /\ cellAddr \in {A \in [Equalized -> Addrs] : AliasingFormula(A)}
  /\ cells = [s \in Sides |-> [c \in Equalized |->
                [o \in 1..CellSizes[c] |-> InitialByte(Addr(cellAddr, c, o - 1))]]]
  /\ pos = 1
  /\ readVal = <<>>

Write ==
  LET a == Lines[pos] IN
  /\ a.write
  /\ cells' = [cells EXCEPT ![Side(a)][a.cell] = Splice(@, a, Value(pos))]
  /\ readVal' = <<>>

Read ==
  LET a == Lines[pos] IN
  /\ ~a.write
  /\ readVal' = LET v == Extract(cells[Side(a)][a.cell], a) IN [i \in 0..(a.size - 1) |-> v[i + 1]]
  /\ UNCHANGED cells

Next ==
  /\ pos <= Len(Lines)
  /\ Write \/ Read
  /\ pos' = pos + 1
  /\ UNCHANGED cellAddr

Spec == Init /\ [][Next]_vars

-----------------------------------------------------------------------------
\* Every cell keeps its width: each write's splice is exactly cell_size bytes.
TypeOK ==
  /\ pos \in 1..(Len(Lines) + 1)
  /\ \A s \in Sides, c \in Equalized : Len(cells[s][c]) = CellSizes[c]

(***************************************************************************)
(* Refinement mapping: the memory of a side is its cells laid out at their *)
(* addresses over the initial memory.                                      *)
(***************************************************************************)
CellBytes == UNION {{<<c, o>> : o \in 0..(CellSizes[c] - 1)} : c \in Equalized}

View(s) ==
  [x \in Addrs |->
     LET P == {p \in CellBytes : Addr(cellAddr, p[1], p[2]) = x}
     IN IF P = {} THEN InitialByte(x)
        ELSE LET p == CHOOSE p \in P : TRUE IN cells[s][p[1]][p[2] + 1]]

FlatAcc == [k \in Indices |-> [other |-> Lines[k].other,
                               addr  |-> Addr(cellAddr, Lines[k].cell, Lines[k].off),
                               size  |-> Lines[k].size,
                               write |-> Lines[k].write]]

Flat == INSTANCE FlatMemory WITH
          acc <- FlatAcc, mem <- [s \in Sides |-> View(s)],
          pos <- pos, lastRead <- readVal

\* In every model of aliasing_formula, the reads and the final cells of
\* both CellMemories agree with one flat byte-addressed memory per side:
\* the splices of write() and the slices of read() lose no byte, and the
\* bounds of aliasing_formula keep the 64-bit overlap test from wrapping.
CellRefinement == Flat!Spec
=============================================================================
