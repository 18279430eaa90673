------------------------------ MODULE ArmCells ------------------------------
(***************************************************************************)
(* The alias-analysis half of ARM (src/src/symstate/memory/arm.cc):        *)
(* ArmMemory::generate_constraints up to the choice between the            *)
(* no-overlap path and the conservative simulation: the sanity check,      *)
(* offset discovery with a sample address map (offsets_data) or without    *)
(* (offsets_nodata), cell enumeration by flood fill, and                   *)
(* check_nonoverlapping.                                                   *)
(*                                                                         *)
(* An access's symbolic address is a base register plus a displacement.    *)
(* The assumption is the set of its models (register valuations), so a     *)
(* solver query "assume => P" is valid iff P holds in every model.  A      *)
(* query at a site in FallibleSites may end in a solver error (timeout,    *)
(* exception); is_sat then returns a value the model does not constrain.   *)
(* Addresses wrap modulo AddrMod (2^64 in the code).                       *)
(***************************************************************************)
EXTENDS Integers, Sequences, FiniteSets

CONSTANTS
  N,              \* all_accesses_.size()
  Regs,           \* the registers addresses are based on
  AddrMod,        \* 2^64 in the code
  MaxDisp,        \* bound on an address displacement
  Sizes,          \* access sizes in bytes (access.size/8)
  Assumptions,    \* the assumptions, each given as its set of models
  SampleEnvs,     \* register valuations a testcase may have
  FallibleSites,  \* subset of {"sanity", "nodata", "data", "nonoverlap"}
  NoRel           \* no entry in access_offsets_[i][j]

ASSUME AddrMod % 2 = 0

Idx   == 1..N
Addrs == 0..(AddrMod - 1)
Env   == [Regs -> Addrs]

VARIABLES
  base, disp, size,   \* the accesses: address = env[base] + disp
  assume,             \* the models of initial_constraints
  sample,             \* deref_maps: <<>> or the one testcase's registers
  mapped,             \* accesses the deref map has an address for
  pc,                 \* where generate_constraints is
  pi, pj,             \* loop indices of the offset discovery
  offsets,            \* access_offsets_
  uf,                 \* offsets_data's UnionFind, as its set of classes
  cellOf, off,        \* access.cell (0: none) and access.cell_offset
  cell,               \* cells_[c]: anchor access, address shift, size
  ncells              \* cells_.size()

vars == <<base, disp, size, assume, sample, mapped, pc, pi, pj, offsets, uf,
          cellOf, off, cell, ncells>>

SetMin(S) == CHOOSE x \in S : \A y \in S : x <= y

Addr(i, e) == (e[base[i]] + disp[i]) % AddrMod

\* Seeded faults: each property of MCArmCells.cfg fails when one of these
\* stands in for the definition after it.
ToSignedMissing(x) == x
MinOffsetUnchanged(o, cur) == cur
RangesDisjointInclusive(lo1, hi1, lo2, hi2) == lo1 >= hi2 \/ hi1 <= lo2

\* An unsigned 64-bit difference read back as the int64 access_offsets_ holds.
ToSigned(x) == IF x >= AddrMod \div 2 THEN x - AddrMod ELSE x

\* The solver: assume => P, i.e. "assume /\ ~P" is unsatisfiable.
Valid(P(_)) == \A e \in assume : P(e)

\* Results of "!solver_.is_sat(q)": an error leaves is_sat's value open.
ErrorAsProof(site, v) == IF site \in FallibleSites THEN BOOLEAN ELSE {v}

\* Results of "!solver_.is_sat(q) && !solver_.has_error()".
ErrorAsFailure(site, v) == IF site \in FallibleSites THEN {v, FALSE} ELSE {v}

\* cell.tmp_min_offset after an access at offset o joins the cell.
MinOffset(o, cur) == IF o < cur THEN o ELSE cur

\* access_offsets_[i][j] = dij; access_offsets_[j][i] = dji.
Relate(o, i, j, dij, dji) == [o EXCEPT ![i][j] = dij, ![j][i] = dji]

(***************************************************************************)
(* generate_constraints_enumerate_cells, (b): recurse_cell_assignment(ai)  *)
(* from loop index i on.  st holds the accesses' cell and cell_offset and  *)
(* the cells' anchor, tmp_min_offset and tmp_max_offset.                   *)
(***************************************************************************)
RECURSIVE RecurseCell(_, _, _)
RecurseCell(st, ai, i) ==
  IF i > N THEN st
  ELSE IF st.cell[i] # 0 \/ offsets[ai][i] = NoRel THEN RecurseCell(st, ai, i + 1)
  ELSE LET c   == st.cell[ai]
           o   == st.off[ai] + offsets[ai][i]
           st1 == [st EXCEPT !.cell[i] = c, !.off[i] = o,
                             !.lo[c] = MinOffset(o, @),
                             !.hi[c] = IF o + size[i] > @ THEN o + size[i] ELSE @]
       IN RecurseCell(RecurseCell(st1, i, 1), ai, i + 1)

\* (b): every access no cell has reached yet starts a new cell.
RECURSIVE EnumerateFrom(_, _)
EnumerateFrom(st, i) ==
  IF i > N THEN st
  ELSE IF st.cell[i] # 0 THEN EnumerateFrom(st, i + 1)
  ELSE LET c   == st.n + 1
           st1 == [st EXCEPT !.n = c, !.cell[i] = c, !.off[i] = 0,
                             !.anchor[c] = i, !.lo[c] = 0, !.hi[c] = size[i]]
       IN EnumerateFrom(RecurseCell(st1, i, 1), i + 1)

\* cells_[c].address: the anchor access's address moved by tmp_min_offset.
CellAddr(c, e) == (Addr(cell[c].anchor, e) + cell[c].shift) % AddrMod

\* The byte offsets of cell c some access touches.
TouchedOffsets(c) == UNION {{off[i] + b : b \in 0..(size[i] - 1)} : i \in {j \in Idx : cellOf[j] = c}}

\* check_nonoverlapping's runs: the maximal ranges of consecutive touched
\* offsets of a cell, as <<low, high>> with high inclusive.
Runs(c) ==
  LET T == TouchedOffsets(c) IN
  {<<lo, SetMin({h \in T : h >= lo /\ h + 1 \notin T})>> : lo \in {x \in T : x - 1 \notin T}}

\* (range_i.first > range_j.second) | (range_i.second < range_j.first),
\* an unsigned comparison of 64-bit addresses.
RangesDisjoint(lo1, hi1, lo2, hi2) == lo1 > hi2 \/ hi1 < lo2

RunsDisjoint(ci, ri, cj, rj) ==
  Valid(LAMBDA e : RangesDisjoint((CellAddr(ci, e) + ri[1]) % AddrMod,
                                  (CellAddr(ci, e) + ri[2]) % AddrMod,
                                  (CellAddr(cj, e) + rj[1]) % AddrMod,
                                  (CellAddr(cj, e) + rj[2]) % AddrMod))

Init ==
  /\ base \in [Idx -> Regs]
  /\ disp \in [Idx -> 0..MaxDisp]
  /\ size \in [Idx -> Sizes]
  /\ assume \in Assumptions
  /\ sample \in {<<>>} \cup {<<e>> : e \in SampleEnvs}
  /\ mapped \in IF sample = <<>> THEN {Idx} ELSE SUBSET Idx
  /\ pc = "sanity"
  /\ pi = 1
  /\ pj = 1
  /\ offsets = [i \in Idx |-> [j \in Idx |-> NoRel]]
  /\ uf = {}
  /\ cellOf = [i \in Idx |-> 0]
  /\ off = [i \in Idx |-> 0]
  /\ cell = [c \in Idx |-> [anchor |-> 1, shift |-> 0, size |-> 0]]
  /\ ncells = 0

(***************************************************************************)
(* arm.cc 58-62 and 102-106: if the assumption is unsatisfiable, ARM       *)
(* returns false ("trivially proved"); else offset discovery begins, with  *)
(* the sample map if there is one.  is_sat's error is not consulted.       *)
(***************************************************************************)
Sanity ==
  /\ pc = "sanity"
  /\ \E sane \in IF "sanity" \in FallibleSites THEN BOOLEAN ELSE {assume # {}} :
       pc' = CASE ~sane          -> "trivial"
               [] sample # <<>>  -> "data"
               [] N > 1          -> "nodata"
               [] OTHER          -> "enumerate"
  /\ pi' = IF sample # <<>> THEN 1 ELSE 2
  /\ pj' = 1
  /\ UNCHANGED <<base, disp, size, assume, sample, mapped, offsets, uf, cellOf, off, cell, ncells>>

(***************************************************************************)
(* arm.cc 195-242: the pair (pi, pj), pj < pi.  Up to three queries: the   *)
(* same address, pi right before pj, pj right before pi; the first that    *)
(* "!is_sat" accepts sets the offsets.                                     *)
(***************************************************************************)
NoDataPair ==
  /\ pc = "nodata"
  /\ \E same \in ErrorAsProof("nodata", Valid(LAMBDA e : Addr(pi, e) = Addr(pj, e))),
        a1first \in ErrorAsProof("nodata",
                      Valid(LAMBDA e : (Addr(pi, e) + size[pi]) % AddrMod = Addr(pj, e))),
        a2first \in ErrorAsProof("nodata",
                      Valid(LAMBDA e : (Addr(pj, e) + size[pj]) % AddrMod = Addr(pi, e))) :
       offsets' = CASE same    -> Relate(offsets, pi, pj, 0, 0)
                    [] a1first -> Relate(offsets, pi, pj, size[pi], -size[pi])
                    [] a2first -> Relate(offsets, pi, pj, -size[pj], size[pj])
                    [] OTHER   -> offsets
  /\ IF pj + 1 < pi
     THEN /\ pj' = pj + 1
          /\ UNCHANGED <<pi, pc>>
     ELSE /\ pi' = pi + 1
          /\ pj' = 1
          /\ pc' = IF pi = N THEN "enumerate" ELSE "nodata"
  /\ UNCHANGED <<base, disp, size, assume, sample, mapped, uf, cellOf, off, cell, ncells>>

(***************************************************************************)
(* arm.cc 121-190: access pi against the union-find classes of the earlier *)
(* mapped accesses.  The sample's address difference to a class's          *)
(* representative is conjectured and then proved; the first proved class  *)
(* (in the union-find's order) is joined, and no other is tried.           *)
(***************************************************************************)
Diff(i, j) == ToSigned((Addr(j, sample[1]) - Addr(i, sample[1])) % AddrMod)

DataAccess ==
  LET i == pi
      Proved(C) == Valid(LAMBDA e : (Addr(i, e) + Diff(i, SetMin(C))) % AddrMod
                                      = Addr(SetMin(C), e))
      cands == {C \in uf : SetMin(C) \in mapped}
  IN
  /\ pc = "data"
  /\ IF i \notin mapped
     THEN UNCHANGED <<offsets, uf>>
     ELSE \/ /\ \A C \in cands : FALSE \in ErrorAsFailure("data", Proved(C))
             /\ uf' = uf \cup {{i}}
             /\ UNCHANGED offsets
          \/ \E C \in cands :
               /\ TRUE \in ErrorAsFailure("data", Proved(C))
               /\ offsets' = Relate(offsets, i, SetMin(C), Diff(i, SetMin(C)),
                                    -Diff(i, SetMin(C)))
               /\ uf' = (uf \ {C}) \cup {C \cup {i}}
  /\ pi' = i + 1
  /\ pc' = IF i = N THEN "enumerate" ELSE "data"
  /\ UNCHANGED <<base, disp, size, assume, sample, mapped, pj, cellOf, off, cell, ncells>>

(***************************************************************************)
(* generate_constraints_enumerate_cells (arm.cc 257-318): the flood fill,  *)
(* then each cell's size is tmp_max - tmp_min, its address moves by        *)
(* tmp_min and its accesses' offsets are rebased.                          *)
(***************************************************************************)
EnumerateCells ==
  LET st0 == [cell |-> [i \in Idx |-> 0], off |-> [i \in Idx |-> 0], n |-> 0,
              anchor |-> [c \in Idx |-> 1], lo |-> [c \in Idx |-> 0], hi |-> [c \in Idx |-> 0]]
      st  == EnumerateFrom(st0, 1)
  IN
  /\ pc = "enumerate"
  /\ cellOf' = st.cell
  /\ off' = [i \in Idx |-> st.off[i] - st.lo[st.cell[i]]]
  /\ cell' = [c \in Idx |-> [anchor |-> st.anchor[c], shift |-> st.lo[c],
                             size |-> st.hi[c] - st.lo[c]]]
  /\ ncells' = st.n
  /\ pc' = "check"
  /\ UNCHANGED <<base, disp, size, assume, sample, mapped, pi, pj, offsets, uf>>

(***************************************************************************)
(* arm.cc 471 with check_nonoverlapping (320-396): one cell, or every pair *)
(* of runs of two different cells proved disjoint, selects the no-overlap  *)
(* path; any failed or erroring query selects the simulation.              *)
(***************************************************************************)
CheckNonOverlapping ==
  LET allDisjoint ==
        \A ci, cj \in 1..ncells : ci > cj =>
          \A ri \in Runs(ci), rj \in Runs(cj) : RunsDisjoint(ci, ri, cj, rj)
  IN
  /\ pc = "check"
  /\ IF ncells = 1
     THEN pc' = "fast"
     ELSE \E passes \in ErrorAsFailure("nonoverlap", allDisjoint) :
            pc' = IF passes THEN "fast" ELSE "sim"
  /\ UNCHANGED <<base, disp, size, assume, sample, mapped, pi, pj, offsets, uf,
                 cellOf, off, cell, ncells>>

Next ==
  \/ Sanity \/ NoDataPair \/ DataAccess \/ EnumerateCells \/ CheckNonOverlapping

Spec == Init /\ [][Next]_vars

Enumerated == pc \in {"check", "fast", "sim"}

-----------------------------------------------------------------------------
TypeOK ==
  /\ pc \in {"sanity", "nodata", "data", "enumerate", "check", "trivial", "fast", "sim"}
  /\ offsets \in [Idx -> [Idx -> (-(AddrMod \div 2))..(AddrMod \div 2 - 1) \cup {NoRel}]]
  /\ cellOf \in [Idx -> 0..N]
  /\ off \in [Idx -> Int]
  /\ ncells \in 0..N

\* The cell accounting invariant of spec.md 8: after
\* generate_constraints_enumerate_cells every access has a cell and lies
\* inside it (0 <= offset, offset + size <= cell.size).
CellAccounting ==
  Enumerated =>
    \A i \in Idx : /\ cellOf[i] \in 1..ncells
                   /\ 0 <= off[i]
                   /\ off[i] + size[i] <= cell[cellOf[i]].size

\* The cells describe real addresses: in every model of the assumption an
\* access sits at its cell's address plus its cell_offset.  This is what
\* every offset discovery query must have proved, and what the flood fill
\* and the rebasing must preserve.
AddressesMatchCells ==
  Enumerated =>
    \A i \in Idx, e \in assume : Addr(i, e) = (CellAddr(cellOf[i], e) + off[i]) % AddrMod

\* Soundness of the partition (spec.md 8): when ARM takes the no-overlap
\* path, no model of the assumption lets bytes accessed through two
\* different cells be the same address.
NoOverlapSound ==
  pc = "fast" =>
    \A e \in assume, i, j \in Idx :
      cellOf[i] # cellOf[j] =>
        \A b1 \in 0..(size[i] - 1), b2 \in 0..(size[j] - 1) :
          (Addr(i, e) + b1) % AddrMod # (Addr(j, e) + b2) % AddrMod
=============================================================================
