------------------------------ MODULE MCStateGen ------------------------------
(* Constants of StateGen for TLC: a 16-byte address space with the sizes  *)
(* of memory.h scaled by 8 (Align 4, Headroom 4, Word 2), two accesses on *)
(* rbx, and inputs with and without an extra segment, and with an empty   *)
(* heap or one at 4 .. 5 (so that no region may grow and fix() adds one). *)
EXTENDS StateGen

\* A region holding the model's values at base .. base + size - 1.
ModelMem(base, size) ==
  [base |-> base, n |-> RoundUp(size + Headroom, Word),
   bytes |-> [o \in 0..(size - 1) |-> base + o]]

MCCode == << [base |-> "rbx", disp |-> 0, size |-> 2],
             [base |-> "rbx", disp |-> 5, size |-> 2] >>

MCInputs ==
  {[regs  |-> [rbx |-> v, rsp |-> 12],
    stack |-> ModelMem(8, 4),
    heap  |-> heap,
    segs  |-> segs] : v \in 0..15, segs \in {<<>>, <<ModelMem(0, 2)>>},
      heap \in {Resize(EmptyMem, HeapBase, 0), ModelMem(4, 2)}}
=============================================================================
