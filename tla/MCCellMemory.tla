---------------------------- MODULE MCCellMemory ----------------------------
(* Constants of CellMemory for TLC: a 16-byte address space with a guard  *)
(* of 2 (0x40 scaled down); cells of 2, 3 and 1 bytes, the last used by  *)
(* the rewrite only; the target writes the middle of cell 2 and all of   *)
(* cell 1, the rewrite the prefix and the suffix of cell 2, and both read *)
(* whole cells and slices.                                                *)
EXTENDS CellMemory, TLC

MCCellSizes == (1 :> 2) @@ (2 :> 3) @@ (3 :> 1)

Acc(other, cell, off, size, write) ==
  [other |-> other, cell |-> cell, off |-> off, size |-> size, write |-> write]

MCLines ==
  << Acc(FALSE, 2, 1, 1, TRUE),
     Acc(FALSE, 2, 0, 2, FALSE),
     Acc(FALSE, 1, 0, 2, TRUE),
     Acc(FALSE, 1, 1, 1, FALSE),
     Acc(TRUE,  2, 0, 1, TRUE),
     Acc(TRUE,  2, 2, 1, TRUE),
     Acc(TRUE,  2, 0, 3, FALSE),
     Acc(TRUE,  3, 0, 1, FALSE) >>
=============================================================================
