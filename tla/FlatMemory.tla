----------------------------- MODULE FlatMemory -----------------------------
(***************************************************************************)
(* What ARM's constraint generation promises (spec.md 4.3): the memory     *)
(* accesses of target and rewrite, in all_accesses_ order, behave as if    *)
(* they were replayed on one flat byte-addressed heap per side.  A read    *)
(* observes, byte by byte, the latest write of its own side to that        *)
(* address, or the initial heap byte.  This is the abstract specification  *)
(* that ArmSim is shown to implement.                                      *)
(***************************************************************************)
EXTENDS Naturals, Sequences

CONSTANT AddrMod          \* 2^64 in the code; addresses wrap modulo AddrMod

Addrs == 0..(AddrMod - 1)
Sides == {"target", "rewrite"}

VARIABLES
  acc,        \* the accesses: side, byte address, size in bytes, write flag
  mem,        \* mem[side][address]: the byte stored there
  pos,        \* the next access to perform
  lastRead    \* byte i of the value the last read returned

vars == <<acc, mem, pos, lastRead>>

SideOf(a) == IF a.other THEN "rewrite" ELSE "target"

\* The byte at address x of side s before any access: a distinct value.
InitialByte(x) == <<0, x>>

\* Byte i written by access k.
WrittenByte(k, i) == <<k, i>>

ByteAddr(a, i) == (a.addr + i) % AddrMod

Init ==
  /\ acc \in Seq([other: BOOLEAN, addr: Addrs, size: Nat \ {0}, write: BOOLEAN])
  /\ mem = [s \in Sides |-> [x \in Addrs |-> InitialByte(x)]]
  /\ pos = 1
  /\ lastRead = <<>>

Write ==
  LET a == acc[pos] IN
  /\ a.write
  /\ mem' = [mem EXCEPT ![SideOf(a)] =
               [x \in Addrs |->
                  IF \E i \in 0..(a.size - 1) : ByteAddr(a, i) = x
                  THEN WrittenByte(pos, CHOOSE i \in 0..(a.size - 1) : ByteAddr(a, i) = x)
                  ELSE @[x]]]
  /\ lastRead' = <<>>

Read ==
  LET a == acc[pos] IN
  /\ ~a.write
  /\ lastRead' = [i \in 0..(a.size - 1) |-> mem[SideOf(a)][ByteAddr(a, i)]]
  /\ UNCHANGED mem

Next ==
  /\ pos <= Len(acc)
  /\ Write \/ Read
  /\ pos' = pos + 1
  /\ UNCHANGED acc

Spec == Init /\ [][Next]_vars
=============================================================================
