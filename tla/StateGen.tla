------------------------------ MODULE StateGen ------------------------------
(***************************************************************************)
(* StateGen::get(cs, cfg, no_randomize) (src/src/stategen/stategen.cc     *)
(* 84-133) as SmtObligationChecker::generate_arm_testcases calls it, with   *)
(* no_randomize true on the testcase read from the solver's model: run     *)
(* the code in the sandbox; on a segfault, fix() (304-405) grows a memory  *)
(* region of the state or adds one, or moves a misaligned base register;   *)
(* when fix() fails, get(cs) (40-77) draws a new random state; at most     *)
(* max_attempts_ attempts that fix() could not repair.                     *)
(*                                                                         *)
(* A region is a Memory (src/src/state/memory.h): an aligned base, a      *)
(* number of bytes that includes Headroom bytes past its logical size,     *)
(* and the valid bytes by offset.  A valid byte holds a tag: the address   *)
(* the solver's model gave it a value for, or Rnd for a byte from gen_().  *)
(* Addresses are modulo AddrMod (2^64), Align is 32, Word is 8.           *)
(* The code is a sequence of accesses, each a base register, a            *)
(* displacement and a size; the sandbox faults at the first access with a  *)
(* byte that no region maps.                                               *)
(***************************************************************************)
EXTENDS Naturals, Sequences, SequencesExt

CONSTANTS
  AddrMod,        \* 2^64
  Align,          \* 32: Memory::resize rounds the base down to it
  Headroom,       \* 32 bytes past the logical size
  Word,           \* 8: the byte count is rounded up to it
  LowByte,        \* 256: fix_misalignment writes the low byte of a register
  MaxMemory,      \* max_memory_
  MaxAttempts,    \* max_attempts_
  StackSize,      \* stack_size_
  HeapBase,       \* 0x100000000, where get(cs) puts an empty heap
  RspValues,      \* the values get(cs) gives rsp
  AllowUnaligned, \* allow_unaligned_
  Code,           \* the accesses of the cfg, in order
  Inputs,         \* the states the caller passes in
  Rnd, None

Addr  == 0..(AddrMod - 1)
Regs  == {"rbx", "rsp"}

(***************************************************************************)
(* Memory (memory.h 37-90).                                                *)
(***************************************************************************)
Size(m)        == m.n - Headroom
Lower(m)       == m.base
Upper(m)       == (m.base + Size(m)) % AddrMod
InRange(m, a)  == a >= Lower(m) /\ (a - m.base) % AddrMod < Size(m)
Offset(m, a)   == (a - m.base) % AddrMod
Mapped(m, a)   == InRange(m, a) /\ Offset(m, a) \in DOMAIN m.bytes
ByteAt(m, a)   == m.bytes[Offset(m, a)]

RoundUp(x, k)  == ((x + k - 1) \div k) * k

\* Memory::resize(base, size): the byte vector keeps its prefix whatever
\* the new base (resize_for_fixed_bytes and resize_for_bits).
Resize(m, base, size) ==
  LET n == RoundUp(size + (base % Align) + Headroom, Word)
  IN [base  |-> base - (base % Align),
      n     |-> n,
      bytes |-> [o \in {o \in DOMAIN m.bytes : o < n} |-> m.bytes[o]]]

\* The assertion of memory.h 48: base_ + size does not wrap past 0x20.
ResizeFits(base, size) ==
  LET b == base - (base % Align)
      e == (b + RoundUp(size + (base % Align) + Headroom, Word)) % AddrMod
  IN e > b \/ e <= Headroom

\* Memory(): resize(0, 0).
EmptyMem == [base |-> 0, n |-> RoundUp(Headroom, Word), bytes |-> <<>>]

\* randomize_mem (250-258): every invalid byte below size() becomes valid.
RandomizeMem(m) ==
  [m EXCEPT !.bytes = [o \in DOMAIN m.bytes \cup 0..(Size(m) - 1) |->
                         IF o \in DOMAIN m.bytes THEN m.bytes[o] ELSE Rnd]]

(***************************************************************************)
(* The resize helpers (206-274) give the set of their results: Ok(m) with *)
(* the new region m, No when the helper returns false, or Abort when an   *)
(* assert fails.  Every result set here is a singleton; writing them as   *)
(* sets binds each result once where it is used.                          *)
(***************************************************************************)
No    == [r |-> "no"]
Abort == [r |-> "abort"]
Ok(m) == [r |-> "ok", m |-> m]

ResizeTo(m, base, size) ==
  IF ResizeFits(base, size) THEN {Ok(RandomizeMem(Resize(m, base, size)))} ELSE {Abort}

ResizeWithin(m, a, s) ==
  IF ~((a + s - Size(m)) % AddrMod > Lower(m)) THEN {Abort}
  ELSE LET delta == (a + s - Upper(m)) % AddrMod IN
       IF Size(m) + delta > MaxMemory THEN {No}
       ELSE ResizeTo(m, Lower(m), Size(m) + delta)

ResizeBelow(m, a, s) ==
  LET ns == IF (a + s - Size(m)) % AddrMod > Lower(m) THEN s
            ELSE (Upper(m) - a) % AddrMod
  IN IF ns > MaxMemory THEN {No} ELSE ResizeTo(m, a, ns)

ResizeAbove(m, a, s) ==
  LET delta == (a + s - Lower(m) - Size(m)) % AddrMod
  IN IF Size(m) + delta > MaxMemory THEN {No}
     ELSE ResizeTo(m, Lower(m), Size(m) + delta)

\* "x || y" over results: y only when x returned false.
OrElse(X, Y) == UNION {IF x = No THEN Y ELSE {x} : x \in X}

\* resize_mem (260-274).
ResizeMem(m, a, s) ==
  IF Size(m) = 0 THEN ResizeTo(m, a, s)
  ELSE OrElse(IF InRange(m, a) THEN ResizeWithin(m, a, s) ELSE {No},
       OrElse(IF a < Lower(m) THEN ResizeBelow(m, a, s) ELSE {No},
              IF Upper(m) # 0 /\ a >= Upper(m) THEN ResizeAbove(m, a, s) ELSE {No}))

(***************************************************************************)
(* A state: the registers, stack, heap and extra segments of a CpuState.  *)
(***************************************************************************)
AddrOf(st, acc) == (st.regs[acc.base] + acc.disp) % AddrMod

Regions(st) == st.segs \o <<st.stack, st.heap>>

MappedIn(st, a) == \E k \in DOMAIN Regions(st) : Mapped(Regions(st)[k], a)

\* The sandbox run: the index of the first access with an unmapped byte,
\* 0 when the code runs normally.
FaultLine(st) ==
  SelectInSeq(Code, LAMBDA acc :
    \E d \in 0..(acc.size - 1) : ~MappedIn(st, (AddrOf(st, acc) + d) % AddrMod))

\* is_misaligned and already_allocated (stategen.h, not in the repository):
\* the address is not a multiple of the size; every byte is in range.
IsMisaligned(a, s) == a % s # 0
AlreadyAllocated(m, a, s) == \A d \in 0..(s - 1) : InRange(m, (a + d) % AddrMod)

\* is_ok (135-157) on a run that faulted at access acc.
IsOk(st, acc) ==
  LET a == AddrOf(st, acc) IN
  AllowUnaligned /\ IsMisaligned(a, acc.size)
  /\ (AlreadyAllocated(st.stack, a, acc.size) \/ AlreadyAllocated(st.heap, a, acc.size))

FixMisalignmentNoWrap(st, acc, tried) ==
  LET a       == AddrOf(st, acc)
      offset  == a % Align
      current == st.regs[acc.base]
      newByte == (current % Align) - offset
  IN IF (current - offset) % Align # 0 /\ ~tried
     THEN {[r |-> "ok", tried |-> TRUE,
            st |-> [st EXCEPT !.regs[acc.base] = (current - (current % LowByte)) + newByte]]}
     ELSE {[r |-> "no", tried |-> FALSE, st |-> st]}

(***************************************************************************)
(* fix_misalignment (276-302): once in a row, the low byte of the base     *)
(* register is set to (current & 0x1f) - (addr & 0x1f).  Like fix(), it   *)
(* gives results [r, st, tried] with r "ok", "no" or "abort".              *)
(***************************************************************************)
FixMisalignment(st, acc, tried) ==
  LET a       == AddrOf(st, acc)
      offset  == a % Align
      current == st.regs[acc.base]
      newByte == ((current % Align) - offset) % LowByte
  IN IF (current - offset) % Align # 0 /\ ~tried
     THEN {[r |-> "ok", tried |-> TRUE,
            st |-> [st EXCEPT !.regs[acc.base] = (current - (current % LowByte)) + newByte]]}
     ELSE {[r |-> "no", tried |-> FALSE, st |-> st]}

\* 386-391: segments[k] grown; then stack := segments[0], heap :=
\* segments[1], and the rest are the segments.
Regrouped(st, segs) ==
  [st EXCEPT !.stack = segs[1], !.heap = segs[2], !.segs = SubSeq(segs, 3, Len(segs))]

(***************************************************************************)
(* 368-404, from index k of segments = fixed.segments ++ [stack, heap]:   *)
(* the first region resize_mem can grow is grown; when none can, a new     *)
(* Memory is sized for the access and fixed.segments becomes segments with *)
(* it appended.                                                            *)
(***************************************************************************)
RECURSIVE GrowFrom(_, _, _, _, _)
GrowFrom(st, segs, k, a, s) ==
  IF k > Len(segs)
  THEN {IF g.r = "abort" THEN g ELSE [r |-> "ok", st |-> [st EXCEPT !.segs = segs \o <<g.m>>]]
        : g \in ResizeMem(EmptyMem, a, s)}
  ELSE UNION {CASE g.r = "no"    -> GrowFrom(st, segs, k + 1, a, s)
                [] g.r = "abort" -> {g}
                [] g.r = "ok"    -> {[r |-> "ok", st |-> Regrouped(st, [segs EXCEPT ![k] = g.m])]}
              : g \in ResizeMem(segs[k], a, s)}

\* fix (304-405) after a segfault at access acc.
Fix(st, acc, tried) ==
  LET a == AddrOf(st, acc) IN
  IF IsMisaligned(a, acc.size) /\ ~AllowUnaligned
  THEN FixMisalignment(st, acc, tried)
  ELSE IF \E k \in DOMAIN Regions(st) : AlreadyAllocated(Regions(st)[k], a, acc.size)
  THEN {[r |-> "no", tried |-> FALSE, st |-> st]}
  ELSE {[r |-> g.r, tried |-> tried, st |-> IF g.r = "ok" THEN g.st ELSE st]
        : g \in GrowFrom(st, Regions(st), 1, a, acc.size)}

\* get(cs) (40-77): random registers, rsp high, the stack placed below it,
\* an empty heap at 0x100000000; extra segments are left as they are.
Regenerate(st) ==
  {[st EXCEPT !.regs  = [rbx |-> v, rsp |-> sp],
              !.stack = RandomizeMem(Resize(@, sp - StackSize, StackSize)),
              !.heap  = Resize(@, HeapBase, 0)] : v \in Addr, sp \in RspValues}

VARIABLES
  cs,       \* the CpuState being patched
  input,    \* the state the caller passed in
  linked,   \* whether the sandbox links the cfg (else SIGBUS)
  i,        \* the attempt counter
  tried,    \* tried_to_fix_misalign_
  pc,       \* "run", "done" or "abort"
  ret       \* what get() returned

vars == <<cs, input, linked, i, tried, pc, ret>>

Init ==
  /\ input \in Inputs
  /\ cs = input
  /\ linked \in BOOLEAN
  /\ i = 0
  /\ tried = FALSE
  /\ pc = "run"
  /\ ret = None

(***************************************************************************)
(* One iteration of the loop at 97-127, as the records of what it can     *)
(* leave: run; SIGBUS returns false; a run that is ok returns true; a fix  *)
(* that worked is retried without counting the attempt (i-- then ++i);    *)
(* otherwise get(cs) draws a new random state and the attempt counts.     *)
(***************************************************************************)
Outcome(st, t, di, p, r) == [st |-> st, tried |-> t, di |-> di, pc |-> p, ret |-> r]

FixOutcomesUncounted(st, t, acc) ==
  UNION {CASE f.r = "ok"    -> {Outcome(f.st, f.tried, 0, "run", None)}
           [] f.r = "no"    -> {Outcome(s, FALSE, 0, "run", None) : s \in Regenerate(st)}
           [] f.r = "abort" -> {Outcome(st, t, 0, "abort", None)}
         : f \in Fix(st, acc, t)}

\* The outcomes once the run faulted at access acc: fix() and its result.
FixOutcomes(st, t, acc) ==
  UNION {CASE f.r = "ok"    -> {Outcome(f.st, f.tried, 0, "run", None)}
           [] f.r = "no"    -> {Outcome(s, FALSE, 1, "run", None) : s \in Regenerate(st)}
           [] f.r = "abort" -> {Outcome(st, t, 0, "abort", None)}
         : f \in Fix(st, acc, t)}

AttemptOutcomes(st, t, isLinked) ==
  UNION {IF ~isLinked THEN {Outcome(st, t, 0, "done", FALSE)}
         ELSE IF j = 0 \/ IsOk(st, Code[j]) THEN {Outcome(st, t, 0, "done", TRUE)}
         ELSE FixOutcomes(st, t, Code[j])
         : j \in {FaultLine(st)}}

Attempt ==
  /\ pc = "run"
  /\ i < MaxAttempts
  /\ \E o \in AttemptOutcomes(cs, tried, linked) :
       /\ cs' = o.st
       /\ tried' = o.tried
       /\ i' = i + o.di
       /\ pc' = o.pc
       /\ ret' = o.ret
  /\ UNCHANGED <<input, linked>>

\* 129-131: "Max attempts exceeded."
GiveUp ==
  /\ pc = "run"
  /\ i = MaxAttempts
  /\ pc' = "done" /\ ret' = FALSE
  /\ UNCHANGED <<cs, input, linked, i, tried>>

Next == Attempt \/ GiveUp

Spec == Init /\ [][Next]_vars /\ WF_vars(Next)

-----------------------------------------------------------------------------
TypeOK ==
  /\ cs.regs \in [Regs -> Addr]
  /\ i \in 0..MaxAttempts
  /\ pc \in {"run", "done", "abort"}
  /\ ret \in {None, TRUE, FALSE}

\* Every call of get() returns: fix() cannot succeed forever without an
\* attempt being counted, and the attempts are bounded.
GetTerminates == <>(pc # "run")

\* Keeps(new, old): every byte old maps is mapped by new, with its value.
Keeps(new, old) == \A a \in Addr : Mapped(old, a) => Mapped(new, a) /\ ByteAt(new, a) = ByteAt(old, a)

\* get(cs, cfg, true) returns true only with the caller's state patched:
\* the registers as given, the stack and heap still holding what they
\* held, every segment kept, and no byte mapped by two regions.
Patched ==
  pc = "done" /\ ret = TRUE =>
    /\ cs.regs = input.regs
    /\ Keeps(cs.stack, input.stack) /\ Keeps(cs.heap, input.heap)
    /\ \A k \in DOMAIN input.segs : \E l \in DOMAIN cs.segs : Keeps(cs.segs[l], input.segs[k])
    /\ \A k, l \in DOMAIN Regions(cs) :
         k # l => \A a \in Addr : ~(Mapped(Regions(cs)[k], a) /\ Mapped(Regions(cs)[l], a))
=============================================================================
