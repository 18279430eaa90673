---------------------------- MODULE PathCondition ----------------------------
(***************************************************************************)
(* The path encoding of BoundedValidator::verify_pair (src/src/validator/ *)
(* bounded.cc 93-174): for each block of a path P, build_circuit walks the *)
(* block's instructions, and at a conditional jump adds the jump's        *)
(* condition or its negation, as is_jump decides from the Cfg's           *)
(* successors and the next block of P.  The constraints of P must hold of *)
(* every execution that runs along P: the solver then searches exactly    *)
(* those executions for a difference.                                     *)
(*                                                                         *)
(* Blocks are 1..N in code order, with the empty entry 0 before them and *)
(* the empty exit N + 1 after them; a path starts at the entry and ends   *)
(* at the exit, as learn_paths records it (57, 73).  An instruction is a  *)
(* record [kind, target].  A condition is abstracted to its outcome: V[k] *)
(* is the outcome of the jump the k-th block of the run ends with, and    *)
(* the constraint <<k, b>> says V[k] = b.  One side is modelled; the      *)
(* rewrite's loop (with line_no reset) is the same.                       *)
(***************************************************************************)
EXTENDS Naturals, Sequences, SequencesExt

CONSTANTS
  Code,     \* the blocks; Code[b] is a non-empty sequence of instructions
  MaxLen    \* bound on the paths (find_paths' bound_)

N      == Len(Code)
Entry  == 0
Exit   == N + 1
Blocks == 1..N
BlockCode(b) == IF b \in Blocks THEN Code[b] ELSE <<>>
LastOf(b) == Code[b][Len(Code[b])]

\* The Cfg's successor vector (cfg.h is not in the repository): the entry
\* goes to block 1 and the exit has none; a block ending in a jcc falls
\* through and jumps, a jmp jumps, a ret goes to the exit, and anything
\* else falls through.
Succ(b) ==
  CASE b = Entry              -> <<1>>
    [] b = Exit               -> <<>>
    [] LastOf(b).kind = "jcc" -> <<b + 1, LastOf(b).target>>
    [] LastOf(b).kind = "jmp" -> <<LastOf(b).target>>
    [] LastOf(b).kind = "ret" -> <<Exit>>
    [] OTHER                  -> <<b + 1>>

\* The paths of at most MaxLen blocks from block 1 to the last block before
\* the exit.
RECURSIVE PathsFrom(_)
PathsFrom(p) ==
  LET next == ToSet(Succ(Last(p))) IN
  (IF Exit \in next THEN {p} ELSE {})
  \cup (IF Len(p) < MaxLen
        THEN UNION {PathsFrom(Append(p, c)) : c \in next \ {Exit}}
        ELSE {})

\* The same paths with the entry before them and the exit after them.
CfgPaths == {<<Entry>> \o p \o <<Exit>> : p \in PathsFrom(<<1>>)}

(***************************************************************************)
(* is_jump (145-174).  "auto second = first++" leaves second at            *)
(* succ_begin, so the test for a single successor never holds: every      *)
(* block but the exit gets FALL_THROUGH when the next block of P is       *)
(* block + 1, and JUMP otherwise; the last block before the exit is       *)
(* compared with the exit too.                                            *)
(***************************************************************************)
IsJump(P, k) ==
  IF k = Len(P) \/ Succ(P[k]) = <<>> THEN "NONE"
  ELSE IF P[k + 1] = P[k] + 1 THEN "FALL_THROUGH" ELSE "JUMP"

\* The constraint a jcc adds in build_circuit (104-127).
JccConstraint(jump, k) ==
  CASE jump = "JUMP"         -> {<<k, TRUE>>}
    [] jump = "FALL_THROUGH" -> {<<k, FALSE>>}
    [] OTHER                 -> {}

(***************************************************************************)
(* build_circuit (93-143) from instruction j of block b on, with line_no  *)
(* at ln: line_no counts every instruction; labels, nops and jumps are    *)
(* skipped; a ret returns at once; other instructions go to the handler   *)
(* (abstracted away: they add no path constraint).                        *)
(***************************************************************************)
RECURSIVE BuildFrom(_, _, _, _, _)
BuildFrom(b, j, jump, k, ln) ==
  IF j > Len(BlockCode(b)) THEN [cons |-> {}, line |-> ln]
  ELSE LET kind == BlockCode(b)[j].kind
           rest == BuildFrom(b, j + 1, jump, k, ln + 1)
       IN CASE kind = "jcc" -> [rest EXCEPT !.cons = @ \cup JccConstraint(jump, k)]
            [] kind = "ret" -> [cons |-> {}, line |-> ln + 1]
            [] OTHER        -> rest

VARIABLES
  P,            \* the path verify_pair is given
  i,            \* the loop index over P
  lineNo,       \* line_no
  constraints   \* the path constraints pushed on the state so far

vars == <<P, i, lineNo, constraints>>

Init ==
  /\ P \in CfgPaths
  /\ i = 1
  /\ lineNo = 0
  /\ constraints = {}

\* One build_circuit(cfg, P[i], is_jump(cfg, P, i), state, line_no).
BuildCircuit ==
  /\ i <= Len(P)
  /\ LET r == BuildFrom(P[i], 1, IsJump(P, i), i, lineNo) IN
       /\ constraints' = constraints \cup r.cons
       /\ lineNo' = r.line
  /\ i' = i + 1
  /\ UNCHANGED P

Next == BuildCircuit

Spec == Init /\ [][Next]_vars

-----------------------------------------------------------------------------
(***************************************************************************)
(* The executions the path stands for.  From block b with jump outcome v, *)
(* control goes to the jcc's target if v holds, and to the first          *)
(* successor (the fall-through) otherwise.                                *)
(***************************************************************************)
Step(b, v) == IF LastOf(b).kind = "jcc" /\ v THEN LastOf(b).target ELSE Succ(b)[1]

RECURSIVE ExecFrom(_, _, _)
ExecFrom(V, b, k) ==
  IF b = Exit \/ k > MaxLen + 1 THEN <<b>> ELSE <<b>> \o ExecFrom(V, Step(b, V[k]), k + 1)

\* The run from the entry: block 1 is the second block of the path.
Run(V) == <<Entry>> \o ExecFrom(V, 1, 2)

Valuations == [1..(MaxLen + 2) -> BOOLEAN]

Sat(C, V) == \A c \in C : V[c[1]] = c[2]

\* Once verify_pair has built the circuit of P, every execution that runs
\* along P (the blocks sandbox_path_callback would record) satisfies the
\* constraints build_circuit and is_jump added: no execution of the path
\* is hidden from the solver's search for a difference.
PathConditionComplete ==
  i > Len(P) => \A V \in Valuations : Run(V) = P => Sat(constraints, V)
=============================================================================
