--------------------------- MODULE BoundedValidator ---------------------------
(***************************************************************************)
(* BoundedValidator::verify (src/src/validator/bounded.cc 285-358): the    *)
(* background checks, path enumeration into paths_, learn_paths recording  *)
(* in path_to_testcase_ which bounded path every testcase runs, and the    *)
(* loop that calls verify_pair (176-283) on every pair of a target and a   *)
(* rewrite path.  paths_ and path_to_testcase_ are members of the          *)
(* validator and outlive the call: they are appended to, never cleared.   *)
(*                                                                         *)
(* A program pair is a record: the paths find_paths returns per side, the  *)
(* path each testcase runs per side (Beyond when it exceeds the bound),    *)
(* the pairs of paths that dereference memory, the pairs on which the two  *)
(* programs can end with different live-outs, and the outcome of the       *)
(* background checks.  Paths are model values shared by all programs: a    *)
(* Path is a vector of block ids, so two programs can have equal paths.    *)
(***************************************************************************)
EXTENDS Naturals, Sequences, SequencesExt

CONSTANTS
  Paths,         \* block-id vectors, as map keys
  NumInputs,     \* sandbox_->num_inputs()
  Programs,      \* the (target, rewrite) pairs a caller may pass
  MaxCalls,      \* bound on the number of calls to verify()
  Beyond,        \* a testcase whose path exceeds bound_
  None

Inputs == 0..(NumInputs - 1)
Sides  == {0, 1}            \* 0: target (is_rewrite false), 1: rewrite

\* The value rewrite_tcs[j] reads at j = size(): whatever lies past the
\* vector's end, an index or not.
Garbage == 0..NumInputs

VARIABLES
  paths_,        \* paths_[false] / paths_[true]
  ptt,           \* path_to_testcase_[is_rewrite][path]
  prog,          \* the program pair of the current or last call
  pc,            \* "idle" or "pairs" (the loop of Step 3)
  ti, ri,        \* the loop's indices into paths_[0] and paths_[1]
  ok,            \* the local "ok" of verify
  hasError,      \* has_error_
  calls,         \* calls to verify() so far
  result         \* what the last call returned, with has_error_

vars == <<paths_, ptt, prog, pc, ti, ri, ok, hasError, calls, result>>

(***************************************************************************)
(* find_pair_testcase (23-48): a merge of the sorted index lists of P and  *)
(* Q.  After the inner loop j may equal rewrite_tcs.size(), and            *)
(* rewrite_tcs[j] is then read past the end: any value in Garbage.  The    *)
(* set of testcases the call can return; NoTestcase for false.             *)
(***************************************************************************)
NoTestcase == -1

RECURSIVE SkipSmaller(_, _, _)
SkipSmaller(r, j, i) == IF j <= Len(r) /\ r[j] < i THEN SkipSmaller(r, j + 1, i) ELSE j

RECURSIVE Merge(_, _, _)
Merge(t, r, j) ==
  IF t = <<>> THEN {NoTestcase}
  ELSE LET i  == Head(t)
           j2 == SkipSmaller(r, j, i)
           read == IF j2 <= Len(r) THEN {r[j2]} ELSE Garbage
       IN UNION {IF v = i THEN {i} ELSE Merge(Tail(t), r, j2) : v \in read}

FindPairTestcase(P, Q) == Merge(ptt[0][P], ptt[1][Q], 1)

\* learn_paths (50-77): testcase i is appended to the list of the path it
\* ran, if that path stays within the bound.
LearnPaths(lists, run) ==
  [p \in Paths |-> lists[p] \o SelectSeq([k \in 1..NumInputs |-> k - 1],
                                         LAMBDA i : run[i] = p)]

\* A solver error read as "!is_sat" alone, without has_error().
SolvedErrorAsUnsat(p, P, Q) == {<<TRUE, FALSE>>, <<<<P, Q>> \notin p.differ, FALSE>>}

\* 218-270: a handler error while building the circuits, or a solver error,
\* is thrown and caught with has_error_ set; otherwise !is_sat.
Solved(p, P, Q) == {<<FALSE, TRUE>>, <<<<P, Q>> \notin p.differ, FALSE>>}

(***************************************************************************)
(* verify_pair (176-283): the pairs <<returned, sets has_error_>> the call *)
(* can produce.  With memory: no common testcase returns false and leaves  *)
(* has_error_ alone (206-209); build_cell_model may return NULL and set   *)
(* has_error_ (211-216); then the circuits and the query (Solved).         *)
(***************************************************************************)
VerifyPair(p, P, Q) ==
  LET found == FindPairTestcase(P, Q)
  IN IF <<P, Q>> \in p.memory
     THEN (IF NoTestcase \in found THEN {<<FALSE, FALSE>>} ELSE {})
          \cup (IF found # {NoTestcase} THEN {<<FALSE, TRUE>>} \cup Solved(p, P, Q) ELSE {})
     ELSE Solved(p, P, Q)

Init ==
  /\ paths_ = [s \in Sides |-> <<>>]
  /\ ptt = [s \in Sides |-> [p \in Paths |-> <<>>]]
  /\ prog = None
  /\ pc = "idle"
  /\ ti = 1 /\ ri = 1
  /\ ok = TRUE
  /\ hasError = FALSE
  /\ calls = 0
  /\ result = None

Return(v, e, p) ==
  /\ result' = [ret |-> v, err |-> e, prog |-> p]
  /\ pc' = "idle"

(***************************************************************************)
(* verify (285-343): has_error_ is reset; the background checks return     *)
(* false with an error (the live-outs check compares target.live_outs()    *)
(* with itself at 316 and never fires); then the paths of both sides are   *)
(* appended to paths_ and learn_paths appends to path_to_testcase_.        *)
(***************************************************************************)
Verify ==
  /\ pc = "idle"
  /\ calls < MaxCalls
  /\ calls' = calls + 1
  /\ \E p \in Programs :
       /\ prog' = p
       /\ IF ~p.supported \/ p.defInsDiffer \/ p.liveOutsT # p.liveOutsT
             \/ ~p.regsetsSupported
          THEN /\ Return(FALSE, TRUE, p)
               /\ hasError' = TRUE
               /\ UNCHANGED <<paths_, ptt, ti, ri, ok>>
          ELSE LET np == [paths_ EXCEPT ![0] = @ \o p.tpaths, ![1] = @ \o p.rpaths]
               IN /\ paths_' = np
                  /\ ptt' = [ptt EXCEPT ![0] = LearnPaths(@, p.trun),
                                        ![1] = LearnPaths(@, p.rrun)]
                  /\ hasError' = FALSE
                  /\ ti' = 1 /\ ri' = 1 /\ ok' = TRUE
                  /\ IF np[0] = <<>> \/ np[1] = <<>>
                     THEN Return(TRUE, FALSE, p)
                     ELSE /\ pc' = "pairs"
                          /\ UNCHANGED result

NextRiPastEnd(i) == IF i > Len(paths_[1]) THEN 1 ELSE i + 1

\* The inner loop's "++" over paths_[true], wrapping to the next target path.
NextRi(i) == IF i = Len(paths_[1]) THEN 1 ELSE i + 1

(***************************************************************************)
(* 346-357: one iteration, ok &= verify_pair(target, rewrite, P, Q); the  *)
(* call returns ok after the last pair.                                    *)
(***************************************************************************)
Pair ==
  /\ pc = "pairs"
  /\ \E r \in VerifyPair(prog, paths_[0][ti], paths_[1][ri]) :
       LET ok2  == ok /\ r[1]
           err2 == hasError \/ r[2]
           last == ti = Len(paths_[0]) /\ ri = Len(paths_[1])
       IN /\ ok' = ok2
          /\ hasError' = err2
          /\ ri' = NextRi(ri)
          /\ ti' = IF ri = Len(paths_[1]) THEN ti + 1 ELSE ti
          /\ IF last THEN Return(ok2, err2, prog) ELSE UNCHANGED <<pc, result>>
  /\ UNCHANGED <<paths_, ptt, prog, calls>>

Next == Verify \/ Pair

Spec == Init /\ [][Next]_vars

-----------------------------------------------------------------------------
TypeOK ==
  /\ \A s \in Sides : paths_[s] \in Seq(Paths)
  /\ \A s \in Sides, p \in Paths : ptt[s][p] \in Seq(Inputs)
  /\ pc \in {"idle", "pairs"}
  /\ pc = "pairs" => ti \in DOMAIN paths_[0] /\ ri \in DOMAIN paths_[1]
  /\ ok \in BOOLEAN /\ hasError \in BOOLEAN
  /\ calls \in 0..MaxCalls

\* The programs are equivalent up to the bound: no pair of a target and a
\* rewrite path that find_paths returns can end with different live-outs.
Equivalent(p) ==
  \A P \in ToSet(p.tpaths), Q \in ToSet(p.rpaths) : <<P, Q>> \notin p.differ

\* verify() returns true only for programs that are equivalent up to the
\* bound, also on a later call whose paths_ still holds an earlier
\* program's paths.
VerifySound == result # None /\ result.ret => Equivalent(result.prog)

=============================================================================
