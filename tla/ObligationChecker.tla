-------------------------- MODULE ObligationChecker --------------------------
(***************************************************************************)
(* SmtObligationChecker::check (src/src/validator/smt_obligation_checker.  *)
(* cc 518-1117): one proof obligation "assume, run path P of the target    *)
(* and Q of the rewrite, then prove" as the sequence of steps the function *)
(* takes: memory models allocated, the memory-equality conjunct of the     *)
(* assumption turned into ghost writes, circuits built, the no-memory      *)
(* short circuit, the memory-equality conjunct of the proof split off,     *)
(* ARM constraint generation, the solver call, and counterexample          *)
(* extraction and sandbox validation.  Each step ends in the callback or   *)
(* moves on.                                                               *)
(*                                                                         *)
(* The formulas are abstracted to what decides the result: which kinds of  *)
(* model the final query has.  A "reg" model is a real execution that      *)
(* breaks the register part of prove; "mem" one that breaks memory        *)
(* equality; "weak" a real execution that only the memory-equality         *)
(* assumption rules out; "spurious" a model of an over-approximating       *)
(* encoding that the sandbox does not reproduce.                           *)
(*                                                                         *)
(* assume and prove are shared_ptr<Invariant>: the caller's objects.  An   *)
(* object is a ConjunctionInvariant, a sequence of conjuncts.  With        *)
(* SharedInvariants the caller passes the same objects to every check (as  *)
(* the per-state invariants of a PAA are); without, a fresh copy each time. *)
(***************************************************************************)
EXTENDS Naturals, Sequences

CONSTANTS
  Objs,              \* the caller's invariant objects
  MaxChecks,         \* bound on the number of calls to check()
  SharedInvariants,  \* the caller reuses its objects across calls
  FallibleSites,     \* subset of {"shortcircuit", "sanity", "solve"}
  CheckCegs,         \* check_counterexamples_
  None

Strategies == {"flat", "arm"}
Kinds      == {"memequ", "regs"}
Conjunctions == {<<"memequ", "regs">>, <<"regs">>}

VARIABLES
  orig,    \* the invariants the caller built, per object
  invs,    \* the objects as they are now
  live,    \* memory models allocated and not deleted
  count,   \* calls to check() so far
  pc,      \* where the current call is
  cur,     \* the current call: its inputs and what it has found
  last     \* the Result the last call passed to the callback

vars == <<orig, invs, live, count, pc, cur, last>>

HasMemequ(s) == \E i \in DOMAIN s : s[i] = "memequ"

FirstMemequ(s) == CHOOSE i \in DOMAIN s : s[i] = "memequ" /\ \A j \in 1..(i - 1) : s[j] # "memequ"

\* ConjunctionInvariant::remove(i).
RemoveConjunct(s, i) == SubSeq(s, 1, i - 1) \o SubSeq(s, i + 1, Len(s))

\* The loop that finds the first MemoryEqualityInvariant and removes it.
WithoutMemequ(s) == IF HasMemequ(s) THEN RemoveConjunct(s, FirstMemequ(s)) ELSE s

\* Results of "solver_.is_sat(q)" read alone: an error makes it either.
IsSatOutcomes(site, v) == IF site \in FallibleSites THEN BOOLEAN ELSE {v}

\* Results of "!solver_.is_sat(q) && !solver_.has_error()": an error is FALSE.
ErrorAsFailure(site, v) == IF site \in FallibleSites THEN {v, FALSE} ELSE {v}

ReleaseTwice(n) == n - 4

\* delete state_t.memory; delete state_r.memory;
Release(n) == n - 2

\* The Result passed to the callback, and whether the obligation the caller
\* built has a real counterexample.
Result(v, c, e) ==
  [verified |-> v, has_ceg |-> c, has_error |-> e,
   genuine  |-> cur.regCex \/ (HasMemequ(orig[cur.p]) /\ cur.memCex)]

\* The kinds of model the final query has.
ModelKinds ==
  {k \in {"reg", "mem", "weak", "spurious"} :
     CASE k = "reg"      -> cur.regCex
       [] k = "mem"      -> cur.memCex /\ cur.proveMem
       [] k = "weak"     -> cur.weakCex /\ HasMemequ(orig[cur.a]) /\ ~cur.asmMem
       [] k = "spurious" -> cur.overapprox}

Finish(res, freed) ==
  /\ last' = res
  /\ live' = IF freed THEN Release(live) ELSE live
  /\ pc' = "idle"

Init ==
  /\ orig \in [Objs -> Conjunctions]
  /\ invs = orig
  /\ live = 0
  /\ count = 0
  /\ pc = "idle"
  /\ cur = None
  /\ last = None

(***************************************************************************)
(* smt_obligation_checker.cc 532-647: a call with objects a (assume) and p *)
(* (prove); the two memory models are allocated; the first memequ         *)
(* conjunct of assume becomes ghost writes and is removed from the object. *)
(***************************************************************************)
Start ==
  /\ pc = "idle"
  /\ count < MaxChecks
  /\ \E a, p \in Objs, strategy \in Strategies, tcs \in BOOLEAN,
        regCex, memCex, weakCex, overapprox \in BOOLEAN :
       LET inv == IF SharedInvariants THEN invs ELSE orig IN
       \* a caller that copies its invariants passes two distinct objects
       /\ SharedInvariants \/ a # p
       /\ cur' = [a |-> a, p |-> p, strategy |-> strategy, tcs |-> tcs,
                  regCex |-> regCex, memCex |-> memCex, weakCex |-> weakCex,
                  overapprox |-> overapprox,
                  asmMem |-> HasMemequ(inv[a]), proveMem |-> FALSE,
                  sample |-> tcs]
       /\ invs' = [inv EXCEPT ![a] = WithoutMemequ(@)]
  /\ live' = live + 2
  /\ count' = count + 1
  /\ pc' = "circuits"
  /\ UNCHANGED <<orig, last>>

(***************************************************************************)
(* 659-704: a handler exception returns an error and deletes the models; a *)
(* handler that only set error_ returns the error and deletes nothing.     *)
(***************************************************************************)
Circuits ==
  /\ pc = "circuits"
  /\ \/ Finish(Result(FALSE, FALSE, TRUE), TRUE)
     \/ Finish(Result(FALSE, FALSE, TRUE), FALSE)
     \/ /\ pc' = IF cur.tcs THEN "prove" ELSE "shortcircuit"
        /\ UNCHANGED <<live, last>>
  /\ UNCHANGED <<orig, invs, count, cur>>

(***************************************************************************)
(* 707-736: without testcases, if the path constraints are unsatisfiable   *)
(* without any memory model, the obligation is verified.                   *)
(***************************************************************************)
ShortCircuit ==
  LET feasibleNoMem == \/ cur.regCex \/ cur.memCex \/ cur.overapprox
                       \/ (cur.weakCex /\ ~cur.asmMem)
  IN
  /\ pc = "shortcircuit"
  /\ \E f \in IF feasibleNoMem THEN {TRUE} ELSE BOOLEAN,
        unsat \in {TRUE, FALSE} :
       /\ unsat \in ErrorAsFailure("shortcircuit", ~f)
       /\ IF unsat
          THEN Finish(Result(TRUE, FALSE, FALSE), FALSE)
          ELSE /\ pc' = "prove"
               /\ UNCHANGED <<live, last>>
  /\ UNCHANGED <<orig, invs, count, cur>>

\* 739-756: the first memequ conjunct of prove is split off and removed.
ProveSplit ==
  /\ pc = "prove"
  /\ cur' = [cur EXCEPT !.proveMem = HasMemequ(invs[cur.p])]
  /\ invs' = [invs EXCEPT ![cur.p] = WithoutMemequ(@)]
  /\ pc' = CASE cur.strategy = "arm" /\ ~cur.tcs -> "armtc"
            [] cur.strategy = "arm"             -> "arm"
            [] OTHER                            -> "solve"
  /\ UNCHANGED <<orig, live, count, last>>

(***************************************************************************)
(* generate_arm_testcases (424-517): the assumption, as the object assume  *)
(* is now (its memequ conjunct already removed at 638), is solved over    *)
(* flat memories; an error or unsat returns false.  The model's states go  *)
(* through StateGen::get for the target's and then the rewrite's unrolled *)
(* path, and either may fail.  The set of values it can return.           *)
(***************************************************************************)
GenerateArmTestcases(assumeSat) ==
  UNION {{s /\ sg1 /\ sg2 : sg1, sg2 \in BOOLEAN} :
           s \in ErrorAsFailure("armtc", assumeSat)}

(***************************************************************************)
(* 759-851: with the ARM model and no testcase from the caller, a testcase *)
(* is generated; if there is one, the dereference map of the sample is    *)
(* built from it (one map: the loop over testcases breaks at once).       *)
(***************************************************************************)
ArmTestcases ==
  LET weakSat == \/ cur.regCex \/ cur.memCex \/ cur.weakCex \/ cur.overapprox
  IN
  /\ pc = "armtc"
  /\ \E s \in IF weakSat THEN {TRUE} ELSE BOOLEAN :
       \E ok \in GenerateArmTestcases(s) :
         cur' = [cur EXCEPT !.sample = ok]
  /\ pc' = "arm"
  /\ UNCHANGED <<orig, invs, live, count, last>>

(***************************************************************************)
(* 888-911 with arm.cc 58-62: if is_sat of the assumption alone returns    *)
(* false, the obligation is reported verified.                              *)
(***************************************************************************)
ArmSanity ==
  LET assumeSat == \/ cur.regCex \/ cur.memCex \/ cur.weakCex \/ cur.overapprox
  IN
  /\ pc = "arm"
  /\ \E s \in IF assumeSat THEN {TRUE} ELSE BOOLEAN :
       \E sane \in IsSatOutcomes("sanity", s) :
         IF ~sane
         THEN Finish(Result(TRUE, FALSE, FALSE), FALSE)
         ELSE /\ pc' = "solve"
              /\ UNCHANGED <<live, last>>
  /\ UNCHANGED <<orig, invs, count, cur>>

(***************************************************************************)
(* 975-985 and 1096-1114: the query; a solver error returns an error       *)
(* without deleting the models; unsat is verified.                         *)
(***************************************************************************)
Solve ==
  /\ pc = "solve"
  /\ \/ /\ "solve" \in FallibleSites
        /\ Finish(Result(FALSE, FALSE, TRUE), FALSE)
     \/ /\ ModelKinds = {}
        /\ Finish(Result(TRUE, FALSE, FALSE), TRUE)
     \/ /\ ModelKinds # {}
        /\ pc' = "ceg"
        /\ UNCHANGED <<live, last>>
  /\ UNCHANGED <<orig, invs, count, cur>>

(***************************************************************************)
(* check_counterexample (297-311): the model runs normally in the sandbox  *)
(* to the final states it predicts (a spurious model does not), meets      *)
(* assume->check and fails prove->check, both on the objects as they are   *)
(* now.  A "weak" model differs in registers; a "mem" model only in       *)
(* memory, which prove->check sees only through a memequ conjunct.         *)
(***************************************************************************)
Reproduced(k) ==
  \/ k \in {"reg", "weak"}
  \/ k = "mem" /\ HasMemequ(invs[cur.p])

HasCegUnchecked(ok, reproduced) == ok

\* result.has_ceg: the extracted testcase had accurate memory and, when
\* counterexamples are checked, the sandbox reproduced it.
HasCeg(ok, reproduced) == ok /\ (~CheckCegs \/ reproduced)

(***************************************************************************)
(* 1001-1094: the solver's model, one of the kinds it has, is read back    *)
(* (build_testcase_from_array may fail) and replayed in the sandbox by     *)
(* check_counterexample with the objects as they are now.                  *)
(***************************************************************************)
Counterexample ==
  /\ pc = "ceg"
  /\ \E k \in ModelKinds, ok \in BOOLEAN :
       Finish(Result(FALSE, HasCeg(ok, Reproduced(k)), FALSE), TRUE)
  /\ UNCHANGED <<orig, invs, count, cur>>

Next ==
  \/ Start \/ Circuits \/ ShortCircuit \/ ProveSplit \/ ArmTestcases \/ ArmSanity
  \/ Solve \/ Counterexample

Spec == Init /\ [][Next]_vars

-----------------------------------------------------------------------------
TypeOK ==
  /\ orig \in [Objs -> Conjunctions]
  /\ \A o \in Objs : invs[o] \in Seq(Kinds)
  /\ live \in Nat
  /\ count \in 0..MaxChecks
  /\ pc \in {"idle", "circuits", "shortcircuit", "prove", "armtc", "arm", "solve", "ceg"}

\* Soundness: check() reports verified only if the obligation the caller
\* built (its assumption and proof as constructed) has no counterexample.
Soundness == last # None /\ last.verified => ~last.genuine

\* A counterexample check() reports (has_ceg) is a real one for the
\* obligation the caller built, not one that only a weakened assumption or
\* the encoding admits.
CegGenuine == last # None /\ last.has_ceg => last.genuine

\* Every call that has returned has deleted the two memory models it
\* allocated.
MemoryReleased == pc = "idle" => live = 0
=============================================================================
