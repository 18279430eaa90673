----------------------------- MODULE MCArmCells -----------------------------
(* Model-checking instance of ArmCells: three accesses based on two        *)
(* registers p and q in a 16-byte address space.                           *)
EXTENDS ArmCells

MCRegs == {"p", "q"}

AllEnvs == [MCRegs -> 0..15]

\* Assumptions a path's invariant can make about the two pointers: nothing,
\* equal, q two bytes past p, p and q in separate regions, unsatisfiable.
MCAssumptions ==
  { AllEnvs,
    {e \in AllEnvs : e["q"] = e["p"]},
    {e \in AllEnvs : e["q"] = (e["p"] + 2) % 16},
    {e \in AllEnvs : e["p"] <= 3 /\ e["q"] >= 8 /\ e["q"] <= 11},
    {} }

\* An assumption that pins p at the top of the address space and q at 0.
MCWrapAssumptions == MCAssumptions \cup {{e \in AllEnvs : e["p"] = 15 /\ e["q"] = 0}}

\* Registers of the testcase whose dereference map ARM may get.
MCSampleEnvs ==
  { [p |-> 0, q |-> 0], [p |-> 1, q |-> 3], [p |-> 2, q |-> 9], [p |-> 5, q |-> 12] }

MCSizes == {1, 2}
MCFallible == {"data", "nonoverlap"}
MCFallibleNoData == {"nodata"}
=============================================================================
