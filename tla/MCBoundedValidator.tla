------------------------- MODULE MCBoundedValidator -------------------------
(* Constants of BoundedValidator for TLC: two paths, two testcases, and   *)
(* program pairs that vary the paths of the rewrite, the path each        *)
(* testcase runs, memory, and whether a pair of paths differs.            *)
EXTENDS BoundedValidator

CONSTANTS p1, p2

MCPaths == {p1, p2}

\* Programs that pass the background checks.
Checked ==
  [tpaths : {<<p1, p2>>},
   rpaths : {<<p1, p2>>, <<p2>>},
   trun   : {<<p1, p2>>, <<p2, p2>>},
   rrun   : {<<p2, p1>>, <<p2, Beyond>>, <<p1, p2>>},
   memory : {{}, MCPaths \X MCPaths},
   differ : {{}, {<<p2, p2>>}},
   supported : {TRUE}, defInsDiffer : {FALSE}, regsetsSupported : {TRUE},
   liveOutsT : {"rax"}, liveOutsR : {"rax", "rbx"}]

\* A pair whose def-ins differ.
Rejected ==
  [tpaths : {<<p1>>}, rpaths : {<<p1>>}, trun : {<<p1, p1>>}, rrun : {<<p1, p1>>},
   memory : {{}}, differ : {{}},
   supported : {TRUE}, defInsDiffer : {TRUE}, regsetsSupported : {TRUE},
   liveOutsT : {"rax"}, liveOutsR : {"rax"}]

\* testcase runs are written <<path of input 0, path of input 1>>
MCPrograms == {[f \in DOMAIN r |-> IF f \in {"trun", "rrun"}
                                   THEN [i \in 0..1 |-> r[f][i + 1]] ELSE r[f]]
                : r \in Checked \cup Rejected}
=============================================================================
