-------------------------------- MODULE MCPaa --------------------------------
(* Constants of Paa for TLC: target and rewrite share the Cfg of a loop    *)
(* over blocks 1 and 2 (entry 0, exit 3); the edges a caller may add align *)
(* the entries, 1 with 2, 2 back with 1, the exits, a whole iteration, and *)
(* a target-only iteration; three testcases, the last of which faults in  *)
(* the target inside the loop.                                            *)
EXTENDS Paa

LoopCfg == [entry |-> 0, exit |-> 3, succ |-> (0 :> {1}) @@ (1 :> {1, 2}) @@ (2 :> {1, 3}) @@ (3 :> {})]

MCCandidateEdges ==
  { Edge(<<1, 1>>, <<0>>, <<0>>),
    Edge(<<2, 2>>, <<1>>, <<1>>),
    Edge(<<1, 1>>, <<2>>, <<2>>),
    Edge(<<3, 3>>, <<2>>, <<2>>),
    Edge(<<1, 1>>, <<1, 2>>, <<1, 2>>),
    Edge(<<1, 1>>, <<1, 2>>, <<>>) }

MCTests ==
  << [t |-> <<1, 2>>, r |-> <<1, 2>>],
     [t |-> <<1, 2, 1, 2>>, r |-> <<1, 2>>],
     [t |-> <<1, 2, 1>>, r |-> <<1, 2, 1, 2>>] >>
=============================================================================
