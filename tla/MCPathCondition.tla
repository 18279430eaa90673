--------------------------- MODULE MCPathCondition ---------------------------
(* Constants of PathCondition for TLC: five blocks.  Block 1 may jump over *)
(* block 2; block 3 loops on itself; block 4 ends in a jcc whose target is *)
(* the next block (je .L5; .L5:); block 5 returns, with an instruction    *)
(* after the ret.                                                         *)
EXTENDS PathCondition

I(kind, target) == [kind |-> kind, target |-> target]

MCCode ==
  << << I("op", 0), I("jcc", 3) >>,
     << I("op", 0) >>,
     << I("label", 0), I("op", 0), I("jcc", 3) >>,
     << I("label", 0), I("nop", 0), I("jcc", 5) >>,
     << I("label", 0), I("op", 0), I("ret", 0), I("op", 0) >> >>
=============================================================================
