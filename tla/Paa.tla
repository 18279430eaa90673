------------------------------------ MODULE Paa ------------------------------------
(***********************************************************************************)
(* ProgramAlignmentAutomata (src/src/validator/paa.cc) with the DataCollector     *)
(* (data_collector.cc) that feeds it traces.  A state of the automaton is a pair  *)
(* <<ts, rs>> of a target and a rewrite block; an edge goes from one state to     *)
(* another along a target path te and a rewrite path re, each starting at the    *)
(* edge's source block and stopping before its destination block.  The          *)
(* automaton is a set of edges (next_edges_ and prev_edges_ of paa.h, which is   *)
(* not in the repository, hold the same edges indexed by tail and by head).      *)
(*                                                                               *)
(* The operations are the public methods a caller applies in any order:          *)
(* add_edge, simplify, remove_prefixes, compute_failure_edges and test_paa.      *)
(* A CpuState a trace records is abstracted to its position in the trace.        *)
(***********************************************************************************)
EXTENDS Naturals, Sequences, SequencesExt, FiniteSets

CONSTANTS
  Target, Rewrite,  \* the two Cfgs: [entry, exit, succ], succ[b] the successors of b
  FailBlock,        \* the blocks of fail_state()
  CandidateEdges,   \* the edges a caller may add
  Tests,            \* per testcase i, Tests[i].t / Tests[i].r: the blocks each run enters
  MaxLen            \* length of the CFG paths the coverage and language checks look at

Sides == {"t", "r"}
Cfg(s) == IF s = "t" THEN Target ELSE Rewrite

Start == <<Target.entry, Rewrite.entry>>
Exit  == <<Target.exit, Rewrite.exit>>
Fail  == <<FailBlock, FailBlock>>

Blk(q, s)  == IF s = "t" THEN q[1] ELSE q[2]
Path(e, s) == IF s = "t" THEN e.te ELSE e.re

\* Edge::Edge(tail, tp, rp) (paa.cc 74-91): the source is the first block of each
\* path, or the destination's block when that path is empty.
Edge(to, tp, rp) ==
  [from |-> <<IF tp = <<>> THEN to[1] ELSE tp[1], IF rp = <<>> THEN to[2] ELSE rp[1]>>,
   to |-> to, te |-> tp, re |-> rp]

\* next_edges(s), prev_edges(s), has_self_loop(s) of paa.h.
NextEdges(E, q) == {e \in E : e.from = q}
PrevEdges(E, q) == {e \in E : e.to = q}
HasSelfLoop(E, q) == \E e \in NextEdges(E, q) : e.to = q

\* An edge's path followed by its destination block: what a run must do to take it.
Ext(e, s) == Path(e, s) \o <<Blk(e.to, s)>>

\* is_prefix / is_edge_prefix (93-123): tr1 is a prefix of tr2.
IsEdgePrefix(a, b) == IsPrefix(a, b)

-----------------------------------------------------------------------------------
(***********************************************************************************)
(* DataCollector::mine_data (126-187): the entry block is recorded by hand, every *)
(* other block the run enters by a callback, and the exit block after the run,   *)
(* also when the testcase faulted part way.  get_traces (29-49) caches the      *)
(* traces per Cfg.                                                               *)
(***********************************************************************************)
MineData(c, run) == <<c.entry>> \o run \o <<c.exit>>

GetTraces(s) == [i \in DOMAIN Tests |-> MineData(Cfg(s), Tests[i][s])]

-----------------------------------------------------------------------------------
(***********************************************************************************)
(* learn_state_data (135-269): a testcase's two traces followed through the      *)
(* automaton along every matching edge at once, level by level.  An item of the  *)
(* worklist is a state, the heads ti and ri of the two remaining traces, and the *)
(* current CpuStates tc and rc.  Data is a set of <<state, testcase,     *)
(* target position, rewrite position>>.                                          *)
(***********************************************************************************)
Remaining(T, i) == SubSeq(T, i, Len(T))

Matches(E, T, R, x) ==
  {e \in NextEdges(E, x.q) : /\ IsEdgePrefix(Ext(e, "t"), Remaining(T, x.ti))
                             /\ IsEdgePrefix(Ext(e, "r"), Remaining(R, x.ri))}

CurrentBefore(i, p) == i + Len(p) - 1

\* follow.target_current = follow.target_trace[edge.te.size()].cs
Current(i, p) == i + Len(p)

Follow(x, e) ==
  [q |-> e.to, ti |-> x.ti + Len(e.te), ri |-> x.ri + Len(e.re),
   tc |-> Current(x.ti, e.te), rc |-> Current(x.ri, e.re)]

\* At the exit state both traces must be down to the exit block; elsewhere some
\* edge must match.
ItemOk(E, T, R, x) ==
  IF x.q = Exit THEN Len(Remaining(T, x.ti)) = 1 /\ Len(Remaining(R, x.ri)) = 1
  ELSE Matches(E, T, R, x) # {}

RecordAnyEdge(E, T, R, i, x) ==
  [sd    |-> {<<Follow(x, e).q, i, Follow(x, e).tc, Follow(x, e).rc>> : e \in Matches(E, T, R, x)},
   reach |-> {e.to : e \in NextEdges(E, x.q)}]

\* What processing item x records for every matching edge: the state data of its
\* destination and that the destination was reached (the edge data, read only
\* by the invariant learner, is left out).
Record(E, T, R, i, x) ==
  LET fs == {<<e, Follow(x, e)>> : e \in Matches(E, T, R, x)}
  IN [sd    |-> {<<f[2].q, i, f[2].tc, f[2].rc>> : f \in fs},
      reach |-> {f[2].q : f \in fs}]

RecordAll(E, T, R, i, S, acc) ==
  LET rs == {Record(E, T, R, i, x) : x \in S}
  IN [acc EXCEPT !.sd    = @ \cup UNION {r.sd : r \in rs},
                 !.reach = @ \cup UNION {r.reach : r \in rs}]

(***********************************************************************************)
(* One level of the while loop.  When an item fails the function returns at once:*)
(* the items of the level processed before it (the vector's order, which the    *)
(* model leaves open) have recorded their data and the rest have not.           *)
(***********************************************************************************)
RECURSIVE Lsd(_, _, _, _, _, _)
Lsd(E, T, R, i, level, acc) ==
  IF level = {} THEN {[acc EXCEPT !.ok = TRUE]}
  ELSE LET live == {x \in level : x.q # Exit}
       IN IF \A x \in level : ItemOk(E, T, R, x)
          THEN Lsd(E, T, R, i,
                   UNION {{Follow(x, e) : e \in Matches(E, T, R, x)} : x \in live},
                   RecordAll(E, T, R, i, live, acc))
          ELSE {[RecordAll(E, T, R, i, S, acc) EXCEPT !.ok = FALSE] :
                  S \in SUBSET {x \in live : ItemOk(E, T, R, x)}}

LearnStateData(E, T, R, i, acc) ==
  Lsd(E, T, R, i, {[q |-> Start, ti |-> 1, ri |-> 1, tc |-> 1, rc |-> 1]},
      [acc EXCEPT !.sd = @ \cup {<<Start, i, 1, 1>>}, !.reach = @ \cup {Start}])

\* test_paa (271-310): every testcase in turn; a rejected one ends the call with
\* false unless failures are ignored.
RECURSIVE TestFrom(_, _, _, _, _, _)
TestFrom(E, TT, RT, i, ignore, acc) ==
  IF i > Len(TT) THEN {[acc EXCEPT !.ok = TRUE]}
  ELSE UNION {IF ~r.ok /\ ~ignore THEN {r} ELSE TestFrom(E, TT, RT, i + 1, ignore, r) :
                r \in LearnStateData(E, TT[i], RT[i], i, acc)}

\* The pairs of traces the automaton accepts.
Accepts(E, T, R) == \E r \in LearnStateData(E, T, R, 1, [ok |-> TRUE, sd |-> {}, reach |-> {}]) : r.ok

-----------------------------------------------------------------------------------
\* get_edge_reachable_states (499-521): states reachable from the start state,
\* never through the fail state.
RECURSIVE ReachFrom(_, _)
ReachFrom(E, S) ==
  LET S2 == S \cup ({e.to : e \in {f \in E : f.from \in S}} \ {Fail})
  IN IF S2 = S THEN S ELSE ReachFrom(E, S2)

GetEdgeReachableStates(E) == ReachFrom(E, {Start})

(***********************************************************************************)
(* get_cfg_fringe (523-598): the CFG paths from the state's block, extended one  *)
(* block at a time while they are a strict prefix of some edge's path on that    *)
(* side; the first extension that is not is a fringe path.                       *)
(***********************************************************************************)
RECURSIVE Fringe(_, _, _, _)
Fringe(c, safe, current, out) ==
  IF current = {} THEN out
  ELSE LET next == UNION {{cp \o <<b>> : b \in c.succ[Last(cp)]} : cp \in current}
           done == {np \in next : ~\E sp \in safe : IsStrictPrefix(np, sp)}
       IN Fringe(c, safe, next \ done, out \cup done)

GetCfgFringe(E, q, s) ==
  Fringe(Cfg(s), {Path(e, s) : e \in NextEdges(E, q)}, {<<Blk(q, s)>>}, {})

(***********************************************************************************)
(* compute_failure_edges (600-653): from every reachable state other than exit   *)
(* and fail, an edge to the fail state for every pair of fringe paths that no    *)
(* edge's paths are prefixes of.                                                 *)
(***********************************************************************************)
ComputeFailureEdges(E) ==
  LET FailEdgesAt(q) ==
        {f \in [from : {q}, to : {Fail}, te : GetCfgFringe(E, q, "t"), re : GetCfgFringe(E, q, "r")] :
           ~\E e \in NextEdges(E, q) : IsEdgePrefix(e.te, f.te) /\ IsEdgePrefix(e.re, f.re)}
  IN UNION {FailEdgesAt(q) : q \in GetEdgeReachableStates(E) \ {Exit, Fail}}

-----------------------------------------------------------------------------------
ConcatDropRewrite(in, out) == [in EXCEPT !.to = out.to, !.te = @ \o out.te]

\* simplify (806-812): an edge into s followed by an edge out of it.
Concat(in, out) == [in EXCEPT !.to = out.to, !.te = @ \o out.te, !.re = @ \o out.re]

\* 801-825: s is replaced by the concatenations of its in- and out-edges.
Eliminate(E, s) ==
  (E \ (PrevEdges(E, s) \cup NextEdges(E, s)))
    \cup {Concat(i, o) : i \in PrevEdges(E, s), o \in NextEdges(E, s)}

\* std::set<State> order, which the loop walks backwards from rbegin().
StateLeq(a, b) == a[1] < b[1] \/ (a[1] = b[1] /\ a[2] <= b[2])

Eliminable(E) ==
  {s \in GetEdgeReachableStates(E) \ {Start, Exit} : ~HasSelfLoop(E, s)}

\* 785-828: the fixpoint that removes, largest first, every state off a self-loop.
RECURSIVE EliminateAll(_)
EliminateAll(E) ==
  IF Eliminable(E) = {} THEN E
  ELSE EliminateAll(Eliminate(E, CHOOSE s \in Eliminable(E) :
                                   \A t \in Eliminable(E) : StateLeq(t, s)))

\* simplify_edges (841-886): an edge of a reachable state is dropped when another
\* edge of that state, with the destination blocks appended, is a prefix of it.
SimplifyEdges(E) ==
  LET ExtPrefix(a, b) == \A s \in Sides : IsEdgePrefix(Ext(a, s), Ext(b, s))
  IN E \ {b \in E : /\ b.from \in GetEdgeReachableStates(E)
                    /\ \E a \in NextEdges(E, b.from) : a # b /\ ExtPrefix(a, b)}

\* simplify (776-839): both steps, again until neither changes anything.
RECURSIVE SimplifyFix(_)
SimplifyFix(E) ==
  LET E1 == EliminateAll(E)
      E2 == SimplifyEdges(E1)
  IN IF E1 = E /\ E2 = E1 THEN E ELSE SimplifyFix(E2)

(***********************************************************************************)
(* remove_prefixes (465-497): over the states reachable when it starts, an edge  *)
(* is removed when another edge of its state has paths that are prefixes of its  *)
(* paths, destinations not compared; then the search starts over.  Which pair    *)
(* the loops meet first depends on the order of the edge vectors, left open.     *)
(***********************************************************************************)
RECURSIVE RemovePrefixesFrom(_, _)
RemovePrefixesFrom(E, states) ==
  LET Removable(q) == {b \in NextEdges(E, q) :
                         \E a \in NextEdges(E, q) :
                            a # b /\ IsEdgePrefix(a.te, b.te) /\ IsEdgePrefix(a.re, b.re)}
      qs == {q \in states : Removable(q) # {}}
      q0 == CHOOSE q \in qs : \A p \in qs : StateLeq(q, p)
  IN IF qs = {} THEN {E}
     ELSE UNION {RemovePrefixesFrom(E \ {b}, states) : b \in Removable(q0)}

-----------------------------------------------------------------------------------
(***********************************************************************************)
(* in_scc (746-773) and one_program_cycle (704-744): a breadth-first search from  *)
(* s over next_states, or over the edges that leave one program's path empty,    *)
(* that answers true as soon as an edge leads back to s.  The search is taken a  *)
(* level at a time, which gives the same answer as the queue.                    *)
(***********************************************************************************)
NextStates(E, t) == {e.to : e \in NextEdges(E, t)}

RECURSIVE InSccFrom(_, _, _, _)
InSccFrom(E, s, visited, work) ==
  LET succ == UNION {NextStates(E, t) : t \in work}
  IN IF work = {} THEN FALSE
     ELSE s \in succ \/ InSccFrom(E, s, visited \cup succ, succ \ visited)

InSccDirect(E, s) == s \in NextStates(E, s)

InScc(E, s) == InSccFrom(E, s, {s}, {s})

\* The edges one_program_cycle follows: target-only edges (re empty) when
\* is_target, rewrite-only edges (te empty) otherwise.
OneSided(E, isTarget) == {e \in E : IF isTarget THEN e.re = <<>> ELSE e.te = <<>>}

OneProgramCycle(E, s, isTarget) == InScc(OneSided(E, isTarget), s)

-----------------------------------------------------------------------------------
VARIABLES
  edges,      \* next_edges_ / prev_edges_
  stateData,  \* target_state_data_ / rewrite_state_data_: <<state, testcase, t, r>>
  reach,      \* data_reachable_states_
  dataFresh,  \* the state data was learnt on the current edges
  failEdges,  \* <<F>>: what compute_failure_edges returned for the current edges
  tested,     \* <<b>>: what test_paa returned for the current edges
  cache       \* DataCollector::cache_, per Cfg

vars == <<edges, stateData, reach, dataFresh, failEdges, tested, cache>>

Init ==
  /\ edges = {}
  /\ stateData = {} /\ reach = {} /\ dataFresh = FALSE
  /\ failEdges = <<>> /\ tested = <<>>
  /\ cache = [s \in Sides |-> <<>>]

\* The automaton becomes E2: the state data stays as it was, and what the caller
\* was told about the old edges no longer applies.
SetEdges(E2) ==
  /\ edges' = E2
  /\ dataFresh' = (dataFresh /\ E2 = edges)
  /\ failEdges' = <<>> /\ tested' = <<>>
  /\ UNCHANGED <<stateData, reach, cache>>

\* add_edge (paa.h).
AddEdge == \E e \in CandidateEdges \ edges : SetEdges(edges \cup {e})

Simplify == \E E2 \in {SimplifyFix(edges)} : SetEdges(E2)

RemovePrefixes ==
  \E E2 \in RemovePrefixesFrom(edges, GetEdgeReachableStates(edges)) : SetEdges(E2)

FailureEdges ==
  /\ failEdges' = <<ComputeFailureEdges(edges)>>
  /\ UNCHANGED <<edges, stateData, reach, dataFresh, tested, cache>>

\* test_paa(dc, ignore_failures): data_reachable_states_ and the state data are
\* cleared; dc.get_traces fills the cache on first use.
TestPaa ==
  /\ \E ignore \in BOOLEAN :
       LET traces == [s \in Sides |-> IF cache[s] = <<>> THEN GetTraces(s) ELSE cache[s]]
       IN \E r \in TestFrom(edges, traces["t"], traces["r"], 1, ignore,
                            [ok |-> TRUE, sd |-> {}, reach |-> {}]) :
            /\ stateData' = r.sd
            /\ reach' = r.reach
            /\ tested' = <<r.ok>>
            /\ cache' = traces
  /\ dataFresh' = TRUE
  /\ UNCHANGED <<edges, failEdges>>

Next == AddEdge \/ Simplify \/ RemovePrefixes \/ FailureEdges \/ TestPaa

Spec == Init /\ [][Next]_vars

-----------------------------------------------------------------------------------
TypeOK ==
  /\ \A e \in edges \cup UNION Range(failEdges) : e.te \in Seq(DOMAIN Target.succ) /\ e.re \in Seq(DOMAIN Rewrite.succ)
  /\ reach \subseteq {d[1] : d \in stateData}
  /\ tested \in {<<>>, <<TRUE>>, <<FALSE>>}
  /\ \A s \in Sides : cache[s] \in {<<>>, GetTraces(s)}

\* The complete runs of a Cfg of at most MaxLen blocks.
RECURSIVE Runs(_, _)
Runs(c, p) ==
  IF c.succ[Last(p)] = {} \/ Len(p) >= MaxLen THEN {p}
  ELSE UNION {Runs(c, p \o <<b>>) : b \in c.succ[Last(p)]}

CompleteRuns(c) == {p \in Runs(c, <<c.entry>>) : Last(p) = c.exit}

Execs == CompleteRuns(Target) \X CompleteRuns(Rewrite)

\* Simplification never makes the automaton reject a pair of executions it
\* accepted: eliminating states (the concatenation of in- and out-edges) and
\* dropping edges that extend another keep every accepted pair accepted.
SimplifyKeepsAccepted ==
  [][Simplify => \A x \in Execs : Accepts(edges, x[1], x[2]) => Accepts(edges', x[1], x[2])]_vars

\* Reference for learn_state_data: the positions at which the two traces of
\* testcase i can be at each state, block by block along the edges.
Takes(e, T, R, t, r) ==
  /\ t + Len(e.te) <= Len(T) /\ r + Len(e.re) <= Len(R)
  /\ \A k \in 1..Len(e.te) : T[t + k - 1] = e.te[k]
  /\ \A k \in 1..Len(e.re) : R[r + k - 1] = e.re[k]
  /\ T[t + Len(e.te)] = e.to[1] /\ R[r + Len(e.re)] = e.to[2]

RECURSIVE AlignedFrom(_, _, _, _)
AlignedFrom(E, T, R, S) ==
  LET Steps(p) == {<<e.to, p[2] + Len(e.te), p[3] + Len(e.re)>> :
                      e \in {f \in E : f.from = p[1] /\ p[1] # Exit /\ Takes(f, T, R, p[2], p[3])}}
      S2 == S \cup UNION {Steps(p) : p \in S}
  IN IF S2 = S THEN S ELSE AlignedFrom(E, T, R, S2)

Aligned(E, i) ==
  AlignedFrom(E, MineData(Target, Tests[i].t), MineData(Rewrite, Tests[i].r), {<<Start, 1, 1>>})

\* The CpuStates learn_state_data files under a state, for the invariant learner,
\* are the states the testcase's two runs are in when the automaton, following
\* them, is at that state.
StateDataAligned ==
  dataFresh => \A d \in stateData : <<d[1], d[3], d[4]>> \in Aligned(edges, d[2])

\* Every pair of runs from a reachable state is checked by some obligation: it
\* follows an edge to that edge's destination blocks (the jump condition
\* check() adds for the last block), or it starts with a failure edge's paths.
RunsFrom(c, b) == Runs(c, <<b>>)

Fits(p, run) == IsEdgePrefix(p, run) \/ (Len(run) = MaxLen /\ IsEdgePrefix(run, p))

Covered(E, F) ==
  \A q \in GetEdgeReachableStates(E) \ {Exit, Fail} :
    \A tr \in RunsFrom(Target, q[1]), rr \in RunsFrom(Rewrite, q[2]) :
      \/ \E e \in NextEdges(E, q) : e.to # Fail /\ Fits(Ext(e, "t"), tr) /\ Fits(Ext(e, "r"), rr)
      \/ \E f \in F \cup PrevEdges(E, Fail) : f.from = q /\ Fits(f.te, tr) /\ Fits(f.re, rr)

Gr == INSTANCE Graphs

\* Reference for in_scc: q reaches itself along the edges E.
OnCycle(E, q) ==
  q \in Gr!Descendants([node |-> {e.from : e \in E} \cup {e.to : e \in E} \cup {q},
                        edge |-> {<<e.from, e.to>> : e \in E}], q)

\* in_scc, and one_program_cycle for either program, answer true for a state
\* exactly when it lies on a cycle of the automaton (of its one-sided edges):
\* the worklist search must follow paths of any length, not only self-loops.
CycleTestsAgree ==
  \A q \in GetEdgeReachableStates(edges) :
    /\ InScc(edges, q) <=> OnCycle(edges, q)
    /\ \A t \in BOOLEAN : OneProgramCycle(edges, q, t) <=> OnCycle(OneSided(edges, t), q)

\* compute_failure_edges covers every pair of runs the edges leave unchecked.
FailureEdgesCover == \A F \in Range(failEdges) : Covered(edges, F)
===================================================================================
