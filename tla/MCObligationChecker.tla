------------------------- MODULE MCObligationChecker -------------------------
EXTENDS ObligationChecker

MCObjs == {"inv1", "inv2"}

\* Solver errors the pass run admits: the short circuit and the final query.
MCFallible == {"shortcircuit", "solve"}

\* ... and the run that lets the ARM sanity query fail too.
MCFallibleSanity == {"shortcircuit", "solve", "sanity"}
=============================================================================
