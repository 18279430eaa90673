\* A path through a jcc whose target is the next block: build_circuit
\* constrains the condition to false, although both outcomes run the path.
CONSTANTS
  Code <- MCCode
  MaxLen = 5
SPECIFICATION Spec
INVARIANT PathConditionComplete
\* verify_pair's loop stops after the last block of P.
CHECK_DEADLOCK FALSE
