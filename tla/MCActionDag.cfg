\* Every dependency function over three actions, with self-dependencies,
\* unknown ids, cycles and mislabelled nodes.
SPECIFICATION Spec
CONSTANTS
  NumActions = 3
  Inputs <- AllInputs
INVARIANTS
  AcceptsExactlyDags
  OrderIsTopological
