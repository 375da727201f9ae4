SPECIFICATION Spec
CONSTANTS
  Threads = {t1, t2}
  Callables = {f}
  Arity <- MCArity
  MaxContexts = 2
  MaxDepth = 2
  MaxKnown = 3
INVARIANTS
  TraceMeansTheFunction
  StackHoldsOpenTraces
  TablesAreInverse
SYMMETRY Symmetry
CHECK_DEADLOCK FALSE
