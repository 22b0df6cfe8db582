CONSTANTS Contexts <- MCContexts
          Increments = 2
SPECIFICATION Spec
INVARIANT MutualExclusion
INVARIANT NoSleeperForgotten
INVARIANT CountIsExact
PROPERTY ImplementsAtomicCounter
PROPERTY TestCompletes
CHECK_DEADLOCK FALSE
