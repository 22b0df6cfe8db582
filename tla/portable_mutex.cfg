CONSTANTS Contexts = {main, a, b}
          Increments = 2
SPECIFICATION Spec
INVARIANT MutualExclusion
INVARIANT NoSleeperForgotten
PROPERTY ImplementsAtomicCounter
PROPERTY EveryContextFinishes
CHECK_DEADLOCK FALSE
