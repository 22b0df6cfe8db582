CONSTANTS Contexts <- MCContexts
          Increments = 1
SPECIFICATION Spec
INVARIANT ObservationIsSound
CHECK_DEADLOCK FALSE
