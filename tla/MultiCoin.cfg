\* The whole process: every configuration, signals and failures at every step.
SPECIFICATION FairSpec
CONSTANTS
  MaxConns = 2
INVARIANTS TypeOK RunWaits FilesClosed
PROPERTIES ImplementsService Terminates
