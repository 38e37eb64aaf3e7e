SPECIFICATION FairSpec
CONSTANTS
  Methods = {"linux", "macos", "pipes", "shm", "threads"}
  Iterations = {0, 1, 4}
INVARIANTS TypeOK SampleOfItsRound ChildDoesAll
PROPERTIES ImplementsHandoff BothEnd
