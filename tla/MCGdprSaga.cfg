CONSTANTS
  pets = pets
  rescue = rescue
  a1 = a1
  Services <- MCServices
  EmailKeyed <- MCNoneEmailKeyed
  EmailKnown = TRUE
  Sweepers <- MCSweepers
  MaxRetries = 1
  MaxFaults = 2
SPECIFICATION FairSpec
INVARIANTS
  TypeOK
  CompletedMeansErased
  ErasureLeavesATrace
PROPERTIES
  ImplementsRecord
  StallSurfaces
  CleanRunCompletes
