CONSTANTS
  pets = pets
  rescue = rescue
  a1 = a1
  Services <- MCServices
  EmailKeyed <- MCEmailKeyed
  EmailKnown = TRUE
  Sweepers <- MCSweepers
  MaxRetries = 1
  MaxFaults = 1
SPECIFICATION Spec
INVARIANT CompletedMeansEmailErased
