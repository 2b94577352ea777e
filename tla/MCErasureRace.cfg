CONSTANTS
  a1 = a1
  a2 = a2
  c1 = c1
  c2 = c2
  adopter = adopter
  pet = pet
  Idle = Idle
  Apps <- MCApps
  Adopter <- MCAdopter
  Pet <- MCPet
  Runners <- MCRunners
  VisitOutcomes <- MCOutcomes
  MaxVersion <- MCMaxVersion
SPECIFICATION Spec
INVARIANT ReadModelIsFold
