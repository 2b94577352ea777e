CONSTANTS
  notice = notice
  again = again
  other = other
  k1 = k1
  k2 = k2
  w1 = w1
  w2 = w2
  Mail <- MCMail
  Keys <- MCKeys
  KeyOf <- MCKeyOf
  NoticeMail <- MCNoticeMail
  Unsteady <- MCUnsteady
  OwnedMail <- MCOwnedMail
  Rank <- MCRank
  Workers <- MCWorkers
  BatchSize = 2
  MaxRetries = 2
SPECIFICATION FairSpec
INVARIANTS
  TypeOK
  AttemptBudget
PROPERTIES
  ImplementsMailroom
  SettledForGood
  QueueDrains
