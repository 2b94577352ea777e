CONSTANTS
  r1 = r1
  r2 = r2
  r3 = r3
  code1 = code1
  NoCode = NoCode
  Nobody = Nobody
  Requests <- MCRequests
  Codes <- MCCodes
  MaxTokens = 4
SPECIFICATION Spec
INVARIANT RevokedForGood
