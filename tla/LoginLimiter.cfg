SPECIFICATION FairSpec
CONSTANTS
  Clients = {c1, c2, c3}
  Attempts = {a1, a2, a3, a4}
  Limit = 2
  MaxClients = 2
  Window = 2
INVARIANTS
  GuessesAreBounded
  SlotsAreAccounted
  TableIsBounded
PROPERTY LockoutEnds
