SPECIFICATION FairSpec
CONSTANTS
  a = a  b = b
  m1 = m1  m2 = m2  m3 = m3
  plain = plain  order = order  ticket = ticket  invoice = invoice  other = other
  r1 = r1  r2 = r2
  Nothing = Nothing
  Calls = {a, b}
  Names = {plain, order, ticket, invoice, other}
  Namespaces = {plain, order, ticket, invoice}
  Strategy <- MCStrategy
  Candidates <- MCCandidates
  Capacity <- MCCapacity
  MaxReferenceAttempts = 2
  Served <- MCServed
  MachineIds = {m1, m2, m3}
  LastYear = 2
INVARIANTS
  TypeOK
  ReturnedIsStored
  NamesAreUnique
  OneReferencePerMid
  UnusedOnlyAfterLostAnswer
PROPERTIES
  EveryCallEnds
CHECK_DEADLOCK FALSE
