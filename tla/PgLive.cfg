SPECIFICATION FairSpec
CONSTANTS
  s1 = s1  s2 = s2  s3 = s3
  m1 = m1  m2 = m2  m3 = m3
  n1 = n1  n2 = n2
  p1 = p1  p2 = p2
  r1 = r1  r2 = r2
  NoRow = NoRow
  Sessions = {s1, s2}
  CallerTx = {s1, s2}
  Namespaces = {n1, n2}
  Scopes = {""}
  Prefixes = {p1, p2}
  Widths = {4, 5}
  ValidWidths = {4, 5}
  Capacity <- MCCapacity
  MachineIds = {m1, m2}
  References = {r1, r2}
  Reservations <- NoReservations
  Requests <- DeadlockRequests
  Versions = {"003"}
PROPERTIES
  EveryStatementEnds
