SPECIFICATION Spec
CONSTANTS
  c1 = c1  c2 = c2
  m1 = m1  m2 = m2
  n1 = n1  n2 = n2
  p1 = p1  p2 = p2
  r1 = r1
  NoRow = NoRow
  Nobody = Nobody
  Connections = {c1}
  Port <- UnwindingPort
  Namespaces = {n1, n2}
  Scopes = {""}
  Prefixes = {p1, p2}
  Widths = {3, 4, 5}
  ValidWidths = {4, 5}
  Capacity <- MCCapacity
  MachineIds = {m1, m2}
  References = {r1}
  Reservations <- MCReservations
  Requests <- MCRequests
PROPERTIES
  CallersTransactionIsTheirs
