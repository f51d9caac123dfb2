-------------------------- MODULE MCPostgresStorage --------------------------
(* Instances of PostgresStorage for TLC. *)
EXTENDS PostgresStorage, TLC

CONSTANTS s1, s2, s3, m1, m2, m3, n1, n2, p1, p2, r1, r2

\* Two widths stand for 4..18, with room for two values and for one; a third
\* is outside the range.
MCCapacity == 4 :> 2 @@ 5 :> 1

OneCounter == <<n1, "">>
OtherCounter == <<n2, "">>

Asks(k, mids, prefix, width) ==
  {[key |-> k, mid |-> m, prefix |-> prefix, width |-> width] : m \in mids}

\* Three MIDs fight for a counter with room for two.
RaceRequests == Asks(OneCounter, {m1, m2, m3}, p1, 4)

\* Two namespaces, one of which also claims the other's prefix, a changed
\* width and an invalid width.
PolicyRequests ==
  Asks(OneCounter, {m1, m2}, p1, 4) \cup Asks(OneCounter, {m1}, p1, 5)
    \cup Asks(OtherCounter, {m1}, p1, 4) \cup Asks(OtherCounter, {m2}, p2, 5)
    \cup Asks(OneCounter, {m2}, p1, 3)

\* Two counters a caller's transaction may lock in either order.
DeadlockRequests ==
  Asks(OneCounter, {m1}, p1, 4) \cup Asks(OtherCounter, {m1}, p2, 4)

\* The calls made while the function is replaced: two MIDs want the only number
\* of a counter, one of them with two widths.
MigrationRequests ==
  Asks(OneCounter, {m1}, p1, 4) \cup Asks(OneCounter, {m1, m2}, p1, 5)

\* Two MIDs fight for one reference.
RaceReservations == [ref : {r1}, ns : {n1}, mid : {m1, m2}]
NoReservations == {}
=============================================================================
