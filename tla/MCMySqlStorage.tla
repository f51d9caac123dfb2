---------------------------- MODULE MCMySqlStorage ----------------------------
(* Instances of MySqlStorage for TLC. *)
EXTENDS MySqlStorage, TLC

CONSTANTS c1, c2, m1, m2, n1, n2, p1, p2, r1

\* Two widths stand for 4..18, with room for two values and for one.
MCCapacity == 4 :> 2 @@ 5 :> 1

OneCounter == <<n1, "">>
OtherCounter == <<n2, "">>

Asks(k, mids, prefix, width) ==
  {[key |-> k, mid |-> m, prefix |-> prefix, width |-> width] : m \in mids}

\* A counter with room for one or two numbers, wanted by two MIDs, also with an
\* invalid width, and its prefix wanted by another namespace.
MCRequests ==
  Asks(OneCounter, {m1, m2}, p1, 4) \cup Asks(OneCounter, {m1, m2}, p1, 5)
    \cup Asks(OneCounter, {m1}, p1, 3) \cup Asks(OtherCounter, {m1}, p1, 4)

OneReservation == [ref : {r1}, ns : {n1}, mid : {m1}]

MCPort == c1 :> Procedural @@ c2 :> Procedural
SwiftPort == c1 :> Swift
=============================================================================
