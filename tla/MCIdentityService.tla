-------------------------- MODULE MCIdentityService --------------------------
(* Instances of IdentityService for TLC. *)
EXTENDS IdentityService, TLC

CONSTANTS a, b, m1, m2, m3, plain, order, ticket, invoice, other, r1, r2

\* A namespace without references, one with two random ones, and two with
\* counters, of which one starts anew each year.
MCStrategy ==
  plain :> "none" @@ order :> "random" @@ ticket :> "sequence"
    @@ invoice :> "calendar-year"
MCCandidates ==
  plain :> {} @@ order :> {r1, r2} @@ ticket :> {} @@ invoice :> {}

\* a runs in a service with both storages, b in one without a referenceStore.
MCServed ==
  a :> {"random", "sequence", "calendar-year"} @@ b :> {"sequence", "calendar-year"}

MCCapacity == plain :> 0 @@ order :> 0 @@ ticket :> 1 @@ invoice :> 2
=============================================================================
