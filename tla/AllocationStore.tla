--------------------------- MODULE AllocationStore ---------------------------
(***************************************************************************)
(* What every storage adapter promises (conformance/storage/contract.md    *)
(* and the ReferenceStore and SequenceAllocator interfaces of              *)
(* packages/typescript/src/service.ts): a reference is owned by the first  *)
(* reservation that commits, and each counter is a log of distinct MIDs,   *)
(* whose n-th entry holds the number n, under one policy for good.         *)
(***************************************************************************)
EXTENDS Integers, Sequences

CONSTANTS
  Keys,         \* counters: (namespace, scope)
  Policies,     \* (prefix, width)
  Capacity,     \* policy -> its largest number
  MachineIds,
  References,
  Owners,       \* (namespace, MID)
  Clash(_, _, _, _), \* may two counters not have these policies together?
  Nothing

VARIABLES
  owner,    \* reference -> its owner or Nothing
  policy,   \* counter -> its policy or Nothing
  issued    \* counter -> the MIDs that have its numbers 1, 2, ...

vars == <<owner, policy, issued>>

Init ==
  /\ owner = [r \in References |-> Nothing]
  /\ policy = [k \in Keys |-> Nothing]
  /\ issued = [k \in Keys |-> <<>>]

Numbered(m, k) == \E n \in 1..Len(issued[k]) : issued[k][n] = m

\* The first reservation of a reference; any later one changes nothing.
Reserve(r, o) ==
  /\ owner[r] = Nothing
  /\ owner' = [owner EXCEPT ![r] = o]
  /\ UNCHANGED <<policy, issued>>

\* A new MID gets the next number; a replay changes nothing.
Allocate(k, m, p) ==
  /\ policy[k] \in {Nothing, p}
  /\ \A l \in Keys \ {k} : policy[l] # Nothing => ~Clash(k, p, l, policy[l])
  /\ ~Numbered(m, k)
  /\ Len(issued[k]) < Capacity[p]
  /\ policy' = [policy EXCEPT ![k] = p]
  /\ issued' = [issued EXCEPT ![k] = Append(@, m)]
  /\ UNCHANGED owner

Next ==
  \/ \E r \in References, o \in Owners : Reserve(r, o)
  \/ \E k \in Keys, m \in MachineIds, p \in Policies : Allocate(k, m, p)

Spec == Init /\ [][Next]_vars

\* A caller that runs several calls in one transaction commits them together:
\* owners stay, policies stay, and every log grows at its end by new MIDs.
Transaction ==
  /\ \A r \in References :
       /\ owner[r] # Nothing => owner'[r] = owner[r]
       /\ owner'[r] \in Owners \cup {Nothing}
  /\ \A k \in Keys :
       /\ policy[k] # Nothing => policy'[k] = policy[k]
       /\ policy'[k] = Nothing => issued'[k] = <<>>
       /\ Len(issued[k]) <= Len(issued'[k])
       /\ issued[k] = SubSeq(issued'[k], 1, Len(issued[k]))
       /\ \A i, j \in 1..Len(issued'[k]) : issued'[k][i] = issued'[k][j] => i = j
       /\ policy'[k] # Nothing => Len(issued'[k]) <= Capacity[policy'[k]]
  /\ \A k, l \in Keys :
       (k # l /\ policy'[k] # Nothing /\ policy'[l] # Nothing)
         => ~Clash(k, policy'[k], l, policy'[l])

BatchSpec == Init /\ [][Transaction]_vars
=============================================================================
