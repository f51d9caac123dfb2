--------------------------- MODULE IdentityService ---------------------------
(***************************************************************************)
(* create of packages/typescript/src/service.ts: calls that run            *)
(* concurrently against one storage, which does what AllocationStore       *)
(* promises but may fail, or commit and fail to say so.                    *)
(*                                                                         *)
(* A call mints its MID once, then awaits the storage: one allocate for a  *)
(* sequential namespace, up to MaxReferenceAttempts reserves for a random  *)
(* one.  The prefix and width of a namespace are its policy; MIDs are      *)
(* never generated twice.                                                  *)
(***************************************************************************)
EXTENDS Integers, Sequences

CONSTANTS
  Calls,        \* calls of create in flight
  Names,        \* what callers pass as namespace
  Namespaces,   \* the public prefixes in the registry
  Strategy,     \* namespace -> "none", "random", "sequence" or "calendar-year"
  Candidates,   \* namespace -> the random references it can draw
  Capacity,     \* namespace -> its largest number
  MaxReferenceAttempts,
  Served,       \* call -> the strategies its service has a storage for
  MachineIds,
  LastYear,     \* bound of the clock
  Nothing

Unscoped == 0
Years == 1..LastYear
Keys == Namespaces \X ({Unscoped} \cup Years)
References == UNION {Candidates[n] : n \in Namespaces}

Strategies == {"none", "random", "sequence", "calendar-year"}

ASSUME RegistryAssumption ==
  /\ Namespaces \subseteq Names
  /\ Strategy \in [Namespaces -> Strategies]
  /\ \A n, o \in Namespaces : n # o => Candidates[n] \cap Candidates[o] = {}
  /\ Capacity \in [Namespaces -> Nat]
\* A number, formatted with its namespace and scope or recorded by its key, is no
\* random reference: the texts start with the prefixes of different namespaces.
ASSUME NamesAssumption ==
  LET Numbers == Namespaces \X ({Unscoped} \cup Years) \X Nat IN
  /\ References \cap (Numbers \cup (Keys \X Nat)) = {}
  /\ Nothing \notin References \cup Numbers \cup (Namespaces \X MachineIds)
ASSUME OptionsAssumption ==
  /\ MaxReferenceAttempts \in 1..100
  /\ Served \in [Calls -> SUBSET (Strategies \ {"none"})]
  /\ LastYear \in Nat \ {0}

VARIABLES
  owner, policy, issued, \* the storage
  year,     \* the UTC year of the clock
  minted,   \* MIDs generated so far
  pc,       \* call -> what it awaits
  ns,       \* call -> its namespace
  mid,      \* call -> its MID
  scope,    \* call -> the scope it asked for
  attempt,  \* call -> refused candidates so far
  ref,      \* call -> its candidate, or the number the storage gave it
  outcome,  \* call -> how the last create ended
  returned, \* identities returned to callers
  lost      \* MIDs whose answer from the storage never arrived

storage == <<owner, policy, issued>>
vars == <<owner, policy, issued, year, minted, pc, ns, mid, scope, attempt, ref,
          outcome, returned, lost>>

Storage == INSTANCE AllocationStore WITH
  Policies <- Namespaces,
  Owners <- Namespaces \X MachineIds,
  Clash <- LAMBDA k, p, l, q : k[2] = l[2] /\ p = q

Outcomes == {"none", "identity", "unknown_namespace", "allocation_required",
             "invalid_allocation_policy", "allocation_exhausted", "storage_error"}

-----------------------------------------------------------------------------
\* A call ends.
End(c, how) ==
  /\ outcome' = [outcome EXCEPT ![c] = how]
  /\ pc' = [pc EXCEPT ![c] = "idle"]
  /\ ref' = [ref EXCEPT ![c] = Nothing]
  /\ attempt' = [attempt EXCEPT ![c] = 0]
  /\ UNCHANGED <<year, ns, mid, scope>>

Identity(n, m, r) == [ns |-> n, mid |-> m, ref |-> r]

(* create(name), up to its first await.  The clock is read once, here.       *)

Reject(c, name) ==
  /\ pc[c] = "idle"
  /\ \/ name \notin Namespaces /\ End(c, "unknown_namespace")
     \/ /\ name \in Namespaces
        /\ Strategy[name] \notin Served[c] \cup {"none"}
        /\ End(c, "allocation_required")
  /\ UNCHANGED <<storage, minted, returned, lost>>

\* The clock answers with no date, or one outside the years 0000..9999.
RejectClock(c, n, m) ==
  /\ pc[c] = "idle"
  /\ Strategy[n] = "calendar-year" /\ Strategy[n] \in Served[c]
  /\ minted' = minted \cup {m}
  /\ End(c, "invalid_allocation_policy")
  /\ UNCHANGED <<storage, returned, lost>>

CreateWithoutReference(c, n, m) ==
  /\ pc[c] = "idle"
  /\ Strategy[n] = "none"
  /\ minted' = minted \cup {m}
  /\ returned' = returned \cup {Identity(n, m, Nothing)}
  /\ End(c, "identity")
  /\ UNCHANGED <<storage, lost>>

ScopeOf(n) == IF Strategy[n] = "calendar-year" THEN year ELSE Unscoped

Create(c, n, m) ==
  /\ pc[c] = "idle"
  /\ Strategy[n] \in Served[c]
  /\ pc' = [pc EXCEPT ![c] = IF Strategy[n] = "random" THEN "draw" ELSE "allocate"]
  /\ minted' = minted \cup {m}
  /\ ns' = [ns EXCEPT ![c] = n]
  /\ mid' = [mid EXCEPT ![c] = m]
  /\ scope' = [scope EXCEPT ![c] = ScopeOf(n)]
  /\ outcome' = [outcome EXCEPT ![c] = "none"]
  /\ UNCHANGED <<storage, year, attempt, ref, returned, lost>>

-----------------------------------------------------------------------------
(* The storage commits; its answer is on the way. *)

Key(c) == <<ns[c], scope[c]>>

Answer(c, r) ==
  /\ pc' = [pc EXCEPT ![c] = "answered"]
  /\ ref' = [ref EXCEPT ![c] = r]
  /\ UNCHANGED <<year, minted, ns, mid, scope, attempt, outcome, returned, lost>>

CommitAllocation(c) ==
  /\ pc[c] = "allocate"
  /\ Storage!Allocate(Key(c), mid[c], ns[c])
  /\ Answer(c, Len(issued[Key(c)]) + 1)

\* A candidate is drawn and the storage is asked to reserve it.
DrawCandidate(c, r) ==
  /\ pc[c] = "draw"
  /\ r \in Candidates[ns[c]]
  /\ ref' = [ref EXCEPT ![c] = r]
  /\ pc' = [pc EXCEPT ![c] = "reserve"]
  /\ UNCHANGED <<storage, year, minted, ns, mid, scope, attempt, outcome, returned, lost>>

CommitReservation(c) ==
  /\ pc[c] = "reserve"
  /\ Storage!Reserve(ref[c], <<ns[c], mid[c]>>)
  /\ Answer(c, ref[c])

\* The loop goes on to its next round.
DrawAgain(c) ==
  /\ attempt' = [attempt EXCEPT ![c] = @ + 1]
  /\ pc' = [pc EXCEPT ![c] = "draw"]
  /\ UNCHANGED <<year, ns, mid, scope, ref, outcome>>

\* Mutant: one candidate too many.
RefuseOneTooMany(c) ==
  /\ pc[c] = "reserve"
  /\ owner[ref[c]] # Nothing
  /\ IF attempt[c] < MaxReferenceAttempts
     THEN DrawAgain(c)
     ELSE End(c, "allocation_exhausted")
  /\ UNCHANGED <<storage, minted, returned, lost>>

\* Mutant: refused candidates are not counted.
RefuseUncounted(c) ==
  /\ pc[c] = "reserve"
  /\ owner[ref[c]] # Nothing
  /\ pc' = [pc EXCEPT ![c] = "draw"]
  /\ UNCHANGED <<storage, year, ns, mid, scope, ref, outcome, attempt, minted,
                 returned, lost>>

\* The candidate has an owner: false, and the loop draws another one or gives up.
RefuseReservation(c) ==
  /\ pc[c] = "reserve"
  /\ owner[ref[c]] # Nothing
  /\ IF attempt[c] + 1 < MaxReferenceAttempts
     THEN DrawAgain(c)
     ELSE End(c, "allocation_exhausted")
  /\ UNCHANGED <<storage, minted, returned, lost>>

\* Mutant: the number is formatted with the year of the moment.
ReturnWithClock(c) ==
  /\ pc[c] = "answered"
  /\ returned' = returned \cup {Identity(ns[c], mid[c],
       IF Strategy[ns[c]] = "random" THEN ref[c]
       ELSE <<ns[c], IF scope[c] = Unscoped THEN Unscoped ELSE year, ref[c]>>)}
  /\ End(c, "identity")
  /\ UNCHANGED <<storage, minted, lost>>

\* Mutant: the number is formatted without its year.
ReturnWithoutScope(c) ==
  /\ pc[c] = "answered"
  /\ returned' = returned \cup {Identity(ns[c], mid[c],
       IF Strategy[ns[c]] = "random" THEN ref[c] ELSE <<ns[c], Unscoped, ref[c]>>)}
  /\ End(c, "identity")
  /\ UNCHANGED <<storage, minted, lost>>

\* Mutant: the last candidate counts as refused whatever the storage said.
ReturnUnlessLast(c) ==
  /\ pc[c] = "answered"
  /\ IF Strategy[ns[c]] = "random" /\ attempt[c] + 1 = MaxReferenceAttempts
     THEN End(c, "allocation_exhausted") /\ UNCHANGED returned
     ELSE /\ returned' = returned \cup {Identity(ns[c], mid[c],
               IF Strategy[ns[c]] = "random" THEN ref[c]
               ELSE <<ns[c], scope[c], ref[c]>>)}
          /\ End(c, "identity")
  /\ UNCHANGED <<storage, minted, lost>>

\* The identity is returned; a number is formatted with the call's own scope.
Return(c) ==
  /\ pc[c] = "answered"
  /\ returned' = returned \cup {Identity(ns[c], mid[c],
       IF Strategy[ns[c]] = "random" THEN ref[c] ELSE <<ns[c], scope[c], ref[c]>>)}
  /\ End(c, "identity")
  /\ UNCHANGED <<storage, minted, lost>>

\* Mutant: after an exception the loop draws another candidate.
ThrowAndDrawAgain(c) ==
  /\ pc[c] # "idle"
  /\ lost' = IF pc[c] = "answered" THEN lost \cup {mid[c]} ELSE lost
  /\ IF Strategy[ns[c]] = "random" /\ attempt[c] + 1 < MaxReferenceAttempts
     THEN DrawAgain(c)
     ELSE End(c, "storage_error")
  /\ UNCHANGED <<storage, minted, returned>>

\* The storage throws, or the source of random bytes: nothing was committed, or
\* the answer was lost.  create catches nothing.
Throw(c) ==
  /\ pc[c] # "idle"
  /\ lost' = IF pc[c] = "answered" THEN lost \cup {mid[c]} ELSE lost
  /\ End(c, "storage_error")
  /\ UNCHANGED <<storage, minted, returned>>

NewYear ==
  /\ year < LastYear
  /\ year' = year + 1
  /\ UNCHANGED <<storage, minted, pc, ns, mid, scope, attempt, ref, outcome,
                 returned, lost>>

Init ==
  /\ Storage!Init
  /\ year = 1
  /\ minted = {}
  /\ pc = [c \in Calls |-> "idle"]
  /\ ns = [c \in Calls |-> Nothing]
  /\ mid = [c \in Calls |-> Nothing]
  /\ scope = [c \in Calls |-> Unscoped]
  /\ attempt = [c \in Calls |-> 0]
  /\ ref = [c \in Calls |-> Nothing]
  /\ outcome = [c \in Calls |-> "none"]
  /\ returned = {}
  /\ lost = {}

\* The storage or the service moves a call on.
Proceed(c) ==
  \/ CommitAllocation(c)
  \/ \E r \in References : DrawCandidate(c, r)
  \/ CommitReservation(c) \/ RefuseReservation(c)
  \/ Return(c) \/ Throw(c)

Next ==
  \/ \E c \in Calls :
       \/ \E name \in Names : Reject(c, name)
       \/ \E n \in Namespaces, m \in MachineIds \ minted :
            \/ CreateWithoutReference(c, n, m) \/ Create(c, n, m)
            \/ RejectClock(c, n, m)
       \/ Proceed(c)
  \/ NewYear

Spec == Init /\ [][Next]_vars

\* The storage answers every request or throws, and the awaiting call resumes.
FairSpec == Spec /\ \A c \in Calls : WF_vars(Proceed(c))

-----------------------------------------------------------------------------
(* Properties *)

\* Every variable keeps its type; no call draws more candidates than allowed.
TypeOK ==
  /\ owner \in [References -> (Namespaces \X MachineIds) \cup {Nothing}]
  /\ policy \in [Keys -> Namespaces \cup {Nothing}]
  /\ issued \in [Keys -> Seq(MachineIds)]
  /\ year \in Years
  /\ minted \subseteq MachineIds
  /\ pc \in [Calls -> {"idle", "draw", "reserve", "allocate", "answered"}]
  /\ ns \in [Calls -> Namespaces \cup {Nothing}]
  /\ mid \in [Calls -> MachineIds \cup {Nothing}]
  /\ scope \in [Calls -> {Unscoped} \cup Years]
  /\ attempt \in [Calls -> 0..(MaxReferenceAttempts - 1)]
  /\ ref \in [Calls -> References \cup Nat \cup {Nothing}]
  /\ outcome \in [Calls -> Outcomes]
  /\ lost \subseteq minted

\* What the storage holds for a MID: random references and numbers.
Held(m) ==
  {r \in References : owner[r] # Nothing /\ owner[r][2] = m}
    \cup UNION {{<<k, i>> : i \in {j \in 1..Len(issued[k]) : issued[k][j] = m}} :
                 k \in Keys}

InFlight == {mid[c] : c \in {d \in Calls : pc[d] # "idle"}}

\* A returned identity is what the storage recorded for its MID, and a number is
\* formatted with the year whose counter issued it, although the clock may have
\* moved on while create awaited the allocator (service.ts:155-174).
ReturnedIsStored ==
  \A i \in returned :
    CASE Strategy[i.ns] = "none" -> Held(i.mid) = {}
      [] Strategy[i.ns] = "random" ->
           Held(i.mid) = {i.ref} /\ owner[i.ref] = <<i.ns, i.mid>>
      [] OTHER ->
           LET k == <<i.ns, i.ref[2]>> IN
           Held(i.mid) = {<<k, i.ref[3]>>} /\ i.ref[3] <= Capacity[i.ns]

\* No two identities share a MID or a reference, across all concurrent calls
\* (SPEC.md:76-78: uniqueness rests on the storage alone).
NamesAreUnique ==
  \A i, j \in returned :
    (i.mid = j.mid \/ (i.ref = j.ref /\ i.ref # Nothing)) => i = j

\* A MID never holds two references: candidates drawn after a refusal are for
\* the same MID, none is drawn after a success, and an exception ends the call
\* (service.ts:186-207).
OneReferencePerMid == \A m \in MachineIds : \A r, s \in Held(m) : r = s

\* A reference no caller was given is one whose answer was lost: calls that
\* end for any other reason, exhaustion included, leave nothing in the storage.
UnusedOnlyAfterLostAnswer ==
  \A m \in MachineIds :
    Held(m) # {} => m \in InFlight \cup lost \cup {i.mid : i \in returned}

\* Whatever the storage answers, create ends: the candidates are bounded
\* (spec/security.md:22).
EveryCallEnds == \A c \in Calls : pc[c] # "idle" ~> pc[c] = "idle"
=============================================================================
