------------------------ MODULE IdentityServiceProofs ------------------------
(***************************************************************************)
(* What IdentityService guarantees for every number of calls, namespaces,  *)
(* candidates and MIDs, and for every way the storage fails.               *)
(***************************************************************************)
EXTENDS IdentityService, TLAPS

-----------------------------------------------------------------------------
(* The inductive invariant. *)

Sequential(n) == Strategy[n] \in {"sequence", "calendar-year"}

\* Held, for the owners o and logs s of some moment.
HeldIn(o, s, m) ==
  {r \in References : o[r] # Nothing /\ o[r][2] = m}
    \cup UNION {{<<k, i>> : i \in {j \in 1..Len(s[k]) : s[k][j] = m}} : k \in Keys}

\* Identity i is what a storage with owners o and logs s has for its MID.
StoredIn(o, s, i) ==
  /\ i.ns \in Namespaces
  /\ Strategy[i.ns] = "none" => i.ref = Nothing /\ HeldIn(o, s, i.mid) = {}
  /\ Strategy[i.ns] = "random" =>
       /\ i.ref \in References
       /\ HeldIn(o, s, i.mid) = {i.ref}
       /\ o[i.ref] = <<i.ns, i.mid>>
  /\ Sequential(i.ns) =>
       \E y \in {Unscoped} \cup Years, n \in Nat :
         /\ i.ref = <<i.ns, y, n>>
         /\ HeldIn(o, s, i.mid) = {<< <<i.ns, y>>, n >>}
         /\ n <= Capacity[i.ns]

\* The identity a call is about to return.
Result(c) ==
  Identity(ns[c], mid[c],
    IF Strategy[ns[c]] = "random" THEN ref[c] ELSE <<ns[c], scope[c], ref[c]>>)

\* A call in progress has a MID nobody has heard of, which holds nothing until
\* the storage has answered.
CallFits(c) ==
  pc[c] # "idle" =>
    /\ ns[c] \in Namespaces
    /\ mid[c] \in minted
    /\ mid[c] \notin lost
    /\ \A i \in returned : i.mid # mid[c]
    /\ pc[c] \in {"draw", "reserve"} => Strategy[ns[c]] = "random"
    /\ pc[c] = "allocate" => Sequential(ns[c])
    /\ pc[c] = "reserve" => ref[c] \in Candidates[ns[c]]
    /\ pc[c] # "answered" => HeldIn(owner, issued, mid[c]) = {}
    /\ pc[c] = "answered" => StoredIn(owner, issued, Result(c))

\* Somebody has heard of a MID, or will, or its answer was lost.
Known(m) ==
  \/ \E c \in Calls : pc[c] # "idle" /\ mid[c] = m
  \/ m \in lost
  \/ \E i \in returned : i.mid = m

CallsInv ==
  /\ \A c \in Calls : CallFits(c)
  /\ \A c, d \in Calls :
       (c # d /\ pc[c] # "idle" /\ pc[d] # "idle") => mid[c] # mid[d]

ReturnedInv ==
  /\ \A i \in returned : i.mid \in minted /\ StoredIn(owner, issued, i)
  /\ \A i, j \in returned : i.mid = j.mid => i = j

StorageInv ==
  /\ \A k \in Keys : Len(issued[k]) <= Capacity[k[1]]
  /\ \A m \in MachineIds \ minted : HeldIn(owner, issued, m) = {}
  /\ \A m \in MachineIds : \A r, s \in HeldIn(owner, issued, m) : r = s
  /\ \A m \in MachineIds : HeldIn(owner, issued, m) # {} => Known(m)

IInv == TypeOK /\ CallsInv /\ ReturnedInv /\ StorageInv

-----------------------------------------------------------------------------
(* What a MID holds. *)

LEMMA HeldNow == \A m : Held(m) = HeldIn(owner, issued, m)
  BY DEF Held, HeldIn

\* A number belongs to one MID.
LEMMA NumberHasOneOwner ==
  ASSUME NEW k \in Keys, NEW n \in Nat, NEW x, NEW y,
         <<k, n>> \in HeldIn(owner, issued, x), <<k, n>> \in HeldIn(owner, issued, y)
  PROVE  x = y
  <1>1. <<k, n>> \notin References
    BY NamesAssumption
  <1>2. ASSUME NEW z, <<k, n>> \in HeldIn(owner, issued, z)
        PROVE  issued[k][n] = z
    <2>1. \E l \in Keys : \E i \in 1..Len(issued[l]) :
            <<k, n>> = <<l, i>> /\ issued[l][i] = z
      BY <1>1, <1>2 DEF HeldIn
    <2>2. QED
      BY <2>1
  <1>3. QED
    BY <1>2

\* No number is a random reference.
LEMMA NumbersAreNoReferences ==
  \A n \in Namespaces, y \in {Unscoped} \cup Years, l \in Nat :
    <<n, y, l>> \notin References
  BY NamesAssumption

\* An owner is somebody.
LEMMA OwnersAreSomebody ==
  \A n \in Namespaces, m \in MachineIds : <<n, m>> # Nothing
  BY NamesAssumption

\* Sets are equal if they have the same members.
LEMMA SameMembers ==
  ASSUME NEW S, NEW T, \A x : x \in S <=> x \in T
  PROVE  S = T
  OBVIOUS

\* A reservation gives its owner one reference, and nobody else anything.
LEMMA HeldReserve ==
  ASSUME NEW r \in References, owner[r] = Nothing,
         NEW n \in Namespaces, NEW m \in MachineIds, owner'[r] = <<n, m>>,
         \A q \in References \ {r} : owner'[q] = owner[q]
  PROVE  /\ HeldIn(owner', issued, m) = HeldIn(owner, issued, m) \cup {r}
         /\ \A x : x # m => HeldIn(owner', issued, x) = HeldIn(owner, issued, x)
  <1>1. /\ owner'[r] = <<n, m>> /\ owner'[r][2] = m /\ owner'[r] # Nothing
        /\ \A q \in References : q # r => owner'[q] = owner[q]
    BY OwnersAreSomebody
  <1>2. ASSUME NEW x, NEW y
        PROVE  y \in HeldIn(owner', issued, x) <=>
                 y \in HeldIn(owner, issued, x) \/ (x = m /\ y = r)
    <2>1. y \in HeldIn(owner', issued, x) <=>
            \/ y \in References /\ owner'[y] # Nothing /\ owner'[y][2] = x
            \/ \E k \in Keys : \E i \in 1..Len(issued[k]) :
                   y = <<k, i>> /\ issued[k][i] = x
      BY DEF HeldIn
    <2>2. y \in HeldIn(owner, issued, x) <=>
            \/ y \in References /\ owner[y] # Nothing /\ owner[y][2] = x
            \/ \E k \in Keys : \E i \in 1..Len(issued[k]) :
                   y = <<k, i>> /\ issued[k][i] = x
      BY DEF HeldIn
    <2>3. (y \in References /\ owner'[y] # Nothing /\ owner'[y][2] = x) <=>
            \/ y \in References /\ owner[y] # Nothing /\ owner[y][2] = x
            \/ x = m /\ y = r
      BY <1>1
    <2>4. QED
      BY <2>1, <2>2, <2>3
  <1>3. /\ \A y : y \in HeldIn(owner', issued, m)
                   <=> y \in HeldIn(owner, issued, m) \cup {r}
        /\ \A x : x # m =>
              \A y : y \in HeldIn(owner', issued, x) <=> y \in HeldIn(owner, issued, x)
    BY <1>2
  <1>4. HeldIn(owner', issued, m) = HeldIn(owner, issued, m) \cup {r}
    <2> DEFINE S == HeldIn(owner', issued, m)
               T == HeldIn(owner, issued, m) \cup {r}
    <2>1. \A y : y \in S <=> y \in T
      BY <1>3
    <2> HIDE DEF S, T
    <2>2. S = T
      BY <2>1, SameMembers
    <2>3. QED
      BY <2>2 DEF S, T
  <1>5. ASSUME NEW x, x # m PROVE HeldIn(owner', issued, x) = HeldIn(owner, issued, x)
    <2> DEFINE S == HeldIn(owner', issued, x)
               T == HeldIn(owner, issued, x)
    <2>1. \A y : y \in S <=> y \in T
      BY <1>3, <1>5
    <2> HIDE DEF S, T
    <2>2. S = T
      BY <2>1, SameMembers
    <2>3. QED
      BY <2>2 DEF S, T
  <1>6. QED
    BY <1>4, <1>5

\* A number is given to one MID, at the end of one log.
LEMMA HeldAllocate ==
  ASSUME issued \in [Keys -> Seq(MachineIds)], NEW k \in Keys,
         NEW m \in MachineIds, issued' = [issued EXCEPT ![k] = Append(@, m)]
  PROVE  /\ HeldIn(owner, issued', m) =
              HeldIn(owner, issued, m) \cup {<<k, Len(issued[k]) + 1>>}
         /\ \A x : x # m => HeldIn(owner, issued', x) = HeldIn(owner, issued, x)
  <1>1. /\ issued'[k] = Append(issued[k], m)
        /\ \A l \in Keys : l # k => issued'[l] = issued[l]
    OBVIOUS
  <1>2. /\ issued[k] \in Seq(MachineIds) /\ Len(issued[k]) \in Nat
        /\ Len(issued'[k]) = Len(issued[k]) + 1
        /\ \A i \in 1..Len(issued[k]) : issued'[k][i] = issued[k][i]
        /\ issued'[k][Len(issued[k]) + 1] = m
    BY <1>1
  <1>3. ASSUME NEW x, NEW y
        PROVE  y \in HeldIn(owner, issued', x) <=>
                 \/ y \in HeldIn(owner, issued, x)
                 \/ (x = m /\ y = <<k, Len(issued[k]) + 1>>)
    <2>1. y \in HeldIn(owner, issued', x) <=>
            \/ y \in References /\ owner[y] # Nothing /\ owner[y][2] = x
            \/ \E l \in Keys : \E i \in 1..Len(issued'[l]) :
                   y = <<l, i>> /\ issued'[l][i] = x
      BY DEF HeldIn
    <2>2. y \in HeldIn(owner, issued, x) <=>
            \/ y \in References /\ owner[y] # Nothing /\ owner[y][2] = x
            \/ \E l \in Keys : \E i \in 1..Len(issued[l]) :
                   y = <<l, i>> /\ issued[l][i] = x
      BY DEF HeldIn
    <2>3. ASSUME NEW l \in Keys, NEW i \in 1..Len(issued'[l]),
                 y = <<l, i>>, issued'[l][i] = x
          PROVE  \/ \E j \in 1..Len(issued[l]) : y = <<l, j>> /\ issued[l][j] = x
                 \/ x = m /\ y = <<k, Len(issued[k]) + 1>>
      <3>1. CASE l # k
        BY <1>1, <2>3, <3>1
      <3>2. CASE l = k /\ i \in 1..Len(issued[k])
        BY <1>2, <2>3, <3>2
      <3>3. CASE l = k /\ i = Len(issued[k]) + 1
        BY <1>2, <2>3, <3>3
      <3>4. QED
        BY <1>2, <3>1, <3>2, <3>3
    <2>4. ASSUME NEW l \in Keys, NEW i \in 1..Len(issued[l]),
                 y = <<l, i>>, issued[l][i] = x
          PROVE  \E j \in 1..Len(issued'[l]) : y = <<l, j>> /\ issued'[l][j] = x
      <3>1. CASE l # k
        BY <1>1, <2>4, <3>1
      <3>2. CASE l = k
        BY <1>2, <2>4, <3>2
      <3>3. QED
        BY <3>1, <3>2
    <2>5. ASSUME x = m, y = <<k, Len(issued[k]) + 1>>
          PROVE  \E j \in 1..Len(issued'[k]) : y = <<k, j>> /\ issued'[k][j] = x
      <3>1. Len(issued[k]) + 1 \in 1..Len(issued'[k])
        BY <1>2
      <3>2. QED
        BY <1>2, <2>5, <3>1
    <2>6. QED
      BY <2>1, <2>2, <2>3, <2>4, <2>5
  <1>4. /\ \A y : y \in HeldIn(owner, issued', m)
                   <=> y \in HeldIn(owner, issued, m) \cup {<<k, Len(issued[k]) + 1>>}
        /\ \A x : x # m =>
              \A y : y \in HeldIn(owner, issued', x) <=> y \in HeldIn(owner, issued, x)
    BY <1>3
  <1>5. HeldIn(owner, issued', m) =
              HeldIn(owner, issued, m) \cup {<<k, Len(issued[k]) + 1>>}
    <2> DEFINE S == HeldIn(owner, issued', m)
               T == HeldIn(owner, issued, m) \cup {<<k, Len(issued[k]) + 1>>}
    <2>1. \A y : y \in S <=> y \in T
      BY <1>4
    <2> HIDE DEF S, T
    <2>2. S = T
      BY <2>1, SameMembers
    <2>3. QED
      BY <2>2 DEF S, T
  <1>6. ASSUME NEW x, x # m PROVE HeldIn(owner, issued', x) = HeldIn(owner, issued, x)
    <2> DEFINE S == HeldIn(owner, issued', x)
               T == HeldIn(owner, issued, x)
    <2>1. \A y : y \in S <=> y \in T
      BY <1>4, <1>6
    <2> HIDE DEF S, T
    <2>2. S = T
      BY <2>1, SameMembers
    <2>3. QED
      BY <2>2 DEF S, T
  <1>7. QED
    BY <1>5, <1>6

-----------------------------------------------------------------------------
(* The steps of a call. *)

\* A call ends without the storage, and perhaps returns an identity.
LEMMA EndKeeps ==
  ASSUME IInv, NEW c \in Calls,
         UNCHANGED <<owner, issued, ns, mid, scope>>,
         pc' = [pc EXCEPT ![c] = "idle"],
         \A d \in Calls \ {c} : ref'[d] = ref[d],
         minted \subseteq minted', minted' \subseteq MachineIds, lost \subseteq lost',
         returned \subseteq returned',
         \A i \in returned' \ returned :
           /\ i.mid \in minted' /\ StoredIn(owner, issued, i)
           /\ \A j \in returned : i.mid # j.mid
           /\ \A j \in returned' \ returned : i = j,
         \A d \in Calls \ {c} : pc[d] # "idle" =>
           mid[d] \notin lost' /\ \A i \in returned' \ returned : i.mid # mid[d],
         (pc[c] # "idle" /\ HeldIn(owner, issued, mid[c]) # {}) =>
           mid[c] \in lost' \/ \E i \in returned' : i.mid = mid[c]
  PROVE  CallsInv' /\ ReturnedInv' /\ StorageInv'
  <1>1. /\ pc \in [Calls -> {"idle", "draw", "reserve", "allocate", "answered"}]
        /\ CallsInv /\ ReturnedInv /\ StorageInv
    BY DEF IInv, TypeOK
  <1>2. pc'[c] = "idle" /\ \A d \in Calls \ {c} : pc'[d] = pc[d]
    BY <1>1
  <1>3. CallsInv'
    <2>1. ASSUME NEW d \in Calls PROVE CallFits(d)'
      <3>1. CASE d = c
        BY <1>2, <3>1 DEF CallFits
      <3>2. CASE d # c
        <4>1. CallFits(d)
          BY <1>1 DEF CallsInv
        <4>2. Result(d)' = Result(d)
          BY <3>2 DEF Result
        <4>3. QED
          BY <1>2, <3>2, <4>1, <4>2 DEF CallFits
      <3>3. QED
        BY <3>1, <3>2
    <2>2. QED
      BY <1>1, <1>2, <2>1 DEF CallsInv
  <1>4. ReturnedInv'
    BY <1>1 DEF ReturnedInv
  <1>5. StorageInv'
    <2>1. ASSUME NEW m \in MachineIds, HeldIn(owner, issued, m) # {}
          PROVE  Known(m)'
      <3>1. Known(m)
        BY <1>1, <2>1 DEF StorageInv
      <3>2. QED
        BY <1>2, <2>1, <3>1 DEF Known
    <2>2. QED
      BY <1>1, <2>1 DEF StorageInv
  <1>6. QED
    BY <1>3, <1>4, <1>5

\* A call draws a candidate, or goes on to its next round.
LEMMA MoveKeeps ==
  ASSUME IInv, NEW c \in Calls, NEW step \in {"draw", "reserve"},
         UNCHANGED <<owner, issued, minted, ns, mid, scope, returned, lost>>,
         pc[c] \in {"draw", "reserve"}, pc' = [pc EXCEPT ![c] = step],
         \A d \in Calls \ {c} : ref'[d] = ref[d],
         step = "reserve" => ref'[c] \in Candidates[ns[c]]
  PROVE  CallsInv' /\ ReturnedInv' /\ StorageInv'
  <1>1. /\ pc \in [Calls -> {"idle", "draw", "reserve", "allocate", "answered"}]
        /\ CallsInv /\ ReturnedInv /\ StorageInv
    BY DEF IInv, TypeOK
  <1>2. pc'[c] = step /\ \A d \in Calls \ {c} : pc'[d] = pc[d]
    BY <1>1
  <1>3. \A d \in Calls : CallFits(d)'
    <2>1. CallFits(c)'
      BY <1>1, <1>2 DEF CallsInv, CallFits
    <2>2. ASSUME NEW d \in Calls \ {c} PROVE CallFits(d)'
      <3>1. CallFits(d) /\ Result(d)' = Result(d)
        BY <1>1 DEF CallsInv, Result
      <3>2. QED
        BY <1>2, <3>1 DEF CallFits
    <2>3. QED
      BY <2>1, <2>2
  <1>4. CallsInv'
    BY <1>1, <1>2, <1>3 DEF CallsInv
  <1>5. \A m : Known(m) => Known(m)'
    BY <1>1, <1>2 DEF Known
  <1>6. QED
    BY <1>1, <1>4, <1>5 DEF ReturnedInv, StorageInv

\* The storage gives the MID of a call a reference or a number.
LEMMA AnswerKeeps ==
  ASSUME IInv, NEW c \in Calls, NEW x,
         UNCHANGED <<minted, ns, mid, scope, returned, lost>>,
         pc[c] \in {"reserve", "allocate"}, pc' = [pc EXCEPT ![c] = "answered"],
         \A d \in Calls \ {c} : ref'[d] = ref[d],
         HeldIn(owner', issued', mid[c]) = {x},
         \A m : m # mid[c] => HeldIn(owner', issued', m) = HeldIn(owner, issued, m),
         \A r \in References : owner[r] # Nothing => owner'[r] = owner[r],
         \A k \in Keys : Len(issued'[k]) <= Capacity[k[1]],
         StoredIn(owner', issued', Result(c)')
  PROVE  CallsInv' /\ ReturnedInv' /\ StorageInv'
  <1>1. /\ pc \in [Calls -> {"idle", "draw", "reserve", "allocate", "answered"}]
        /\ CallsInv /\ ReturnedInv /\ StorageInv
    BY DEF IInv, TypeOK
  <1>2. pc'[c] = "answered" /\ \A d \in Calls \ {c} : pc'[d] = pc[d]
    BY <1>1
  <1>3. mid[c] \in minted /\ CallFits(c) /\ minted \subseteq MachineIds
    BY <1>1 DEF CallsInv, CallFits, IInv, TypeOK
  <1>4. ASSUME NEW i, StoredIn(owner, issued, i), i.mid \in minted, i.mid # mid[c]
        PROVE  StoredIn(owner', issued', i)
    <2>1. HeldIn(owner', issued', i.mid) = HeldIn(owner, issued, i.mid)
      BY <1>4
    <2>2. ASSUME Strategy[i.ns] = "random" PROVE owner'[i.ref] = owner[i.ref]
      <3>1. /\ i.ns \in Namespaces /\ i.mid \in MachineIds /\ i.ref \in References
            /\ owner[i.ref] = <<i.ns, i.mid>>
        BY <1>3, <1>4, <2>2 DEF StoredIn
      <3>2. owner[i.ref] # Nothing
        BY <3>1, OwnersAreSomebody
      <3>3. QED
        BY <3>1, <3>2
    <2>3. QED
      BY <1>4, <2>1, <2>2 DEF StoredIn
  <1>5. ASSUME NEW d \in Calls PROVE CallFits(d)'
    <2>1. CASE d = c
      BY <1>2, <1>3, <2>1 DEF CallFits
    <2>2. CASE d # c
      <3>1. CallFits(d) /\ Result(d)' = Result(d)
        BY <1>1, <2>2 DEF CallsInv, Result
      <3>2. pc[d] # "idle" => mid[d] # mid[c]
        BY <1>1, <2>2 DEF CallsInv
      <3>3. Result(d).mid = mid[d]
        BY DEF Result, Identity
      <3>4. pc[d] = "answered" => StoredIn(owner', issued', Result(d))
        BY <1>4, <3>1, <3>2, <3>3 DEF CallFits
      <3>5. pc[d] # "idle" =>
              HeldIn(owner', issued', mid[d]) = HeldIn(owner, issued, mid[d])
        BY <3>2
      <3>6. QED
        BY <1>2, <2>2, <3>1, <3>4, <3>5 DEF CallFits
    <2>3. QED
      BY <2>1, <2>2
  <1>6. CallsInv'
    BY <1>1, <1>2, <1>5 DEF CallsInv
  <1>7. ReturnedInv'
    BY <1>1, <1>3, <1>4 DEF ReturnedInv, CallFits
  <1>8. ASSUME NEW m \in MachineIds
        PROVE  /\ m \notin minted => HeldIn(owner', issued', m) = {}
               /\ \A r, s \in HeldIn(owner', issued', m) : r = s
               /\ HeldIn(owner', issued', m) # {} => Known(m)'
    <2>1. Known(m) \/ m = mid[c] => Known(m)'
      BY <1>1, <1>2 DEF Known
    <2>2. CASE m = mid[c]
      BY <1>3, <2>1, <2>2
    <2>3. CASE m # mid[c]
      <3>1. HeldIn(owner', issued', m) = HeldIn(owner, issued, m)
        BY <2>3
      <3>2. QED
        BY <1>1, <2>1, <3>1 DEF StorageInv
    <2>4. QED
      BY <2>2, <2>3
  <1>9. StorageInv'
    BY <1>8 DEF StorageInv
  <1>10. QED
    BY <1>6, <1>7, <1>9

-----------------------------------------------------------------------------
(* Types. *)

LEMMA TypeStep == TypeOK /\ CallsInv /\ [Next]_vars => TypeOK'
  <1> SUFFICES ASSUME TypeOK, CallsInv, [Next]_vars PROVE TypeOK'
    OBVIOUS
  <1>0. MaxReferenceAttempts \in 1..100
    BY OptionsAssumption
  <1>1. ASSUME NEW c \in Calls, NEW how \in Outcomes, End(c, how),
               UNCHANGED storage, minted' \subseteq MachineIds,
               lost' \subseteq minted'
        PROVE  TypeOK'
    <2>1. /\ pc' \in [Calls -> {"idle", "draw", "reserve", "allocate", "answered"}]
          /\ ref' \in [Calls -> References \cup Nat \cup {Nothing}]
          /\ outcome' \in [Calls -> Outcomes]
      BY <1>1 DEF End, TypeOK
    <2>2. attempt' \in [Calls -> 0..(MaxReferenceAttempts - 1)]
      BY <1>0, <1>1 DEF End, TypeOK
    <2>3. QED
      BY <1>1, <2>1, <2>2 DEF End, storage, TypeOK
  <1>2. ASSUME NEW c \in Calls, NEW name \in Names, Reject(c, name) PROVE TypeOK'
    BY <1>1, <1>2 DEF Reject, Outcomes, TypeOK
  <1>3. ASSUME NEW c \in Calls, NEW n \in Namespaces, NEW m \in MachineIds \ minted,
               CreateWithoutReference(c, n, m) \/ RejectClock(c, n, m)
        PROVE  TypeOK'
    BY <1>1, <1>3 DEF CreateWithoutReference, RejectClock, Outcomes, TypeOK
  <1>4. ASSUME NEW c \in Calls, NEW n \in Namespaces, NEW m \in MachineIds \ minted,
               Create(c, n, m)
        PROVE  TypeOK'
    BY <1>4 DEF Create, ScopeOf, storage, TypeOK, Outcomes
  <1>5. ASSUME NEW c \in Calls, CommitAllocation(c) PROVE TypeOK'
    <2>1. /\ Key(c) \in Keys /\ mid[c] \in MachineIds /\ ns[c] \in Namespaces
      BY <1>5 DEF CommitAllocation, CallsInv, CallFits, TypeOK, Key, Keys
    <2>2. /\ owner' = owner
          /\ policy' = [policy EXCEPT ![Key(c)] = ns[c]]
          /\ issued' = [issued EXCEPT ![Key(c)] = Append(@, mid[c])]
          /\ Answer(c, Len(issued[Key(c)]) + 1)
      BY <1>5 DEF CommitAllocation, Storage!Allocate
    <2>3. Len(issued[Key(c)]) + 1 \in Nat
      BY <2>1 DEF TypeOK
    <2>4. /\ policy' \in [Keys -> Namespaces \cup {Nothing}]
          /\ issued' \in [Keys -> Seq(MachineIds)]
      BY <2>1, <2>2 DEF TypeOK
    <2>5. QED
      BY <2>2, <2>3, <2>4 DEF Answer, TypeOK
  <1>6. ASSUME NEW c \in Calls, NEW r \in References, DrawCandidate(c, r) PROVE TypeOK'
    BY <1>6 DEF DrawCandidate, storage, TypeOK
  <1>7. ASSUME NEW c \in Calls, CommitReservation(c) PROVE TypeOK'
    <2>1. /\ ref[c] \in References /\ mid[c] \in MachineIds /\ ns[c] \in Namespaces
      BY <1>7 DEF CommitReservation, CallsInv, CallFits, TypeOK, References
    <2>2. /\ owner' = [owner EXCEPT ![ref[c]] = <<ns[c], mid[c]>>]
          /\ UNCHANGED <<policy, issued>>
          /\ Answer(c, ref[c])
      BY <1>7 DEF CommitReservation, Storage!Reserve
    <2>3. QED
      BY <2>1, <2>2 DEF Answer, TypeOK
  <1>8. ASSUME NEW c \in Calls, RefuseReservation(c) PROVE TypeOK'
    <2>1. CASE attempt[c] + 1 < MaxReferenceAttempts
      <3>1. attempt \in [Calls -> 0..(MaxReferenceAttempts - 1)]
        BY DEF TypeOK
      <3>2. attempt[c] + 1 \in 0..(MaxReferenceAttempts - 1)
        BY <1>0, <2>1, <3>1
      <3>3. DrawAgain(c) /\ UNCHANGED <<storage, minted, returned, lost>>
        BY <1>8, <2>1 DEF RefuseReservation
      <3>4. attempt' \in [Calls -> 0..(MaxReferenceAttempts - 1)]
        BY <3>1, <3>2, <3>3 DEF DrawAgain
      <3>5. QED
        BY <3>3, <3>4 DEF DrawAgain, storage, TypeOK
    <2>2. CASE ~(attempt[c] + 1 < MaxReferenceAttempts)
      BY <1>1, <1>8, <2>2 DEF RefuseReservation, Outcomes, TypeOK
    <2>3. QED
      BY <2>1, <2>2
  <1>9. ASSUME NEW c \in Calls, Return(c) \/ Throw(c) PROVE TypeOK'
    BY <1>1, <1>9 DEF Return, Throw, Outcomes, TypeOK, CallsInv, CallFits
  <1>10. CASE NewYear
    BY <1>10, OptionsAssumption DEF NewYear, storage, TypeOK, Years
  <1>11. CASE UNCHANGED vars
    BY <1>11 DEF vars, TypeOK
  <1>12. QED
    BY <1>2, <1>3, <1>4, <1>5, <1>6, <1>7, <1>8, <1>9, <1>10, <1>11
       DEF Next, Proceed

-----------------------------------------------------------------------------
(* Every step keeps the invariant. *)

Keeps == CallsInv' /\ ReturnedInv' /\ StorageInv'

\* The service gives up on a call that has nothing in the storage, or throws.
LEMMA GiveUp ==
  ASSUME IInv, NEW c \in Calls, UNCHANGED <<storage, ns, mid, scope, returned>>,
         pc' = [pc EXCEPT ![c] = "idle"], ref' = [ref EXCEPT ![c] = Nothing],
         minted \subseteq minted', minted' \subseteq MachineIds,
         lost' = lost \/ (pc[c] # "idle" /\ lost' = lost \cup {mid[c]}),
         pc[c] # "idle" =>
           mid[c] \in lost' \/ HeldIn(owner, issued, mid[c]) = {}
  PROVE  Keeps
  <1>1. CallsInv /\ ref \in [Calls -> References \cup Nat \cup {Nothing}]
    BY DEF IInv, TypeOK
  <1>2. \A d \in Calls \ {c} : ref'[d] = ref[d]
    BY <1>1
  <1>3. \A d \in Calls \ {c} : pc[d] # "idle" => mid[d] \notin lost'
    BY <1>1 DEF CallsInv, CallFits
  <1>4. /\ UNCHANGED <<owner, issued, ns, mid, scope>>
        /\ lost \subseteq lost' /\ returned \subseteq returned'
        /\ \A i \in returned' \ returned : FALSE
    BY DEF storage
  <1>5. (pc[c] # "idle" /\ HeldIn(owner, issued, mid[c]) # {}) => mid[c] \in lost'
    OBVIOUS
  <1>6. QED
    BY <1>2, <1>3, <1>4, <1>5, EndKeeps DEF Keeps

LEMMA AllocationKeeps ==
  ASSUME IInv, NEW c \in Calls, CommitAllocation(c)
  PROVE  Keeps
  <1> DEFINE k == Key(c)
             n == Len(issued[k]) + 1
             i == Result(c)'
  <1>1. /\ TypeOK /\ StorageInv /\ CallFits(c)
    BY DEF IInv, CallsInv
  <1>2. /\ pc[c] = "allocate" /\ ns[c] \in Namespaces /\ Sequential(ns[c])
        /\ mid[c] \in MachineIds /\ HeldIn(owner, issued, mid[c]) = {}
        /\ scope[c] \in {Unscoped} \cup Years
    BY <1>1 DEF CommitAllocation, CallFits, TypeOK
  <1>3. k \in Keys /\ k = <<ns[c], scope[c]>>
    BY <1>2 DEF Key, Keys
  <1>4. /\ issued \in [Keys -> Seq(MachineIds)]
        /\ issued' = [issued EXCEPT ![k] = Append(@, mid[c])]
        /\ owner' = owner
        /\ Len(issued[k]) < Capacity[ns[c]]
        /\ Answer(c, n)
    BY <1>1 DEF CommitAllocation, Storage!Allocate, TypeOK
  <1>5. /\ HeldIn(owner, issued', mid[c]) =
              HeldIn(owner, issued, mid[c]) \cup {<<k, n>>}
        /\ \A x : x # mid[c] => HeldIn(owner, issued', x) = HeldIn(owner, issued, x)
    BY <1>2, <1>3, <1>4, HeldAllocate
  <1>6. HeldIn(owner', issued', mid[c]) = {<<k, n>>}
    BY <1>2, <1>4, <1>5
  <1>7. n \in Nat /\ n <= Capacity[ns[c]]
    BY <1>2, <1>3, <1>4, RegistryAssumption
  <1>8. \A l \in Keys : Len(issued'[l]) <= Capacity[l[1]]
    <2>1. ASSUME NEW l \in Keys PROVE Len(issued'[l]) <= Capacity[l[1]]
      <3>1. CASE l = k
        BY <1>2, <1>3, <1>4, <1>7, <3>1
      <3>2. CASE l # k
        BY <1>1, <1>4, <3>2 DEF StorageInv
      <3>3. QED
        BY <3>1, <3>2
    <2>2. QED
      BY <2>1
  <1>9. /\ UNCHANGED <<minted, ns, mid, scope, returned, lost>>
        /\ pc' = [pc EXCEPT ![c] = "answered"] /\ ref' = [ref EXCEPT ![c] = n]
        /\ ref'[c] = n /\ \A d \in Calls \ {c} : ref'[d] = ref[d]
    BY <1>1, <1>4 DEF Answer, TypeOK
  <1>10. /\ i.ns = ns[c] /\ i.mid = mid[c] /\ i.ref = <<ns[c], scope[c], n>>
    BY <1>2, <1>9 DEF Result, Identity, Sequential
  <1>11. StoredIn(owner', issued', i)
    <2> HIDE DEF i, n
    <2>1. HeldIn(owner', issued', i.mid) = {<< <<i.ns, scope[c]>>, n >>}
      BY <1>3, <1>6, <1>10
    <2>2. i.ref = <<i.ns, scope[c], n>> /\ n <= Capacity[i.ns] /\ Sequential(i.ns)
          /\ i.ns \in Namespaces
      BY <1>2, <1>7, <1>10
    <2>3. QED
      BY <1>2, <1>7, <2>1, <2>2 DEF StoredIn, Sequential
  <1>12. QED
    BY <1>2, <1>4, <1>5, <1>6, <1>8, <1>9, <1>11, AnswerKeeps DEF Keeps

LEMMA ReservationKeeps ==
  ASSUME IInv, NEW c \in Calls, CommitReservation(c)
  PROVE  Keeps
  <1> DEFINE i == Result(c)'
  <1>1. /\ TypeOK /\ StorageInv /\ CallFits(c)
    BY DEF IInv, CallsInv
  <1>2. /\ pc[c] = "reserve" /\ ns[c] \in Namespaces /\ Strategy[ns[c]] = "random"
        /\ mid[c] \in MachineIds /\ HeldIn(owner, issued, mid[c]) = {}
        /\ ref[c] \in References
    BY <1>1 DEF CommitReservation, CallFits, TypeOK, References
  <1>3. /\ owner \in [References -> (Namespaces \X MachineIds) \cup {Nothing}]
        /\ owner[ref[c]] = Nothing
        /\ owner' = [owner EXCEPT ![ref[c]] = <<ns[c], mid[c]>>]
        /\ issued' = issued
        /\ Answer(c, ref[c])
    BY <1>1 DEF CommitReservation, Storage!Reserve, TypeOK
  <1>4. /\ HeldIn(owner', issued, mid[c]) = HeldIn(owner, issued, mid[c]) \cup {ref[c]}
        /\ \A x : x # mid[c] => HeldIn(owner', issued, x) = HeldIn(owner, issued, x)
    <2> DEFINE r == ref[c]
               n == ns[c]
               m == mid[c]
    <2>1. /\ r \in References /\ n \in Namespaces /\ m \in MachineIds
          /\ owner[r] = Nothing /\ owner'[r] = <<n, m>>
          /\ \A q \in References \ {r} : owner'[q] = owner[q]
      BY <1>2, <1>3
    <2> HIDE DEF r, n, m
    <2>2. /\ HeldIn(owner', issued, m) = HeldIn(owner, issued, m) \cup {r}
          /\ \A x : x # m => HeldIn(owner', issued, x) = HeldIn(owner, issued, x)
      BY <2>1, HeldReserve
    <2>3. QED
      BY <2>2 DEF r, n, m
  <1>5. HeldIn(owner', issued', mid[c]) = {ref[c]}
    BY <1>2, <1>3, <1>4
  <1>6. /\ UNCHANGED <<minted, ns, mid, scope, returned, lost>>
        /\ pc' = [pc EXCEPT ![c] = "answered"] /\ ref' = ref
    BY <1>1, <1>3 DEF Answer, TypeOK
  <1>7. /\ i.ns = ns[c] /\ i.mid = mid[c] /\ i.ref = ref[c]
    BY <1>2, <1>6 DEF Result, Identity
  <1>8. owner'[ref[c]] = <<ns[c], mid[c]>>
    BY <1>2, <1>3
  <1>9. StoredIn(owner', issued', i)
    <2> HIDE DEF i
    <2>1. QED
      BY <1>2, <1>5, <1>7, <1>8 DEF StoredIn, Sequential
  <1>10. \A r \in References : owner[r] # Nothing => owner'[r] = owner[r]
    BY <1>2, <1>3
  <1>11. \A l \in Keys : Len(issued'[l]) <= Capacity[l[1]]
    BY <1>1, <1>3 DEF StorageInv
  <1>12. QED
    BY <1>2, <1>3, <1>4, <1>5, <1>6, <1>9, <1>10, <1>11, AnswerKeeps DEF Keeps
\* A call returns an identity with a MID nobody was given.
LEMMA ReturnKeeps ==
  ASSUME IInv, NEW c \in Calls, NEW i, NEW how,
         UNCHANGED <<storage, lost>>, End(c, how),
         returned' = returned \cup {i}, minted' = minted \cup {i.mid},
         i.mid \in MachineIds, StoredIn(owner, issued, i),
         \A j \in returned : i.mid # j.mid,
         \A d \in Calls \ {c} : pc[d] # "idle" => mid[d] # i.mid,
         pc[c] # "idle" => mid[c] = i.mid
  PROVE  Keeps
  <1>1. CallsInv /\ TypeOK
    BY DEF IInv
  <1>2. /\ UNCHANGED <<owner, issued, ns, mid, scope>>
        /\ pc' = [pc EXCEPT ![c] = "idle"]
        /\ \A d \in Calls \ {c} : ref'[d] = ref[d]
    BY <1>1 DEF End, storage, TypeOK
  <1>3. /\ minted \subseteq minted' /\ minted' \subseteq MachineIds
        /\ lost \subseteq lost'
    BY <1>1 DEF TypeOK
  <1>4. returned \subseteq returned' /\ i \in returned'
    OBVIOUS
  <1>5. \A j \in returned' \ returned : j = i
    OBVIOUS
  <1>6. \A j \in returned' \ returned :
          /\ j.mid \in minted' /\ StoredIn(owner, issued, j)
          /\ \A k \in returned : j.mid # k.mid
          /\ \A k \in returned' \ returned : j = k
    BY <1>5
  <1>7. \A d \in Calls \ {c} : pc[d] # "idle" =>
          mid[d] \notin lost' /\ \A j \in returned' \ returned : j.mid # mid[d]
    BY <1>1, <1>5 DEF CallsInv, CallFits
  <1>8. (pc[c] # "idle" /\ HeldIn(owner, issued, mid[c]) # {}) =>
          mid[c] \in lost' \/ \E j \in returned' : j.mid = mid[c]
    BY <1>4
  <1>9. returned \subseteq returned'
    BY <1>4
  <1>10. QED
    BY <1>2, <1>3, <1>6, <1>7, <1>8, <1>9, EndKeeps DEF Keeps

LEMMA CreateKeeps ==
  ASSUME IInv, NEW c \in Calls, NEW n \in Namespaces, NEW m \in MachineIds \ minted,
         Create(c, n, m)
  PROVE  Keeps
  <1>1. /\ TypeOK /\ CallsInv /\ ReturnedInv /\ StorageInv
    BY DEF IInv
  <1>2. /\ pc[c] = "idle"
        /\ UNCHANGED <<owner, issued, ref, returned, lost>>
        /\ minted' = minted \cup {m}
    BY DEF Create, storage
  <1>3. /\ pc'[c] = IF Strategy[n] = "random" THEN "draw" ELSE "allocate"
        /\ ns'[c] = n /\ mid'[c] = m
        /\ \A d \in Calls \ {c} : /\ pc'[d] = pc[d] /\ ns'[d] = ns[d]
                                  /\ mid'[d] = mid[d] /\ scope'[d] = scope[d]
    BY <1>1 DEF Create, TypeOK
  <1>4. Strategy[n] = "random" \/ Sequential(n)
    BY RegistryAssumption, OptionsAssumption DEF Create, Strategies, Sequential
  <1>5. /\ m \notin lost /\ HeldIn(owner, issued, m) = {}
        /\ \A i \in returned : i.mid # m
        /\ \A d \in Calls : pc[d] # "idle" => mid[d] # m
    BY <1>1 DEF TypeOK, CallsInv, CallFits, ReturnedInv, StorageInv
  <1>6. CallFits(c)'
    BY <1>2, <1>3, <1>4, <1>5 DEF CallFits
  <1>7. ASSUME NEW d \in Calls \ {c} PROVE CallFits(d)'
    <2>1. CallFits(d) /\ Result(d)' = Result(d)
      BY <1>1, <1>2, <1>3 DEF CallsInv, Result
    <2>2. QED
      BY <1>2, <1>3, <2>1 DEF CallFits
  <1>8. CallsInv'
    <2>1. \A d, e \in Calls :
            (d # e /\ pc'[d] # "idle" /\ pc'[e] # "idle") => mid'[d] # mid'[e]
      BY <1>1, <1>3, <1>5 DEF CallsInv
    <2>2. QED
      BY <1>6, <1>7, <2>1 DEF CallsInv
  <1>9. ReturnedInv'
    BY <1>1, <1>2 DEF ReturnedInv
  <1>10. \A x : Known(x) => Known(x)'
    BY <1>2, <1>3 DEF Known
  <1>11. StorageInv'
    BY <1>1, <1>2, <1>10 DEF StorageInv
  <1>12. QED
    BY <1>8, <1>9, <1>11 DEF Keeps

\* The step of a call, or of the clock.
LEMMA StepKeeps == IInv /\ [Next]_vars => Keeps
  <1> SUFFICES ASSUME IInv, [Next]_vars PROVE Keeps
    OBVIOUS
  <1>0. TypeOK /\ CallsInv /\ ReturnedInv /\ StorageInv
    BY DEF IInv
  <1>1. ASSUME NEW c \in Calls, NEW name \in Names, Reject(c, name) PROVE Keeps
    <2>1. /\ pc[c] = "idle" /\ minted' = minted /\ lost' = lost
          /\ UNCHANGED <<storage, ns, mid, scope, returned>>
          /\ pc' = [pc EXCEPT ![c] = "idle"] /\ ref' = [ref EXCEPT ![c] = Nothing]
      BY <1>1 DEF Reject, End
    <2>2. minted \subseteq minted' /\ minted' \subseteq MachineIds
      BY <1>0, <2>1 DEF TypeOK
    <2>3. QED
      BY <2>1, <2>2, GiveUp
  <1>2. ASSUME NEW c \in Calls, NEW n \in Namespaces, NEW m \in MachineIds \ minted,
               RejectClock(c, n, m)
        PROVE  Keeps
    <2>1. /\ pc[c] = "idle" /\ minted' = minted \cup {m} /\ lost' = lost
          /\ UNCHANGED <<storage, ns, mid, scope, returned>>
          /\ pc' = [pc EXCEPT ![c] = "idle"] /\ ref' = [ref EXCEPT ![c] = Nothing]
      BY <1>2 DEF RejectClock, End
    <2>2. minted \subseteq minted' /\ minted' \subseteq MachineIds
      BY <1>0, <2>1 DEF TypeOK
    <2>3. QED
      BY <2>1, <2>2, GiveUp
  <1>3. ASSUME NEW c \in Calls, NEW n \in Namespaces, NEW m \in MachineIds \ minted,
               CreateWithoutReference(c, n, m)
        PROVE  Keeps
    <2> DEFINE i == Identity(n, m, Nothing)
    <2>1. /\ pc[c] = "idle" /\ Strategy[n] = "none"
          /\ UNCHANGED <<storage, lost>> /\ End(c, "identity")
          /\ returned' = returned \cup {i} /\ minted' = minted \cup {m}
      BY <1>3 DEF CreateWithoutReference
    <2>2. i.ns = n /\ i.mid = m /\ i.ref = Nothing
      BY DEF Identity
    <2>3. /\ HeldIn(owner, issued, m) = {}
          /\ \A j \in returned : m # j.mid
          /\ \A d \in Calls : pc[d] # "idle" => mid[d] # m
      BY <1>0 DEF StorageInv, ReturnedInv, CallsInv, CallFits
    <2> HIDE DEF i
    <2>4. StoredIn(owner, issued, i)
      BY <2>1, <2>2, <2>3 DEF StoredIn, Sequential
    <2>5. QED
      BY <2>1, <2>2, <2>3, <2>4, ReturnKeeps
  <1>4. ASSUME NEW c \in Calls, NEW r \in References, DrawCandidate(c, r) PROVE Keeps
    <2>1. /\ pc[c] \in {"draw", "reserve"} /\ pc' = [pc EXCEPT ![c] = "reserve"]
          /\ ref' = [ref EXCEPT ![c] = r] /\ r \in Candidates[ns[c]]
          /\ UNCHANGED <<owner, issued, minted, ns, mid, scope, returned, lost>>
      BY <1>4 DEF DrawCandidate, storage
    <2>2. ref'[c] = r /\ \A d \in Calls \ {c} : ref'[d] = ref[d]
      BY <1>0, <2>1 DEF TypeOK
    <2> DEFINE step == "reserve"
    <2>3. step \in {"draw", "reserve"} /\ pc' = [pc EXCEPT ![c] = step]
      BY <2>1
    <2> HIDE DEF step
    <2>4. QED
      BY <2>1, <2>2, <2>3, MoveKeeps DEF Keeps
  <1>5. ASSUME NEW c \in Calls, RefuseReservation(c) PROVE Keeps
    <2>1. /\ pc[c] = "reserve" /\ HeldIn(owner, issued, mid[c]) = {}
          /\ UNCHANGED <<storage, owner, issued, minted, returned, lost>>
      BY <1>0, <1>5 DEF RefuseReservation, storage, CallsInv, CallFits
    <2>2. CASE DrawAgain(c)
      <3> DEFINE step == "draw"
      <3>1. step \in {"draw", "reserve"} /\ pc' = [pc EXCEPT ![c] = step]
            /\ UNCHANGED <<ns, mid, scope, ref>> /\ step # "reserve"
        BY <2>2 DEF DrawAgain
      <3> HIDE DEF step
      <3>2. \A d \in Calls \ {c} : ref'[d] = ref[d]
        BY <3>1
      <3>3. QED
        BY <2>1, <3>1, <3>2, MoveKeeps DEF Keeps
    <2>3. CASE End(c, "allocation_exhausted")
      <3>1. /\ UNCHANGED <<storage, ns, mid, scope, returned>>
            /\ pc' = [pc EXCEPT ![c] = "idle"] /\ ref' = [ref EXCEPT ![c] = Nothing]
            /\ minted \subseteq minted' /\ minted' \subseteq MachineIds /\ lost' = lost
        BY <1>0, <2>1, <2>3 DEF End, TypeOK
      <3>2. QED
        BY <2>1, <3>1, GiveUp
    <2>4. QED
      BY <1>5, <2>2, <2>3 DEF RefuseReservation
  <1>6. ASSUME NEW c \in Calls, Return(c) PROVE Keeps
    <2>1. /\ pc[c] = "answered" /\ UNCHANGED <<storage, minted, lost>>
          /\ returned' = returned \cup {Result(c)} /\ End(c, "identity")
      BY <1>6 DEF Return, Result
    <2>2. /\ Result(c).mid = mid[c] /\ mid[c] \in minted /\ mid[c] \in MachineIds
          /\ StoredIn(owner, issued, Result(c))
          /\ \A j \in returned : mid[c] # j.mid
          /\ \A d \in Calls \ {c} : pc[d] # "idle" => mid[d] # mid[c]
      BY <1>0, <2>1 DEF CallsInv, CallFits, Result, Identity, TypeOK
    <2>3. minted' = minted \cup {mid[c]}
      BY <2>1, <2>2
    <2>4. QED
      BY <2>1, <2>2, <2>3, ReturnKeeps
  <1>7. ASSUME NEW c \in Calls, Throw(c) PROVE Keeps
    <2>1. /\ pc[c] # "idle" /\ UNCHANGED <<storage, ns, mid, scope, returned>>
          /\ pc' = [pc EXCEPT ![c] = "idle"] /\ ref' = [ref EXCEPT ![c] = Nothing]
          /\ minted \subseteq minted' /\ minted' \subseteq MachineIds
      BY <1>0, <1>7 DEF Throw, End, TypeOK
    <2>2. CASE pc[c] = "answered"
      <3>1. lost' = lost \cup {mid[c]}
        BY <1>7, <2>2 DEF Throw
      <3>2. QED
        BY <2>1, <3>1, GiveUp
    <2>3. CASE pc[c] # "answered"
      <3>1. lost' = lost /\ HeldIn(owner, issued, mid[c]) = {}
        BY <1>0, <1>7, <2>1, <2>3 DEF Throw, CallsInv, CallFits
      <3>2. QED
        BY <2>1, <3>1, GiveUp
    <2>4. QED
      BY <2>2, <2>3
  <1>8. CASE UNCHANGED <<owner, issued, minted, pc, ns, mid, scope, ref, returned, lost>>
    <2>1. ASSUME NEW c \in Calls PROVE CallFits(c)'
      BY <1>0, <1>8, <2>1 DEF CallsInv, CallFits, Result
    <2>2. CallsInv'
      BY <1>0, <1>8, <2>1 DEF CallsInv
    <2>3. QED
      BY <1>0, <1>8, <2>2 DEF ReturnedInv, StorageInv, Known, Keeps
  <1>9. QED
    BY <1>1, <1>2, <1>3, <1>4, <1>5, <1>6, <1>7, <1>8,
       CreateKeeps, AllocationKeeps, ReservationKeeps
       DEF Next, Proceed, NewYear, vars, storage

LEMMA InvStart == Init => IInv
  <1> SUFFICES ASSUME Init PROVE IInv
    OBVIOUS
  <1>1. /\ owner = [r \in References |-> Nothing]
        /\ policy = [k \in Keys |-> Nothing]
        /\ issued = [k \in Keys |-> <<>>]
    BY DEF Init, Storage!Init
  <1>2. TypeOK
    BY <1>1, OptionsAssumption DEF Init, TypeOK, Years, Outcomes
  <1>3. \A m : HeldIn(owner, issued, m) = {}
    BY <1>1 DEF HeldIn
  <1>4. CallsInv /\ ReturnedInv
    BY DEF Init, CallsInv, CallFits, ReturnedInv
  <1>5. StorageInv
    <2>1. ASSUME NEW k \in Keys PROVE Len(issued[k]) <= Capacity[k[1]]
      BY <1>1, RegistryAssumption DEF Keys
    <2>2. QED
      BY <1>3, <2>1 DEF StorageInv
  <1>6. QED
    BY <1>2, <1>4, <1>5 DEF IInv

LEMMA InvStep == IInv /\ [Next]_vars => IInv'
  BY StepKeeps, TypeStep DEF IInv, Keeps

\* The inductive invariant holds in every reachable state.
THEOREM Invariant == Spec => []IInv
  <1>1. QED
    BY InvStart, InvStep, PTL DEF Spec

-----------------------------------------------------------------------------
(* The properties. *)

\* create never draws more candidates than it may (service.ts:186-207).
THEOREM TypeCorrect == Spec => []TypeOK
  <1>1. IInv => TypeOK
    BY DEF IInv
  <1>2. QED
    BY <1>1, Invariant, PTL

\* A returned identity is what the storage recorded for its MID (service.ts:155-174).
THEOREM ReturnedIsStoredHolds == Spec => []ReturnedIsStored
  <1>1. ASSUME IInv, NEW i \in returned
        PROVE  CASE Strategy[i.ns] = "none" -> Held(i.mid) = {}
                 [] Strategy[i.ns] = "random" ->
                      Held(i.mid) = {i.ref} /\ owner[i.ref] = <<i.ns, i.mid>>
                 [] OTHER ->
                      LET k == <<i.ns, i.ref[2]>> IN
                      Held(i.mid) = {<<k, i.ref[3]>>} /\ i.ref[3] <= Capacity[i.ns]
    <2>1. /\ StoredIn(owner, issued, i) /\ Held(i.mid) = HeldIn(owner, issued, i.mid)
          /\ Strategy[i.ns] \in Strategies
      BY <1>1, HeldNow, RegistryAssumption DEF IInv, ReturnedInv, StoredIn
    <2>2. CASE Strategy[i.ns] = "none"
      BY <2>1, <2>2 DEF StoredIn
    <2>3. CASE Strategy[i.ns] = "random"
      BY <2>1, <2>3 DEF StoredIn
    <2>4. CASE Sequential(i.ns)
      <3>1. PICK y \in {Unscoped} \cup Years, n \in Nat :
              /\ i.ref = <<i.ns, y, n>>
              /\ HeldIn(owner, issued, i.mid) = {<< <<i.ns, y>>, n >>}
              /\ n <= Capacity[i.ns]
        BY <2>1, <2>4 DEF StoredIn
      <3>2. i.ref[2] = y /\ i.ref[3] = n
        BY <3>1
      <3>3. Strategy[i.ns] # "none" /\ Strategy[i.ns] # "random"
        BY <2>4 DEF Sequential
      <3>4. QED
        BY <2>1, <3>1, <3>2, <3>3
    <2>5. QED
      BY <2>1, <2>2, <2>3, <2>4 DEF Strategies, Sequential
  <1>2. IInv => ReturnedIsStored
    BY <1>1 DEF ReturnedIsStored
  <1>3. QED
    BY <1>2, Invariant, PTL

\* No two identities share a MID or a reference (SPEC.md:76-78).
THEOREM NamesAreUniqueHolds == Spec => []NamesAreUnique
  <1>1. ASSUME IInv, NEW i \in returned, NEW j \in returned,
               i.ref = j.ref, i.ref # Nothing
        PROVE  i.mid = j.mid
    <2>1. /\ StoredIn(owner, issued, i) /\ StoredIn(owner, issued, j)
          /\ Strategy[i.ns] \in Strategies /\ Strategy[j.ns] \in Strategies
      BY <1>1, RegistryAssumption DEF IInv, ReturnedInv, StoredIn
    <2>2. CASE Strategy[i.ns] = "random" /\ Strategy[j.ns] = "random"
      BY <1>1, <2>1, <2>2 DEF StoredIn
    <2>3. CASE Sequential(i.ns) /\ Sequential(j.ns)
      <3>1. PICK y \in {Unscoped} \cup Years, n \in Nat :
              /\ i.ref = <<i.ns, y, n>>
              /\ HeldIn(owner, issued, i.mid) = {<< <<i.ns, y>>, n >>}
        BY <2>1, <2>3 DEF StoredIn
      <3>2. PICK z \in {Unscoped} \cup Years, l \in Nat :
              /\ j.ref = <<j.ns, z, l>>
              /\ HeldIn(owner, issued, j.mid) = {<< <<j.ns, z>>, l >>}
        BY <2>1, <2>3 DEF StoredIn
      <3>3. i.ns = j.ns /\ y = z /\ n = l
        <4>1. /\ i.ref[1] = i.ns /\ i.ref[2] = y /\ i.ref[3] = n
          BY <3>1
        <4>2. /\ j.ref[1] = j.ns /\ j.ref[2] = z /\ j.ref[3] = l
          BY <3>2
        <4>3. QED
          BY <1>1, <4>1, <4>2
      <3>4. << <<i.ns, y>>, n >> \in HeldIn(owner, issued, i.mid)
            /\ << <<i.ns, y>>, n >> \in HeldIn(owner, issued, j.mid)
        BY <3>1, <3>2, <3>3
      <3>5. <<i.ns, y>> \in Keys
        BY <2>1 DEF StoredIn, Keys
      <3>6. QED
        BY <3>1, <3>4, <3>5, NumberHasOneOwner
    <2>4. CASE Strategy[i.ns] = "random" /\ Sequential(j.ns)
      <3>1. i.ref \in References
        BY <2>1, <2>4 DEF StoredIn
      <3>2. \E y \in {Unscoped} \cup Years, n \in Nat :
              j.ns \in Namespaces /\ j.ref = <<j.ns, y, n>>
        BY <2>1, <2>4 DEF StoredIn
      <3>3. j.ref \notin References
        BY <3>2, NumbersAreNoReferences
      <3>4. QED
        BY <1>1, <3>1, <3>3
    <2>5. CASE Sequential(i.ns) /\ Strategy[j.ns] = "random"
      <3>1. j.ref \in References
        BY <2>1, <2>5 DEF StoredIn
      <3>2. \E y \in {Unscoped} \cup Years, n \in Nat :
              i.ns \in Namespaces /\ i.ref = <<i.ns, y, n>>
        BY <2>1, <2>5 DEF StoredIn
      <3>3. i.ref \notin References
        BY <3>2, NumbersAreNoReferences
      <3>4. QED
        BY <1>1, <3>1, <3>3
    <2>6. CASE Strategy[i.ns] = "none" \/ Strategy[j.ns] = "none"
      BY <1>1, <2>1, <2>6 DEF StoredIn
    <2>7. QED
      BY <2>1, <2>2, <2>3, <2>4, <2>5, <2>6 DEF Strategies, Sequential
  <1>2. IInv => NamesAreUnique
    BY <1>1 DEF NamesAreUnique, IInv, ReturnedInv
  <1>3. QED
    BY <1>2, Invariant, PTL

\* A MID never holds two references (service.ts:186-207).
THEOREM OneReferencePerMidHolds == Spec => []OneReferencePerMid
  <1>1. IInv => OneReferencePerMid
    BY HeldNow DEF IInv, StorageInv, OneReferencePerMid
  <1>2. QED
    BY <1>1, Invariant, PTL

\* A reference no caller was given is one whose answer was lost.
THEOREM UnusedOnlyAfterLostAnswerHolds == Spec => []UnusedOnlyAfterLostAnswer
  <1>1. ASSUME NEW m, Known(m)
        PROVE  m \in InFlight \cup lost \cup {i.mid : i \in returned}
    BY <1>1 DEF Known, InFlight
  <1>2. IInv => UnusedOnlyAfterLostAnswer
    BY <1>1, HeldNow DEF IInv, StorageInv, UnusedOnlyAfterLostAnswer
  <1>3. QED
    BY <1>2, Invariant, PTL
=============================================================================
