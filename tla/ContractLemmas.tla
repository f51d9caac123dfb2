---------------------------- MODULE ContractLemmas ----------------------------
(***************************************************************************)
(* Tables of references, counters and bindings as the three storage        *)
(* integrations have them, read as a contract store, and what their        *)
(* changes come to in it.  t and u are tables, K is the set of counters'   *)
(* keys and none stands for no row.                                        *)
(***************************************************************************)
EXTENDS Integers, Sequences, SequenceTheorems, TLAPS

\* The owner of a reference, the policy of a counter, and the MIDs in the order
\* of their numbers.
OwnerIn(t, none, r) ==
  IF \E row \in t.refs : row.ref = r
  THEN LET row == CHOOSE row \in t.refs : row.ref = r IN <<row.ns, row.mid>>
  ELSE none

PolicyIn(t, none, k) ==
  IF t.counters[k] = none THEN none ELSE <<t.counters[k].prefix, t.counters[k].width>>

CountIn(t, none, k) == IF t.counters[k] = none THEN 0 ELSE t.counters[k].last

IssuedIn(t, none, k) ==
  [n \in 1..CountIn(t, none, k) |->
     (CHOOSE b \in t.bindings : b.key = k /\ b.seq = n).mid]

\* References are unique, and a counter has its numbers, each bound to one MID
\* and each MID to one number.
Numbered(t, K, M, none) ==
  /\ \A a, b \in t.refs : a.ref = b.ref => a = b
  /\ \A a, b \in t.bindings :
       (a.key = b.key /\ (a.seq = b.seq \/ a.mid = b.mid)) => a = b
  /\ \A b \in t.bindings : b.mid \in M
  /\ \A k \in K :
       /\ CountIn(t, none, k) \in Nat
       /\ \A b \in t.bindings : b.key = k => b.seq \in 1..CountIn(t, none, k)
       /\ \A n \in 1..CountIn(t, none, k) :
            \E b \in t.bindings : b.key = k /\ b.seq = n

\* Nothing is taken away.
Extends(t, u, K, none) ==
  /\ t.refs \subseteq u.refs
  /\ t.bindings \subseteq u.bindings
  /\ \A k \in K : t.counters[k] # none =>
       /\ PolicyIn(u, none, k) = PolicyIn(t, none, k)
       /\ CountIn(t, none, k) <= CountIn(u, none, k)

-----------------------------------------------------------------------------
(* One table.                                                               *)

LEMMA OwnerFound ==
  ASSUME NEW t, NEW none, NEW row \in t.refs,
         \A a, b \in t.refs : a.ref = b.ref => a = b
  PROVE  OwnerIn(t, none, row.ref) = <<row.ns, row.mid>>
  <1> DEFINE found == CHOOSE a \in t.refs : a.ref = row.ref
  <1>1. found \in t.refs /\ found.ref = row.ref
    OBVIOUS
  <1>2. found = row
    BY <1>1
  <1>3. QED
    BY <1>2 DEF OwnerIn

LEMMA OwnerMissing ==
  ASSUME NEW t, NEW none, NEW r, \A a \in t.refs : a.ref # r
  PROVE  OwnerIn(t, none, r) = none
  BY DEF OwnerIn

LEMMA NumberFound ==
  ASSUME NEW t, NEW K, NEW M, NEW none, Numbered(t, K, M, none),
         NEW b \in t.bindings, b.key \in K
  PROVE  /\ b.seq \in 1..CountIn(t, none, b.key)
         /\ IssuedIn(t, none, b.key)[b.seq] = b.mid
  <1> DEFINE found == CHOOSE a \in t.bindings : a.key = b.key /\ a.seq = b.seq
  <1>1. found \in t.bindings /\ found.key = b.key /\ found.seq = b.seq
    OBVIOUS
  <1>2. found = b
    BY <1>1 DEF Numbered
  <1>3. b.seq \in 1..CountIn(t, none, b.key)
    BY DEF Numbered
  <1>4. QED
    BY <1>2, <1>3 DEF IssuedIn

LEMMA IssuedIsLog ==
  ASSUME NEW t, NEW K, NEW M, NEW none, Numbered(t, K, M, none), NEW k \in K
  PROVE  /\ IssuedIn(t, none, k) \in Seq(M)
         /\ Len(IssuedIn(t, none, k)) = CountIn(t, none, k)
         /\ CountIn(t, none, k) \in Nat
         /\ \A n \in 1..CountIn(t, none, k) :
              \E b \in t.bindings :
                b.key = k /\ b.seq = n /\ IssuedIn(t, none, k)[n] = b.mid
  <1> DEFINE count == CountIn(t, none, k)
             log == IssuedIn(t, none, k)
  <1>1. count \in Nat
    BY DEF Numbered
  <1>2. \A n \in 1..count :
          \E b \in t.bindings : b.key = k /\ b.seq = n /\ log[n] = b.mid /\ b.mid \in M
    <2> SUFFICES ASSUME NEW n \in 1..count
                 PROVE  \E b \in t.bindings :
                          b.key = k /\ b.seq = n /\ log[n] = b.mid /\ b.mid \in M
      OBVIOUS
    <2>1. PICK b \in t.bindings : b.key = k /\ b.seq = n /\ b.mid \in M
      BY DEF Numbered
    <2>2. log[n] = b.mid
      BY <2>1, NumberFound
    <2>3. QED
      BY <2>1, <2>2
  <1>3. log = [n \in 1..count |-> log[n]]
    BY DEF IssuedIn
  <1> HIDE DEF count, log
  <1>4. log \in [1..count -> M]
    BY <1>2, <1>3
  <1>5. log \in Seq(M)
    BY <1>1, <1>4, SeqDef
  <1>6. Len(log) = count
    BY <1>1, <1>4, <1>5, LenProperties
  <1>7. QED
    BY <1>1, <1>2, <1>5, <1>6 DEF count, log

-----------------------------------------------------------------------------
(* Two tables.                                                              *)

LEMMA OwnerInserted ==
  ASSUME NEW t, NEW u, NEW none, NEW row,
         \A a, b \in t.refs : a.ref = b.ref => a = b,
         \A a \in t.refs : a.ref # row.ref,
         u.refs = t.refs \cup {row}
  PROVE  \A r : OwnerIn(u, none, r) =
                  IF r = row.ref THEN <<row.ns, row.mid>> ELSE OwnerIn(t, none, r)
  <1>1. (\A a, b \in u.refs : a.ref = b.ref => a = b) /\ row \in u.refs
    OBVIOUS
  <1>2. OwnerIn(u, none, row.ref) = <<row.ns, row.mid>>
    BY <1>1, OwnerFound
  <1>3. ASSUME NEW r, r # row.ref
        PROVE  OwnerIn(u, none, r) = OwnerIn(t, none, r)
    <2>1. CASE \E a \in t.refs : a.ref = r
      <3>1. PICK a \in t.refs : a.ref = r
        BY <2>1
      <3>2. OwnerIn(t, none, r) = <<a.ns, a.mid>>
        BY <3>1, OwnerFound
      <3>3. OwnerIn(u, none, r) = <<a.ns, a.mid>>
        BY <1>1, <3>1, OwnerFound
      <3>4. QED
        BY <3>2, <3>3
    <2>2. CASE \A a \in t.refs : a.ref # r
      <3>1. \A a \in u.refs : a.ref # r
        BY <1>3, <2>2
      <3>2. QED
        BY <2>2, <3>1, OwnerMissing
    <2>3. QED
      BY <2>1, <2>2
  <1>4. QED
    BY <1>2, <1>3

\* A reference keeps its owner.
LEMMA OwnerStays ==
  ASSUME NEW t, NEW u, NEW none, NEW r, t.refs \subseteq u.refs,
         \A a, b \in u.refs : a.ref = b.ref => a = b,
         OwnerIn(t, none, r) # none
  PROVE  OwnerIn(u, none, r) = OwnerIn(t, none, r)
  <1>1. PICK row \in t.refs : row.ref = r
    BY DEF OwnerIn
  <1>2. OwnerIn(u, none, r) = <<row.ns, row.mid>>
    BY <1>1, OwnerFound
  <1>3. OwnerIn(t, none, r) = <<row.ns, row.mid>>
    BY <1>1, OwnerFound
  <1>4. QED
    BY <1>2, <1>3

\* A counter's log keeps its entries.
LEMMA LogExtends ==
  ASSUME NEW t, NEW u, NEW K, NEW M, NEW none,
         Numbered(t, K, M, none), Numbered(u, K, M, none),
         t.bindings \subseteq u.bindings, NEW k \in K
  PROVE  \A n \in 1..CountIn(t, none, k) :
           IssuedIn(u, none, k)[n] = IssuedIn(t, none, k)[n]
  <1> SUFFICES ASSUME NEW n \in 1..CountIn(t, none, k)
               PROVE  IssuedIn(u, none, k)[n] = IssuedIn(t, none, k)[n]
    OBVIOUS
  <1>1. PICK b \in t.bindings :
          b.key = k /\ b.seq = n /\ IssuedIn(t, none, k)[n] = b.mid
    BY IssuedIsLog
  <1>2. b \in u.bindings /\ b.key \in K
    BY <1>1
  <1>3. IssuedIn(u, none, b.key)[b.seq] = b.mid
    BY <1>2, NumberFound
  <1>4. QED
    BY <1>1, <1>3

\* And holds one MID once.
LEMMA LogIsInjective ==
  ASSUME NEW t, NEW K, NEW M, NEW none, Numbered(t, K, M, none), NEW k \in K,
         NEW i \in 1..CountIn(t, none, k), NEW j \in 1..CountIn(t, none, k),
         IssuedIn(t, none, k)[i] = IssuedIn(t, none, k)[j]
  PROVE  i = j
  <1>1. PICK a \in t.bindings : a.key = k /\ a.seq = i /\ IssuedIn(t, none, k)[i] = a.mid
    BY IssuedIsLog
  <1>2. PICK b \in t.bindings : b.key = k /\ b.seq = j /\ IssuedIn(t, none, k)[j] = b.mid
    BY IssuedIsLog
  <1>3. a.key = b.key /\ a.mid = b.mid
    BY <1>1, <1>2
  <1>4. \A x, y \in t.bindings : (x.key = y.key /\ x.mid = y.mid) => x = y
    BY DEF Numbered
  <1>5. a = b
    BY <1>3, <1>4
  <1>6. QED
    BY <1>1, <1>2, <1>5

\* Tables that have only grown hold longer logs.
LEMMA LogGrows ==
  ASSUME NEW t, NEW u, NEW K, NEW M, NEW none,
         Numbered(t, K, M, none), Numbered(u, K, M, none),
         Extends(t, u, K, none), NEW k \in K
  PROVE  /\ Len(IssuedIn(t, none, k)) <= Len(IssuedIn(u, none, k))
         /\ IssuedIn(t, none, k) =
              SubSeq(IssuedIn(u, none, k), 1, Len(IssuedIn(t, none, k)))
  <1> DEFINE old == IssuedIn(t, none, k)
             new == IssuedIn(u, none, k)
  <1>1. /\ old \in Seq(M) /\ new \in Seq(M)
        /\ Len(old) = CountIn(t, none, k) /\ Len(new) = CountIn(u, none, k)
        /\ CountIn(t, none, k) \in Nat /\ CountIn(u, none, k) \in Nat
    BY IssuedIsLog
  <1>2. CountIn(t, none, k) <= CountIn(u, none, k)
    BY <1>1 DEF Extends, CountIn
  <1>3. \A n \in 1..Len(old) : new[n] = old[n]
    BY <1>1, LogExtends DEF Extends
  <1> HIDE DEF old, new
  <1>4. \A n \in 1..Len(old) : new[n] \in M
    BY <1>1, <1>2, ElementOfSeq
  <1>5. /\ SubSeq(new, 1, Len(old)) \in Seq(M)
        /\ Len(SubSeq(new, 1, Len(old))) = Len(old)
        /\ \A n \in 1..Len(old) : SubSeq(new, 1, Len(old))[n] = new[n]
    <2>1. Len(old) \in Nat
      BY <1>1
    <2>2. /\ SubSeq(new, 1, Len(old)) \in Seq(M)
          /\ Len(SubSeq(new, 1, Len(old))) =
               IF 1 <= Len(old) THEN Len(old) - 1 + 1 ELSE 0
          /\ \A n \in 1..(Len(old) - 1 + 1) : SubSeq(new, 1, Len(old))[n] = new[1 + n - 1]
      BY <1>4, <2>1, SubSeqProperties
    <2>3. QED
      BY <2>1, <2>2
  <1>6. old = SubSeq(new, 1, Len(old))
    BY <1>1, <1>3, <1>5, SeqEqual
  <1>7. QED
    BY <1>1, <1>2, <1>6 DEF old, new

\* One more binding is one more entry at the end of its counter's log.
LEMMA LogAppends ==
  ASSUME NEW t, NEW u, NEW K, NEW M, NEW none,
         Numbered(t, K, M, none), Numbered(u, K, M, none),
         NEW new, new.key \in K, u.bindings = t.bindings \cup {new},
         CountIn(u, none, new.key) = CountIn(t, none, new.key) + 1,
         new.seq = CountIn(u, none, new.key)
  PROVE  IssuedIn(u, none, new.key) = Append(IssuedIn(t, none, new.key), new.mid)
  <1> DEFINE old == IssuedIn(t, none, new.key)
             log == IssuedIn(u, none, new.key)
             n == CountIn(t, none, new.key)
  <1>1. /\ old \in Seq(M) /\ Len(old) = n /\ n \in Nat
        /\ log \in Seq(M) /\ Len(log) = n + 1
    BY IssuedIsLog
  <1>2. new \in u.bindings /\ new.mid \in M
    BY DEF Numbered
  <1>3. log[n + 1] = new.mid
    BY <1>2, NumberFound
  <1>4. \A i \in 1..n : log[i] = old[i]
    BY LogExtends
  <1> HIDE DEF old, log, n
  <1>5. /\ Append(old, new.mid) \in Seq(M)
        /\ Len(Append(old, new.mid)) = n + 1
        /\ \A i \in 1..n : Append(old, new.mid)[i] = old[i]
        /\ Append(old, new.mid)[n + 1] = new.mid
    BY <1>1, <1>2
  <1>6. \A i \in 1..Len(log) : log[i] = Append(old, new.mid)[i]
    BY <1>1, <1>3, <1>4, <1>5
  <1>7. log = Append(old, new.mid)
    BY <1>1, <1>5, <1>6, SeqEqual
  <1>8. QED
    BY <1>7 DEF old, log

\* The other logs stay the same.
LEMMA LogStays ==
  ASSUME NEW t, NEW u, NEW K, NEW M, NEW none,
         Numbered(t, K, M, none), Numbered(u, K, M, none),
         t.bindings \subseteq u.bindings,
         NEW k \in K, CountIn(u, none, k) = CountIn(t, none, k)
  PROVE  IssuedIn(u, none, k) = IssuedIn(t, none, k)
  <1>1. \A n \in 1..CountIn(t, none, k) :
          IssuedIn(u, none, k)[n] = IssuedIn(t, none, k)[n]
    BY LogExtends
  <1>2. /\ IssuedIn(u, none, k) \in Seq(M) /\ IssuedIn(t, none, k) \in Seq(M)
        /\ Len(IssuedIn(u, none, k)) = Len(IssuedIn(t, none, k))
        /\ Len(IssuedIn(u, none, k)) = CountIn(t, none, k)
    BY IssuedIsLog
  <1>3. QED
    BY <1>1, <1>2, SeqEqual

-----------------------------------------------------------------------------
(* The steps of a contract store.                                           *)

\* A reference is reserved.
Reserves(t, u, row) ==
  /\ u.counters = t.counters /\ u.bindings = t.bindings
  /\ u.refs = t.refs \cup {row}
  /\ \A other \in t.refs : other.ref # row.ref

\* A counter gives its next number to a binding.
Allocates(t, u, none, new) ==
  /\ u.refs = t.refs
  /\ u.bindings = t.bindings \cup {new}
  /\ u.counters = [t.counters EXCEPT ![new.key] =
                     [prefix |-> new.prefix, width |-> new.width, last |-> new.seq]]
  /\ u.counters[new.key] # none
  /\ new.seq = CountIn(t, none, new.key) + 1
  /\ PolicyIn(t, none, new.key) \in {none, <<new.prefix, new.width>>}

\* Nobody owned the reference, and its reservation changes nothing else.
Reserved(t, u, K, none, row) ==
  /\ OwnerIn(t, none, row.ref) = none
  /\ \A r : OwnerIn(u, none, r) =
              IF r = row.ref THEN <<row.ns, row.mid>> ELSE OwnerIn(t, none, r)
  /\ \A k \in K : /\ PolicyIn(u, none, k) = PolicyIn(t, none, k)
                  /\ IssuedIn(u, none, k) = IssuedIn(t, none, k)

\* The log of that counter gets the new MID at its end.
Appended(t, u, K, none, new) ==
  /\ PolicyIn(t, none, new.key) \in {none, <<new.prefix, new.width>>}
  /\ \A n \in 1..Len(IssuedIn(t, none, new.key)) :
       IssuedIn(t, none, new.key)[n] # new.mid
  /\ Len(IssuedIn(t, none, new.key)) + 1 = new.seq
  /\ \A k \in K :
       /\ PolicyIn(u, none, k) =
            IF k = new.key THEN <<new.prefix, new.width>> ELSE PolicyIn(t, none, k)
       /\ IssuedIn(u, none, k) =
            IF k = new.key THEN Append(IssuedIn(t, none, k), new.mid)
            ELSE IssuedIn(t, none, k)
  /\ \A r : OwnerIn(u, none, r) = OwnerIn(t, none, r)

\* Owners and policies stay, and the logs grow at their ends by new MIDs.
Batched(t, u, K, none) ==
  /\ \A r : OwnerIn(t, none, r) # none => OwnerIn(u, none, r) = OwnerIn(t, none, r)
  /\ \A k \in K :
       /\ PolicyIn(t, none, k) # none => PolicyIn(u, none, k) = PolicyIn(t, none, k)
       /\ u.counters[k] = none => IssuedIn(u, none, k) = << >>
       /\ Len(IssuedIn(t, none, k)) <= Len(IssuedIn(u, none, k))
       /\ IssuedIn(t, none, k) =
            SubSeq(IssuedIn(u, none, k), 1, Len(IssuedIn(t, none, k)))
       /\ \A i, j \in 1..Len(IssuedIn(u, none, k)) :
            IssuedIn(u, none, k)[i] = IssuedIn(u, none, k)[j] => i = j
       /\ Len(IssuedIn(u, none, k)) = CountIn(u, none, k)

LEMMA ReserveIs ==
  ASSUME NEW t, NEW u, NEW K, NEW none, NEW row, Reserves(t, u, row),
         \A a, b \in t.refs : a.ref = b.ref => a = b
  PROVE  Reserved(t, u, K, none, row)
  <1>1. OwnerIn(t, none, row.ref) = none
    BY OwnerMissing DEF Reserves
  <1>2. \A r : OwnerIn(u, none, r) =
                 IF r = row.ref THEN <<row.ns, row.mid>> ELSE OwnerIn(t, none, r)
    BY OwnerInserted DEF Reserves
  <1>3. \A k \in K : /\ PolicyIn(u, none, k) = PolicyIn(t, none, k)
                     /\ IssuedIn(u, none, k) = IssuedIn(t, none, k)
    BY DEF Reserves, PolicyIn, IssuedIn, CountIn
  <1>4. QED
    BY <1>1, <1>2, <1>3 DEF Reserved

LEMMA AllocateIs ==
  ASSUME NEW t, NEW u, NEW K, NEW M, NEW none, NEW new, new.key \in K,
         DOMAIN t.counters = K, Allocates(t, u, none, new),
         Numbered(t, K, M, none), Numbered(u, K, M, none)
  PROVE  Appended(t, u, K, none, new)
  <1>1. /\ CountIn(u, none, new.key) = new.seq
        /\ PolicyIn(u, none, new.key) = <<new.prefix, new.width>>
        /\ new.seq = CountIn(t, none, new.key) + 1
        /\ u.bindings = t.bindings \cup {new}
    BY DEF Allocates, CountIn, PolicyIn
  <1>2. ASSUME NEW k \in K, k # new.key
        PROVE  /\ CountIn(u, none, k) = CountIn(t, none, k)
               /\ PolicyIn(u, none, k) = PolicyIn(t, none, k)
    BY <1>2 DEF Allocates, CountIn, PolicyIn
  <1>3. IssuedIn(u, none, new.key) = Append(IssuedIn(t, none, new.key), new.mid)
    BY <1>1, LogAppends
  <1>4. \A k \in K \ {new.key} : IssuedIn(u, none, k) = IssuedIn(t, none, k)
    BY <1>1, <1>2, LogStays
  <1>5. /\ Len(IssuedIn(t, none, new.key)) = CountIn(t, none, new.key)
        /\ CountIn(t, none, new.key) \in Nat
    BY IssuedIsLog
  <1>6. ASSUME NEW n \in 1..CountIn(t, none, new.key),
               IssuedIn(t, none, new.key)[n] = new.mid
        PROVE  FALSE
    <2>1. PICK b \in t.bindings : b.key = new.key /\ b.seq = n /\ b.mid = new.mid
      BY <1>6, IssuedIsLog
    <2>2. \A x, y \in u.bindings : (x.key = y.key /\ x.mid = y.mid) => x = y
      BY DEF Numbered
    <2>3. b = new
      BY <1>1, <2>1, <2>2
    <2>4. QED
      BY <1>1, <1>5, <2>1, <2>3
  <1>7. \A r : OwnerIn(u, none, r) = OwnerIn(t, none, r)
    BY DEF Allocates, OwnerIn
  <1>8. QED
    BY <1>1, <1>2, <1>3, <1>4, <1>5, <1>6, <1>7 DEF Allocates, Appended

\* Any number of them.
LEMMA BatchIs ==
  ASSUME NEW t, NEW u, NEW K, NEW M, NEW none,
         Numbered(t, K, M, none), Numbered(u, K, M, none), Extends(t, u, K, none)
  PROVE  Batched(t, u, K, none)
  <1>1. \A r : OwnerIn(t, none, r) # none => OwnerIn(u, none, r) = OwnerIn(t, none, r)
    BY OwnerStays DEF Numbered, Extends
  <1>2. SUFFICES ASSUME NEW k \in K
        PROVE  /\ PolicyIn(t, none, k) # none => PolicyIn(u, none, k) = PolicyIn(t, none, k)
               /\ u.counters[k] = none => IssuedIn(u, none, k) = << >>
               /\ Len(IssuedIn(t, none, k)) <= Len(IssuedIn(u, none, k))
               /\ IssuedIn(t, none, k) =
                    SubSeq(IssuedIn(u, none, k), 1, Len(IssuedIn(t, none, k)))
               /\ \A i, j \in 1..Len(IssuedIn(u, none, k)) :
                    IssuedIn(u, none, k)[i] = IssuedIn(u, none, k)[j] => i = j
               /\ Len(IssuedIn(u, none, k)) = CountIn(u, none, k)
    BY <1>1 DEF Batched
  <1>3. PolicyIn(t, none, k) # none => PolicyIn(u, none, k) = PolicyIn(t, none, k)
    BY DEF Extends, PolicyIn
  <1>4. /\ IssuedIn(u, none, k) \in Seq(M)
        /\ Len(IssuedIn(u, none, k)) = CountIn(u, none, k)
    BY IssuedIsLog
  <1>5. u.counters[k] = none => IssuedIn(u, none, k) = << >>
    <2>1. u.counters[k] = none => Len(IssuedIn(u, none, k)) = 0
      BY <1>4 DEF CountIn
    <2>2. QED
      BY <1>4, <2>1, EmptySeq
  <1>6. /\ Len(IssuedIn(t, none, k)) <= Len(IssuedIn(u, none, k))
        /\ IssuedIn(t, none, k) =
             SubSeq(IssuedIn(u, none, k), 1, Len(IssuedIn(t, none, k)))
    BY LogGrows
  <1>7. \A i, j \in 1..Len(IssuedIn(u, none, k)) :
          IssuedIn(u, none, k)[i] = IssuedIn(u, none, k)[j] => i = j
    BY <1>4, LogIsInjective
  <1>8. QED
    BY <1>3, <1>4, <1>5, <1>6, <1>7
=============================================================================
