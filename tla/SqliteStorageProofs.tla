------------------------- MODULE SqliteStorageProofs -------------------------
(***************************************************************************)
(* What SqliteStorage guarantees for every number of connections, with any *)
(* mix of ports, and for every number of counters, MIDs, references and    *)
(* widths.                                                                 *)
(***************************************************************************)
EXTENDS SqliteStorage, ContractLemmas

-----------------------------------------------------------------------------
(* The inductive invariant. *)

\* A call in progress was asked for something valid, and so was a refusal.
CallsTyped(c) ==
  /\ pc[c] # "idle" => req[c] \in AllocationRequest /\ req[c].width \in ValidWidths
  /\ answer[c] \in {Policy, "sequence_overflow"} => req[c] \in AllocationRequest

\* The write lock belongs to an open transaction, and that of a call has it
\* from BEGIN IMMEDIATE to the end of the call.
LockHeld(c) ==
  /\ writer = c => tx[c] # "none"
  /\ tx[c] = "own" => writer = c
  /\ tx[c] = "own" <=> pc[c] \in Steps \ {"begin"}
  /\ results[c] # {} => tx[c] = "caller" /\ writer = c

\* Tables u have everything tables t have.
Grows(t, u) ==
  /\ t.refs \subseteq u.refs
  /\ t.bindings \subseteq u.bindings
  /\ \A k \in Keys : t.counters[k] # NoRow =>
       /\ u.counters[k] # NoRow
       /\ SamePolicy(u.counters[k], t.counters[k])
       /\ t.counters[k].last <= u.counters[k].last

\* The MID of a request has no number.
Unbound(t, r) == \A b \in t.bindings : b.key = r.key => b.mid # r.mid

\* Tables in which request r can be given number n.
Ready(t, r, n) ==
  /\ Sound(t)
  /\ Grows(store, t)
  /\ Unbound(t, r)
  /\ t.counters[r.key] # NoRow
  /\ SamePolicy(t.counters[r.key], r)
  /\ n = t.counters[r.key].last + 1
  /\ n <= Capacity[r.width]

SeedOf(r) == [prefix |-> r.prefix, width |-> r.width, last |-> 0]

\* What the INSERT of the counter makes of the file.
Seeded(r) ==
  IF HasConflict(store.counters, r) THEN store
  ELSE [store EXCEPT !.counters[r.key] = SeedOf(r)]

\* The draft just before the counter was updated.
Before(c) == [draft EXCEPT !.counters[req[c].key].last = number[c] - 1]

\* What the statements of a call have made of the file so far.
DraftFits(c) ==
  /\ tx[c] = "caller" => Sound(draft) /\ Grows(store, draft)
  /\ pc[c] \in {"replay", "seed"} => draft = store
  /\ pc[c] \in {"seed", "policy"} => Unbound(store, req[c])
  /\ pc[c] = "policy" => draft = Seeded(req[c])
  /\ pc[c] = "update" => Ready(draft, req[c], number[c])
  /\ pc[c] = "bind" =>
       /\ number[c] # 0
       /\ draft.counters[req[c].key] # NoRow
       /\ draft.counters[req[c].key].last = number[c]
       /\ Ready(Before(c), req[c], number[c])
  /\ pc[c] = "commit" =>
       /\ Sound(draft) /\ Grows(store, draft)
       /\ Binding(req[c], number[c]) \in draft.bindings

\* Tables t hold what was answered.
Kept(t, a) ==
  \/ a.kind = "allocated" /\ a.row \in t.bindings
  \/ a.kind = "won" /\ a.row \in t.refs
  \/ a.kind = "refused" /\ \E row \in t.refs : row.ref = a.ref

TypeInv == TypeOK /\ \A c \in Connections : CallsTyped(c)

LockInv ==
  /\ writer = Nobody => draft = store
  /\ \A c \in Connections : LockHeld(c)

DraftInv ==
  /\ Sound(store)
  /\ \A c \in Connections : writer = c => DraftFits(c)

AnswersInv ==
  /\ \A a \in acked : Kept(store, a)
  /\ \A c \in Connections : \A a \in results[c] : Kept(draft, a)

IInv == TypeInv /\ LockInv /\ DraftInv /\ AnswersInv /\ RefusalIsFinal

-----------------------------------------------------------------------------
(* Lemmas about tables. *)

LEMMA SoundEmpty == Sound(EmptyTables)
  BY DEF Sound, EmptyTables

\* A new reference changes no counter.
LEMMA SoundReserve ==
  ASSUME NEW t \in Tables, Sound(t), NEW row \in ReferenceRow,
         \A other \in t.refs : other.ref # row.ref
  PROVE  Sound([t EXCEPT !.refs = @ \cup {row}])
  <1> DEFINE u == [t EXCEPT !.refs = @ \cup {row}]
  <1>1. /\ u.refs = t.refs \cup {row}
        /\ u.counters = t.counters /\ u.bindings = t.bindings
    BY DEF Tables
  <1> HIDE DEF u
  <1>2. Sound(u)
    BY <1>1 DEF Sound
  <1>3. QED
    BY <1>2 DEF u

\* One counter of the tables gets another row.
LEMMA SetCounter ==
  ASSUME NEW t \in Tables, NEW k \in Keys, NEW row \in CounterRow
  PROVE  LET u == [t EXCEPT !.counters[k] = row] IN
         /\ u \in Tables
         /\ u.refs = t.refs /\ u.bindings = t.bindings
         /\ u.counters[k] = row
         /\ \A l \in Keys : l # k => u.counters[l] = t.counters[l]
  <1> DEFINE f == [t.counters EXCEPT ![k] = row]
             u == [t EXCEPT !.counters = f]
  <1>1. /\ f \in [Keys -> CounterRow \cup {NoRow}]
        /\ f[k] = row
        /\ \A l \in Keys : l # k => f[l] = t.counters[l]
    BY DEF Tables
  <1> HIDE DEF f
  <1>2. /\ u \in Tables /\ u.counters = f
        /\ u.refs = t.refs /\ u.bindings = t.bindings
    BY <1>1 DEF Tables
  <1>3. [t EXCEPT !.counters[k] = row] = u
    BY DEF f
  <1>4. QED
    BY <1>1, <1>2, <1>3

\* A counter that has just been inserted has given out nothing.
LEMMA SoundSeed ==
  ASSUME NEW t \in Tables, Sound(t), NEW r \in AllocationRequest,
         r.width \in ValidWidths, ~HasConflict(t.counters, r)
  PROVE  Sound([t EXCEPT !.counters[r.key] = SeedOf(r)])
  <1> DEFINE row == SeedOf(r)
             u == [t EXCEPT !.counters[r.key] = row]
  <1>1. /\ r.key \in Keys /\ row \in CounterRow
        /\ row.last = 0 /\ row.prefix = r.prefix /\ row.width = r.width
    BY DEF SeedOf, AllocationRequest, CounterRow
  <1>2. row # NoRow /\ row.last <= Capacity[row.width]
    BY <1>1, NamesAssumption, WidthsAssumption
  <1> HIDE DEF row
  <1>3. /\ u.refs = t.refs /\ u.bindings = t.bindings
        /\ u.counters[r.key] = row
        /\ \A l \in Keys : l # r.key => u.counters[l] = t.counters[l]
    <2> DEFINE f == [t.counters EXCEPT ![r.key] = row]
    <2>1. /\ f[r.key] = row
          /\ \A l \in Keys : l # r.key => f[l] = t.counters[l]
      BY <1>1 DEF Tables
    <2>2. u.refs = t.refs /\ u.bindings = t.bindings /\ u.counters = f
      BY DEF Tables
    <2>3. QED
      BY <2>1, <2>2
  <1> HIDE DEF u
  <1>4. \A b \in u.bindings : b.key # r.key
    BY <1>1, <1>3 DEF Sound, HasConflict
  <1>5. ASSUME NEW k \in Keys
        PROVE  /\ \A b \in u.bindings : b.key = k =>
                    /\ u.counters[k] # NoRow /\ b.seq \in 1..u.counters[k].last
                    /\ SamePolicy(b, u.counters[k])
               /\ u.counters[k] # NoRow =>
                    /\ u.counters[k].last <= Capacity[u.counters[k].width]
                    /\ \A n \in 1..u.counters[k].last :
                         \E b \in u.bindings : b.key = k /\ b.seq = n
    <2>1. CASE k = r.key
      BY <1>1, <1>2, <1>3, <1>4, <2>1
    <2>2. CASE k # r.key
      BY <1>3, <2>2 DEF Sound
    <2>3. QED
      BY <2>1, <2>2
  <1>6. \A k, l \in Keys :
          (u.counters[k] # NoRow /\ u.counters[l] # NoRow /\ k[2] = l[2]
             /\ u.counters[k].prefix = u.counters[l].prefix) => k = l
    BY <1>1, <1>3 DEF Sound, HasConflict
  <1>7. Sound(u)
    BY <1>3, <1>5, <1>6 DEF Sound
  <1>8. QED
    BY <1>7 DEF u, row

\* Counter and binding together move from one sound file to the next.
LEMMA SoundBind ==
  ASSUME NEW t \in Tables, NEW u \in Tables, NEW r \in AllocationRequest,
         NEW n \in Nat, Ready(t, r, n), store \in Tables,
         u.refs = t.refs,
         u.bindings = t.bindings \cup {Binding(r, n)},
         u.counters[r.key] # NoRow,
         u.counters[r.key].last = n, SamePolicy(u.counters[r.key], r),
         \A l \in Keys : l # r.key => u.counters[l] = t.counters[l]
  PROVE  Sound(u) /\ Grows(store, u)
  <1> DEFINE new == Binding(r, n)
             row == t.counters[r.key]
             next == u.counters[r.key]
  <1>1. /\ new.key = r.key /\ new.seq = n /\ new.mid = r.mid
        /\ SamePolicy(new, r) /\ r.key \in Keys
    BY DEF Binding, SamePolicy, AllocationRequest
  <1>2. /\ Sound(t) /\ Grows(store, t) /\ Unbound(t, r)
        /\ row # NoRow /\ SamePolicy(row, r)
        /\ n = row.last + 1 /\ n <= Capacity[r.width]
    BY DEF Ready
  <1>3. /\ row \in CounterRow /\ row.last \in Nat
    BY <1>1, <1>2 DEF Tables, CounterRow
  <1>4. /\ next # NoRow /\ next.last = n
        /\ SamePolicy(next, row) /\ SamePolicy(next, r) /\ SamePolicy(next, new)
    BY <1>1, <1>2 DEF SamePolicy
  <1>5. \A b \in t.bindings : b.key = r.key =>
          b.seq \in 1..row.last /\ SamePolicy(b, row) /\ b.mid # r.mid
    BY <1>1, <1>2 DEF Sound, Unbound
  <1> HIDE DEF new, row, next
  <1>6. ASSUME NEW k \in Keys
        PROVE  /\ \A b \in u.bindings : b.key = k =>
                    /\ u.counters[k] # NoRow /\ b.seq \in 1..u.counters[k].last
                    /\ SamePolicy(b, u.counters[k])
               /\ u.counters[k] # NoRow =>
                    /\ u.counters[k].last <= Capacity[u.counters[k].width]
                    /\ \A m \in 1..u.counters[k].last :
                         \E b \in u.bindings : b.key = k /\ b.seq = m
    <2>1. CASE k = r.key
      <3>1. \A b \in u.bindings : b.key = k =>
              b.seq \in 1..n /\ SamePolicy(b, next)
        BY <1>1, <1>2, <1>3, <1>4, <1>5, <2>1 DEF SamePolicy, new
      <3>2. \A m \in 1..row.last : \E b \in t.bindings : b.key = k /\ b.seq = m
        BY <1>2, <2>1 DEF Sound, row
      <3>3. \A m \in 1..n : \E b \in u.bindings : b.key = k /\ b.seq = m
        BY <1>1, <1>2, <1>3, <2>1, <3>2 DEF new
      <3>4. next.last <= Capacity[next.width]
        BY <1>2, <1>4 DEF SamePolicy
      <3>5. QED
        BY <1>4, <2>1, <3>1, <3>3, <3>4 DEF next
    <2>2. CASE k # r.key
      <3>1. u.counters[k] = t.counters[k]
        BY <2>2
      <3>2. \A b \in u.bindings : b.key = k => b \in t.bindings
        BY <1>1, <2>2 DEF new
      <3>3. QED
        BY <1>2, <3>1, <3>2 DEF Sound
    <2>3. QED
      BY <2>1, <2>2
  <1>7. \A b, c \in u.bindings :
          b.key = c.key /\ (b.seq = c.seq \/ b.mid = c.mid) => b = c
    <2>1. \A b \in t.bindings : b.key = r.key => b.seq # n /\ b.mid # r.mid
      BY <1>2, <1>3, <1>5
    <2>2. \A b, c \in t.bindings :
            b.key = c.key /\ (b.seq = c.seq \/ b.mid = c.mid) => b = c
      BY <1>2 DEF Sound
    <2>3. QED
      BY <1>1, <2>1, <2>2 DEF new
  <1>8. \A k, l \in Keys :
          (u.counters[k] # NoRow /\ u.counters[l] # NoRow /\ k[2] = l[2]
             /\ u.counters[k].prefix = u.counters[l].prefix) => k = l
    <2>1. \A k \in Keys : u.counters[k] # NoRow =>
            t.counters[k] # NoRow /\ t.counters[k].prefix = u.counters[k].prefix
      BY <1>1, <1>2, <1>4 DEF row, next, SamePolicy
    <2>2. QED
      BY <1>2, <2>1 DEF Sound
  <1>9. \A a, b \in u.refs : a.ref = b.ref => a = b
    BY <1>2 DEF Sound
  <1>10. Sound(u)
    BY <1>6, <1>7, <1>8, <1>9 DEF Sound
  <1>11. Grows(store, u)
    <2>1. store.refs \subseteq u.refs /\ store.bindings \subseteq u.bindings
      BY <1>2 DEF Grows
    <2>2. ASSUME NEW k \in Keys, store.counters[k] # NoRow
          PROVE  /\ u.counters[k] # NoRow
                 /\ SamePolicy(u.counters[k], store.counters[k])
                 /\ store.counters[k].last <= u.counters[k].last
      <3>1. /\ t.counters[k] # NoRow
            /\ SamePolicy(t.counters[k], store.counters[k])
            /\ store.counters[k].last <= t.counters[k].last
        BY <1>2, <2>2 DEF Grows
      <3>2. CASE k = r.key
        <4>1. store.counters[k].last \in Nat
          BY <2>2 DEF Tables, CounterRow
        <4>2. QED
          BY <1>2, <1>3, <1>4, <3>1, <3>2, <4>1 DEF row, next, SamePolicy
      <3>3. CASE k # r.key
        BY <3>1, <3>3
      <3>4. QED
        BY <3>2, <3>3
    <2>3. QED
      BY <2>1, <2>2 DEF Grows
  <1>12. QED
    BY <1>10, <1>11

LEMMA GrowsReflexive ==
  ASSUME NEW t \in Tables
  PROVE  Grows(t, t)
  BY DEF Grows, Tables, CounterRow, SamePolicy

\* The file after the INSERT of the counter.
LEMMA SoundSeeded ==
  ASSUME store \in Tables, Sound(store),
         NEW r \in AllocationRequest, r.width \in ValidWidths
  PROVE  /\ Seeded(r) \in Tables
         /\ Sound(Seeded(r))
         /\ Grows(store, Seeded(r))
         /\ Seeded(r).bindings = store.bindings
  <1>1. CASE HasConflict(store.counters, r)
    BY <1>1, GrowsReflexive DEF Seeded
  <1>2. CASE ~HasConflict(store.counters, r)
    <2> DEFINE u == [store EXCEPT !.counters[r.key] = SeedOf(r)]
    <2>1. r.key \in Keys /\ SeedOf(r) \in CounterRow
      BY DEF SeedOf, AllocationRequest, CounterRow
    <2>2. /\ u \in Tables /\ u.refs = store.refs /\ u.bindings = store.bindings
          /\ \A l \in Keys : l # r.key => u.counters[l] = store.counters[l]
      BY <2>1, SetCounter
    <2>3. Sound(u)
      BY <1>2, SoundSeed
    <2>4. store.counters[r.key] = NoRow
      BY <1>2 DEF HasConflict
    <2> HIDE DEF u
    <2>5. Grows(store, u)
      BY <2>2, <2>4, GrowsReflexive DEF Grows
    <2>6. Seeded(r) = u
      BY <1>2 DEF Seeded, u
    <2>7. QED
      BY <2>2, <2>3, <2>5, <2>6
  <1>3. QED
    BY <1>1, <1>2

\* What was answered stays in tables that only grow.
LEMMA KeptGrows ==
  ASSUME NEW t, NEW u, Grows(t, u), NEW a, Kept(t, a)
  PROVE  Kept(u, a)
  BY DEF Grows, Kept

\* The tables justify a refusal.
Justified(t, r, code) ==
  /\ code = "sequence_overflow" =>
       /\ t.counters[r.key] # NoRow
       /\ SamePolicy(t.counters[r.key], r)
       /\ t.counters[r.key].last = Capacity[r.width]
       /\ Unbound(t, r)
  /\ code = Policy =>
       \/ r.width \notin ValidWidths
       \/ /\ HasConflict(t.counters, r)
          /\ t.counters[r.key] # NoRow => ~SamePolicy(t.counters[r.key], r)

LEMMA RefusalsJustified ==
  RefusalIsFinal <=> \A c \in Connections : Justified(store, req[c], answer[c])
  BY DEF RefusalIsFinal, Justified, Unbound

\* A full counter stays full, and a policy that is in the way stays there.
LEMMA JustifiedGrows ==
  ASSUME NEW t \in Tables, NEW u \in Tables, Sound(t), Sound(u), Grows(t, u),
         NEW r \in AllocationRequest, NEW code, Justified(t, r, code)
  PROVE  Justified(u, r, code)
  <1>1. r.key \in Keys
    BY DEF AllocationRequest
  <1>2. ASSUME code = "sequence_overflow"
        PROVE  /\ u.counters[r.key] # NoRow
               /\ SamePolicy(u.counters[r.key], r)
               /\ u.counters[r.key].last = Capacity[r.width]
               /\ Unbound(u, r)
    <2> DEFINE old == t.counters[r.key]
               now == u.counters[r.key]
    <2>1. /\ old # NoRow /\ SamePolicy(old, r) /\ old.last = Capacity[r.width]
          /\ Unbound(t, r)
      BY <1>2 DEF Justified
    <2>2. now # NoRow /\ SamePolicy(now, old) /\ old.last <= now.last
      BY <1>1, <2>1 DEF Grows
    <2>3. now \in CounterRow /\ old \in CounterRow
      BY <1>1, <2>1, <2>2 DEF Tables
    <2>4. now.last <= Capacity[now.width]
      BY <1>1, <2>2 DEF Sound
    <2>5. now.last = old.last /\ SamePolicy(now, r)
      BY <2>1, <2>2, <2>3, <2>4 DEF SamePolicy, CounterRow
    <2>6. ASSUME NEW b \in u.bindings, b.key = r.key, b.mid = r.mid
          PROVE  FALSE
      <3>1. b.seq \in 1..old.last
        BY <1>1, <2>5, <2>6 DEF Sound
      <3>2. PICK other \in t.bindings : other.key = r.key /\ other.seq = b.seq
        BY <1>1, <2>1, <3>1 DEF Sound
      <3>3. other = b
        BY <2>6, <3>2 DEF Sound, Grows
      <3>4. QED
        BY <2>1, <2>6, <3>2, <3>3 DEF Unbound
    <2>7. QED
      BY <2>1, <2>2, <2>5, <2>6 DEF Unbound
  <1>3. ASSUME code = Policy, r.width \in ValidWidths
        PROVE  /\ HasConflict(u.counters, r)
               /\ u.counters[r.key] # NoRow => ~SamePolicy(u.counters[r.key], r)
    <2>1. /\ HasConflict(t.counters, r)
          /\ t.counters[r.key] # NoRow => ~SamePolicy(t.counters[r.key], r)
      BY <1>3 DEF Justified
    <2>2. CASE t.counters[r.key] # NoRow
      BY <1>1, <2>1, <2>2 DEF Grows, HasConflict, SamePolicy
    <2>3. CASE t.counters[r.key] = NoRow
      <3>1. PICK k \in Keys : /\ t.counters[k] # NoRow /\ k[2] = r.key[2]
                              /\ t.counters[k].prefix = r.prefix
        BY <2>1, <2>3 DEF HasConflict
      <3>2. u.counters[k] # NoRow /\ u.counters[k].prefix = r.prefix
        BY <3>1 DEF Grows, SamePolicy
      <3>3. k # r.key
        BY <2>3, <3>1
      <3>4. QED
        BY <1>1, <3>1, <3>2, <3>3 DEF HasConflict, Sound, SamePolicy
    <2>4. QED
      BY <2>2, <2>3
  <1>4. QED
    BY <1>2, <1>3 DEF Justified

-----------------------------------------------------------------------------
(* The write lock. *)

LEMMA LockStep == IInv /\ [Next]_vars => LockInv'
  <1> SUFFICES ASSUME IInv, [Next]_vars PROVE LockInv'
    OBVIOUS
  <1>0. /\ TypeOK
        /\ writer = Nobody => draft = store
        /\ \A c \in Connections : LockHeld(c)
    BY DEF IInv, TypeInv, LockInv
  <1>1. ASSUME NEW c \in Connections, CallerBegin(c) PROVE LockInv'
    BY <1>0, <1>1, NamesAssumption DEF CallerBegin, TypeOK, LockInv, LockHeld, Steps
  <1>2. ASSUME NEW c \in Connections, CallerCommit(c) \/ CallerRollback(c) \/ Crash(c)
        PROVE  LockInv'
    BY <1>0, <1>2, NamesAssumption
       DEF CallerCommit, CallerRollback, Crash, EndTransaction, CanWrite, View,
           TypeOK, LockInv, LockHeld, Steps
  <1>3. ASSUME NEW c \in Connections, NEW code, Fail(c, code), pc[c] # "idle"
        PROVE  LockInv'
    BY <1>0, <1>3, NamesAssumption
       DEF Fail, EndTransaction, CanWrite, TypeOK, LockInv, LockHeld, Steps
  <1>4. ASSUME NEW c \in Connections, NEW row \in Reservations, Reserve(c, row)
        PROVE  LockInv'
    <2>1. /\ pc[c] = "idle" /\ tx' = tx /\ pc' = pc /\ writer \in {Nobody, c}
          /\ IF tx[c] = "caller" THEN writer' = c
                                 ELSE writer' = writer /\ draft' = store'
      BY <1>4 DEF Reserve, CanWrite
    <2>2. /\ \A d \in Connections : d # c => results'[d] = results[d]
          /\ tx[c] # "caller" => results' = results
      BY <1>0, <1>4 DEF Reserve, Answered, TypeOK
    <2>3. QED
      BY <1>0, <2>1, <2>2, NamesAssumption DEF TypeOK, LockInv, LockHeld, Steps
  <1>5. ASSUME NEW c \in Connections, ReserveBusy(c) PROVE LockInv'
    BY <1>0, <1>5 DEF ReserveBusy, LockInv, LockHeld
  <1>6. ASSUME NEW c \in Connections, NEW r \in Requests, CallAllocate(c, r)
        PROVE  LockInv'
    BY <1>0, <1>6 DEF CallAllocate, Goto, TypeOK, LockInv, LockHeld, Steps
  <1>7. ASSUME NEW c \in Connections, Begin(c) PROVE LockInv'
    BY <1>0, <1>7, NamesAssumption DEF Begin, Goto, TypeOK, LockInv, LockHeld, Steps
  <1>8. ASSUME NEW c \in Connections, NEW step, NEW t, Proceed(c, step, t),
               pc[c] \in Steps \ {"begin"}, step \in Steps \ {"begin"}
        PROVE  LockInv'
    BY <1>0, <1>8, NamesAssumption DEF Proceed, Goto, TypeOK, LockInv, LockHeld, Steps
  <1>9. ASSUME NEW c \in Connections, CommitOwn(c) PROVE LockInv'
    BY <1>0, <1>9, NamesAssumption DEF CommitOwn, Goto, TypeOK, LockInv, LockHeld, Steps
  <1>10. ASSUME NEW c \in Connections, Allocation(c) PROVE LockInv'
    <2>1. CASE BeginFails(c) \/ CommitBusy(c)
      BY <1>3, <2>1 DEF BeginFails, CommitBusy
    <2>2. CASE Replay(c)
      BY <1>3, <1>8, <2>2 DEF Replay, Steps
    <2>3. CASE Seed(c) \/ Update(c)
      BY <1>8, <2>3 DEF Seed, Update, Steps
    <2>4. CASE CheckPolicy(c)
      BY <1>3, <1>8, <2>4 DEF CheckPolicy, Steps
    <2>5. CASE Bind(c)
      BY <1>3, <1>8, <2>5 DEF Bind, Steps
    <2>6. QED
      BY <1>7, <1>9, <1>10, <2>1, <2>2, <2>3, <2>4, <2>5 DEF Allocation
  <1>11. CASE UNCHANGED vars
    BY <1>0, <1>11 DEF vars, LockInv, LockHeld
  <1>12. QED
    BY <1>1, <1>2, <1>4, <1>5, <1>6, <1>10, <1>11 DEF Next

-----------------------------------------------------------------------------
(* Types. *)

\* What a connection reads are tables.
LEMMA ViewType ==
  ASSUME TypeOK, NEW c \in Connections
  PROVE  View(c) \in Tables
  BY DEF TypeOK, View

\* The row a request binds.
LEMMA BindingType ==
  ASSUME NEW r \in AllocationRequest, r.width \in ValidWidths, NEW n \in Nat
  PROVE  Binding(r, n) \in AllocationRow
  BY DEF Binding, AllocationRequest, AllocationRow

\* A call that ends, whatever happens to its transaction.
LEMMA TypeEnd ==
  ASSUME TypeInv, NEW c \in Connections, NEW t \in Tables,
         NEW code \in Codes \cup {"ok", "lost"},
         EndTransaction(c, t) \/ UNCHANGED <<store, draft, writer, tx, results>>,
         pc' = pc \/ pc' = [pc EXCEPT ![c] = "idle"],
         \/ answer' = answer
         \/ /\ answer' = [answer EXCEPT ![c] = code]
            /\ code \in {Policy, "sequence_overflow"} => req[c] \in AllocationRequest,
         number' = number \/ number' = [number EXCEPT ![c] = 0],
         req' = req, acked' \subseteq Results
  PROVE  TypeInv'
  BY DEF TypeInv, TypeOK, CallsTyped, EndTransaction, CanWrite, Policy, Codes

LEMMA TypeFail ==
  ASSUME TypeInv, NEW c \in Connections, NEW code \in Codes, Fail(c, code),
         pc[c] # "idle"
  PROVE  TypeInv'
  <1>1. /\ store \in Tables /\ acked \subseteq Results
        /\ req[c] \in AllocationRequest
    BY DEF TypeInv, TypeOK, CallsTyped
  <1>2. /\ EndTransaction(c, store) \/ UNCHANGED <<store, draft, writer, tx, results>>
        /\ pc' = [pc EXCEPT ![c] = "idle"]
        /\ answer' = [answer EXCEPT ![c] = code]
        /\ number' = [number EXCEPT ![c] = 0]
        /\ UNCHANGED <<req, acked>>
    BY DEF Fail
  <1>3. QED
    BY <1>1, <1>2, TypeEnd

\* A statement that succeeds leaves tables and a number.
LEMMA TypeProceed ==
  ASSUME TypeInv, NEW c \in Connections, NEW step \in Steps, NEW t \in Tables,
         Proceed(c, step, t), pc[c] # "idle",
         NEW n \in Nat, number' = number \/ number' = [number EXCEPT ![c] = n]
  PROVE  TypeInv'
  BY DEF TypeInv, TypeOK, CallsTyped, Proceed, Goto, Policy

LEMMA TypeReserve ==
  ASSUME TypeInv, NEW c \in Connections, NEW row \in Reservations, Reserve(c, row)
  PROVE  TypeInv'
  <1> DEFINE won == \A other \in View(c).refs : other.ref # row.ref
             t == [View(c) EXCEPT !.refs = IF won THEN @ \cup {row} ELSE @]
             result == IF won THEN [kind |-> "won", row |-> row]
                              ELSE [kind |-> "refused", ref |-> row.ref]
  <1>1. row \in ReferenceRow
    BY CallsAssumption
  <1>2. t \in Tables
    BY <1>1, ViewType DEF TypeInv, Tables
  <1>3. result \in Results
    BY <1>1 DEF Results, ReferenceRow
  <1>4. /\ IF tx[c] = "caller"
           THEN draft' = t /\ writer' = c /\ UNCHANGED store
           ELSE store' = t /\ draft' = t /\ UNCHANGED writer
        /\ Answered(c, result)
        /\ answer' = [answer EXCEPT ![c] = "ok"]
        /\ UNCHANGED <<tx, pc, req, number>>
    BY DEF Reserve
  <1> HIDE DEF won, t, result
  <1>5. results' \in [Connections -> SUBSET Results] /\ acked' \subseteq Results
    BY <1>3, <1>4 DEF Answered, TypeInv, TypeOK
  <1>6. store' \in Tables /\ draft' \in Tables /\ writer' \in Connections \cup {Nobody}
    BY <1>2, <1>4 DEF TypeInv, TypeOK
  <1>7. QED
    BY <1>4, <1>5, <1>6 DEF TypeInv, TypeOK, CallsTyped, Policy

\* What the statements of a call make of the draft.
LEMMA DraftTypes ==
  ASSUME IInv, NEW c \in Connections
  PROVE  /\ pc[c] = "seed" =>
              [draft EXCEPT !.counters[req[c].key] = SeedOf(req[c])] \in Tables
         /\ pc[c] = "update" =>
              [draft EXCEPT !.counters[req[c].key].last = number[c]] \in Tables
         /\ pc[c] = "bind" =>
              [draft EXCEPT !.bindings = @ \cup {Binding(req[c], number[c])}] \in Tables
  <1>1. draft \in Tables /\ number[c] \in Nat
    BY DEF IInv, TypeInv, TypeOK
  <1>2. pc[c] # "idle" =>
          req[c] \in AllocationRequest /\ req[c].width \in ValidWidths
    BY DEF IInv, TypeInv, CallsTyped
  <1>3. ASSUME pc[c] = "seed"
        PROVE  [draft EXCEPT !.counters[req[c].key] = SeedOf(req[c])] \in Tables
    <2>1. req[c].key \in Keys /\ SeedOf(req[c]) \in CounterRow
      BY <1>2, <1>3 DEF AllocationRequest, CounterRow, SeedOf
    <2>2. QED
      BY <1>1, <2>1, SetCounter
  <1>4. ASSUME pc[c] = "update"
        PROVE  [draft EXCEPT !.counters[req[c].key].last = number[c]] \in Tables
    <2>1. draft.counters[req[c].key] # NoRow
      BY <1>4 DEF IInv, DraftInv, DraftFits, Ready, LockInv, LockHeld, Steps
    <2>2. /\ req[c].key \in Keys
          /\ [draft.counters[req[c].key] EXCEPT !.last = number[c]] \in CounterRow
      BY <1>1, <1>2, <1>4, <2>1 DEF AllocationRequest, Tables, CounterRow
    <2>3. QED
      BY <1>1, <2>2, SetCounter
  <1>5. ASSUME pc[c] = "bind"
        PROVE  [draft EXCEPT !.bindings = @ \cup {Binding(req[c], number[c])}] \in Tables
    BY <1>1, <1>2, <1>5, BindingType DEF Tables
  <1>6. QED
    BY <1>3, <1>4, <1>5

LEMMA TypeStep == IInv /\ [Next]_vars => TypeInv'
  <1> SUFFICES ASSUME IInv, [Next]_vars PROVE TypeInv'
    OBVIOUS
  <1>0. TypeInv
    BY DEF IInv
  <1>1. /\ store \in Tables /\ draft \in Tables
        /\ acked \subseteq Results
        /\ \A c \in Connections : results[c] \subseteq Results
        /\ \A c \in Connections : number[c] \in Nat
    BY <1>0 DEF TypeInv, TypeOK
  <1>2. ASSUME NEW c \in Connections, CallerBegin(c) PROVE TypeInv'
    BY <1>0, <1>2 DEF CallerBegin, TypeInv, TypeOK, CallsTyped
  <1>3. ASSUME NEW c \in Connections, CallerCommit(c) \/ CallerRollback(c) \/ Crash(c)
        PROVE  TypeInv'
    <2>1. CASE CallerCommit(c)
      BY <1>0, <1>1, <2>1, TypeEnd, ViewType DEF CallerCommit, TypeInv
    <2>2. CASE CallerRollback(c)
      BY <1>0, <1>1, <2>2, TypeEnd DEF CallerRollback
    <2>3. CASE Crash(c)
      BY <1>0, <1>1, <2>3, TypeEnd DEF Crash, Policy
    <2>4. QED
      BY <1>3, <2>1, <2>2, <2>3
  <1>4. ASSUME NEW c \in Connections, NEW row \in Reservations, Reserve(c, row)
        PROVE  TypeInv'
    BY <1>0, <1>4, TypeReserve
  <1>5. ASSUME NEW c \in Connections, ReserveBusy(c) PROVE TypeInv'
    BY <1>0, <1>1, <1>5, TypeEnd DEF ReserveBusy, Codes, Conflict, Policy
  <1>6. ASSUME NEW c \in Connections, NEW r \in Requests, CallAllocate(c, r)
        PROVE  TypeInv'
    <2>1. r \in AllocationRequest
      BY CallsAssumption
    <2>2. QED
      BY <1>0, <1>6, <2>1
         DEF CallAllocate, Goto, TypeInv, TypeOK, CallsTyped, Steps, Codes, Policy
  <1>7. ASSUME NEW c \in Connections, Begin(c) PROVE TypeInv'
    BY <1>0, <1>7 DEF Begin, Goto, TypeInv, TypeOK, CallsTyped, Steps
  <1>8. ASSUME NEW c \in Connections, BeginFails(c) \/ CommitBusy(c) PROVE TypeInv'
    BY <1>0, <1>8, TypeFail DEF BeginFails, CommitBusy, Codes, Conflict
  <1>9. ASSUME NEW c \in Connections, Replay(c) PROVE TypeInv'
    <2>1. CASE Replays(c) = {} /\ Proceed(c, "seed", draft) /\ UNCHANGED number
      BY <1>0, <1>1, <1>9, <2>1, TypeProceed DEF Replay, Steps
    <2>2. ASSUME NEW b \in Replays(c), Fail(c, Policy)
          PROVE  TypeInv'
      BY <1>0, <1>9, <2>2, TypeFail DEF Replay, Codes, Policy
    <2>3. ASSUME NEW b \in Replays(c), Proceed(c, "commit", draft),
                 number' = [number EXCEPT ![c] = b.seq]
          PROVE  TypeInv'
      <3>1. b.seq \in Nat
        BY <1>0, <2>3, ViewType DEF Replays, TypeInv, Tables, AllocationRow
      <3>2. QED
        BY <1>0, <1>1, <1>9, <2>3, <3>1, TypeProceed DEF Replay, Steps
    <2>4. QED
      BY <1>9, <2>1, <2>2, <2>3 DEF Replay
  <1>10. ASSUME NEW c \in Connections, Seed(c) PROVE TypeInv'
    <2> DEFINE t == IF HasConflict(draft.counters, req[c]) THEN draft
                    ELSE [draft EXCEPT !.counters[req[c].key] = SeedOf(req[c])]
    <2>1. t \in Tables
      BY <1>1, <1>10, DraftTypes DEF Seed
    <2>2. Proceed(c, "policy", t) /\ UNCHANGED number /\ pc[c] = "seed"
      BY <1>10 DEF Seed, SeedOf
    <2>3. QED
      BY <1>0, <1>1, <2>1, <2>2, TypeProceed DEF Steps
  <1>11. ASSUME NEW c \in Connections, CheckPolicy(c) PROVE TypeInv'
    <2>1. CASE \E code \in Codes : Fail(c, code)
      BY <1>0, <1>11, <2>1, TypeFail DEF CheckPolicy
    <2>2. CASE /\ Proceed(c, "update", draft) /\ CounterOf(c) # NoRow
               /\ number' = [number EXCEPT ![c] = CounterOf(c).last + 1]
      <3>1. CounterOf(c).last + 1 \in Nat
        BY <1>0, <1>11, <2>2, ViewType
           DEF CheckPolicy, CounterOf, TypeInv, CallsTyped, Tables, CounterRow,
               AllocationRequest
      <3>2. QED
        BY <1>0, <1>1, <1>11, <2>2, <3>1, TypeProceed DEF CheckPolicy, Steps
    <2>3. Port[c].missing \in Codes /\ Policy \in Codes /\ "sequence_overflow" \in Codes
      BY PortsAssumption DEF Ports, Codes, Policy, Conflict
    <2>4. QED
      BY <1>11, <2>1, <2>2, <2>3 DEF CheckPolicy
  <1>12. ASSUME NEW c \in Connections, Update(c) PROVE TypeInv'
    BY <1>0, <1>1, <1>12, DraftTypes, TypeProceed DEF Update, Steps
  <1>13. ASSUME NEW c \in Connections, Bind(c) PROVE TypeInv'
    BY <1>0, <1>1, <1>13, DraftTypes, TypeProceed, TypeFail
       DEF Bind, Steps, Codes, Conflict
  <1>14. ASSUME NEW c \in Connections, CommitOwn(c) PROVE TypeInv'
    <2>1. Binding(req[c], number[c]) \in AllocationRow
      BY <1>0, <1>1, <1>14, BindingType DEF CommitOwn, TypeInv, CallsTyped
    <2>2. acked' \subseteq Results
      BY <1>1, <1>14, <2>1 DEF CommitOwn, Results
    <2>3. QED
      BY <1>0, <1>14, <2>2 DEF CommitOwn, Goto, TypeInv, TypeOK, CallsTyped
  <1>15. CASE UNCHANGED vars
    BY <1>0, <1>15 DEF vars, TypeInv, TypeOK, CallsTyped
  <1>16. QED
    BY <1>2, <1>3, <1>4, <1>5, <1>6, <1>7, <1>8, <1>9, <1>10, <1>11, <1>12, <1>13,
       <1>14, <1>15 DEF Next, Allocation

-----------------------------------------------------------------------------
(* The file, and the drafts of it. *)

\* What every step may do to the file.
FileGrows == Sound(store') /\ Grows(store, store')

LEMMA FileStep == IInv /\ [Next]_vars => FileGrows
  <1> SUFFICES ASSUME IInv, [Next]_vars PROVE FileGrows
    OBVIOUS
  <1>1. /\ store \in Tables /\ draft \in Tables /\ Sound(store)
        /\ writer = Nobody => draft = store
    BY DEF IInv, TypeInv, TypeOK, LockInv, DraftInv
  <1>2. ASSUME store' = store PROVE FileGrows
    BY <1>1, <1>2, GrowsReflexive DEF FileGrows
  <1>3. ASSUME NEW c \in Connections, CallerCommit(c) PROVE FileGrows
    <2>1. CASE writer = c
      <3>1. Sound(draft) /\ Grows(store, draft)
        BY <1>3, <2>1 DEF CallerCommit, IInv, DraftInv, DraftFits
      <3>2. QED
        BY <1>3, <2>1, <3>1 DEF CallerCommit, EndTransaction, View, FileGrows
    <2>2. CASE writer # c
      BY <1>2, <1>3, <2>2 DEF CallerCommit, EndTransaction, View
    <2>3. QED
      BY <2>1, <2>2
  <1>4. ASSUME NEW c \in Connections, NEW row \in Reservations, Reserve(c, row)
        PROVE  FileGrows
    <2> DEFINE won == \A other \in View(c).refs : other.ref # row.ref
               t == [View(c) EXCEPT !.refs = IF won THEN @ \cup {row} ELSE @]
    <2>1. CASE tx[c] = "caller"
      BY <1>2, <1>4, <2>1 DEF Reserve
    <2>2. CASE tx[c] # "caller"
      <3>1. store' = t
        BY <1>4, <2>2 DEF Reserve
      <3>2. View(c) = store
        BY <1>1, <1>4, <2>2, NamesAssumption
           DEF Reserve, CanWrite, View, IInv, TypeInv, TypeOK, LockInv, LockHeld, Steps
      <3>3. CASE won
        <4>1. t = [store EXCEPT !.refs = @ \cup {row}]
          BY <3>2, <3>3
        <4>2. Sound(t)
          BY <1>1, <3>2, <3>3, <4>1, SoundReserve, CallsAssumption
        <4>3. t.refs = store.refs \cup {row} /\ t.counters = store.counters
              /\ t.bindings = store.bindings
          BY <1>1, <4>1 DEF Tables
        <4>4. Grows(store, t)
          BY <1>1, <4>3, GrowsReflexive DEF Grows
        <4>5. QED
          BY <3>1, <4>2, <4>4 DEF FileGrows
      <3>4. CASE ~won
        BY <1>1, <1>2, <3>1, <3>2, <3>4 DEF Tables
      <3>5. QED
        BY <3>3, <3>4
    <2>3. QED
      BY <2>1, <2>2
  <1>5. ASSUME NEW c \in Connections, CommitOwn(c) PROVE FileGrows
    <2>1. writer = c
      BY <1>5 DEF CommitOwn, IInv, LockInv, LockHeld, Steps
    <2>2. Sound(draft) /\ Grows(store, draft)
      BY <1>5, <2>1 DEF CommitOwn, IInv, DraftInv, DraftFits
    <2>3. QED
      BY <1>5, <2>2 DEF CommitOwn, FileGrows
  <1>6. ASSUME NEW c \in Connections, NEW code, Fail(c, code) PROVE FileGrows
    BY <1>2, <1>6 DEF Fail, EndTransaction
  <1>7. ASSUME NEW c \in Connections, NEW step, NEW t, Proceed(c, step, t)
        PROVE  FileGrows
    BY <1>2, <1>7 DEF Proceed
  <1>8. ASSUME NEW c \in Connections, Allocation(c) PROVE FileGrows
    <2>1. CASE Begin(c) \/ BeginFails(c) \/ CommitBusy(c)
      BY <1>2, <1>6, <2>1 DEF Begin, BeginFails, CommitBusy
    <2>2. CASE Replay(c) \/ Seed(c) \/ CheckPolicy(c) \/ Update(c) \/ Bind(c)
      BY <1>6, <1>7, <2>2 DEF Replay, Seed, CheckPolicy, Update, Bind
    <2>3. QED
      BY <1>5, <1>8, <2>1, <2>2 DEF Allocation
  <1>9. ASSUME NEW c \in Connections,
               \/ CallerBegin(c) \/ CallerRollback(c) \/ Crash(c) \/ ReserveBusy(c)
               \/ \E r \in Requests : CallAllocate(c, r)
        PROVE  FileGrows
    BY <1>2, <1>9
       DEF CallerBegin, CallerRollback, Crash, ReserveBusy, CallAllocate, EndTransaction
  <1>10. CASE UNCHANGED vars
    BY <1>2, <1>10 DEF vars
  <1>11. QED
    BY <1>3, <1>4, <1>8, <1>9, <1>10 DEF Next

\* A step that leaves the draft and the call of its writer alone.
LEMMA DraftFrame ==
  ASSUME NEW c \in Connections, DraftFits(c),
         UNCHANGED <<store, draft, tx[c], pc[c], req[c], number[c]>>
  PROVE  DraftFits(c)'
  BY DEF DraftFits, Ready, Before, Grows, Seeded

\* A reservation inside the caller's transaction.
LEMMA DraftReserve ==
  ASSUME IInv, NEW c \in Connections, NEW row \in Reservations, Reserve(c, row),
         tx[c] = "caller"
  PROVE  DraftFits(c)'
  <1> DEFINE won == \A other \in View(c).refs : other.ref # row.ref
             t == [View(c) EXCEPT !.refs = IF won THEN @ \cup {row} ELSE @]
  <1>1. /\ store' = store /\ draft' = t /\ tx' = tx /\ pc' = pc
        /\ pc[c] = "idle"
    BY DEF Reserve
  <1>2. View(c) \in Tables /\ Sound(View(c)) /\ Grows(store, View(c))
    <2>1. CASE writer = c
      BY <2>1 DEF View, IInv, TypeInv, TypeOK, DraftInv, DraftFits
    <2>2. CASE writer # c
      BY <2>2, GrowsReflexive DEF View, IInv, TypeInv, TypeOK, DraftInv
    <2>3. QED
      BY <2>1, <2>2
  <1>3. Sound(t) /\ Grows(store, t)
    <2>1. CASE won
      <3>1. t = [View(c) EXCEPT !.refs = @ \cup {row}]
        BY <2>1
      <3>2. Sound(t)
        BY <1>2, <2>1, <3>1, SoundReserve, CallsAssumption
      <3>3. t.refs = View(c).refs \cup {row} /\ t.counters = View(c).counters
            /\ t.bindings = View(c).bindings
        BY <1>2, <3>1 DEF Tables
      <3>4. QED
        BY <1>2, <3>2, <3>3 DEF Grows
    <2>2. CASE ~won
      <3>1. t = View(c)
        BY <1>2, <2>2 DEF Tables
      <3>2. QED
        BY <1>2, <3>1
    <2>3. QED
      BY <2>1, <2>2
  <1> HIDE DEF t
  <1>4. QED
    BY <1>1, <1>3 DEF DraftFits, Grows

\* The statements of a call, one after the other.
LEMMA DraftCall ==
  ASSUME IInv, NEW c \in Connections,
         \/ Replay(c) \/ Seed(c) \/ CheckPolicy(c) \/ Update(c) \/ Bind(c),
         writer' = c
  PROVE  DraftFits(c)'
  <1> DEFINE r == req[c]
  <1>1. /\ store \in Tables /\ draft \in Tables /\ Sound(store)
        /\ number \in [Connections -> Nat]
        /\ pc \in [Connections -> {"idle"} \cup Steps]
        /\ tx[c] \in {"none", "own", "caller"}
        /\ r \in AllocationRequest /\ r.width \in ValidWidths
        /\ pc[c] \in Steps \ {"begin"}
    BY DEF IInv, TypeInv, TypeOK, CallsTyped, DraftInv, Replay, Seed, CheckPolicy,
           Update, Bind, Steps
  <1>2. tx[c] = "own" /\ writer = c /\ DraftFits(c)
    BY <1>1 DEF IInv, LockInv, LockHeld, DraftInv
  <1>3. r.key \in Keys
    BY <1>1 DEF AllocationRequest
  <1>4. ASSUME NEW code, Fail(c, code) PROVE FALSE
    BY <1>2, <1>4, NamesAssumption DEF Fail, EndTransaction, CanWrite
  <1>5. View(c) = draft
    BY <1>2 DEF View
  <1>6. ASSUME Replay(c) PROVE DraftFits(c)'
    <2>1. /\ pc[c] = "replay" /\ draft = store
      BY <1>2, <1>6 DEF Replay, DraftFits
    <2>2. CASE Replays(c) = {} /\ Proceed(c, "seed", draft)
      <3>1. Unbound(store, r)
        BY <1>5, <2>1, <2>2 DEF Replays, Unbound
      <3>2. QED
        BY <1>1, <1>2, <2>1, <2>2, <3>1 DEF Proceed, Goto, DraftFits, Unbound
    <2>3. ASSUME NEW b \in Replays(c), SamePolicy(b, r), Proceed(c, "commit", draft),
                 number' = [number EXCEPT ![c] = b.seq]
          PROVE  DraftFits(c)'
      <3>1. /\ b \in store.bindings /\ b \in AllocationRow
            /\ b.key = r.key /\ b.mid = r.mid
        BY <1>1, <1>5, <2>1, <2>3 DEF Replays, Tables
      <3>2. Binding(r, b.seq) = b
        BY <2>3, <3>1 DEF Binding, AllocationRow, SamePolicy
      <3>3. Grows(store, store)
        BY <1>1, GrowsReflexive
      <3>4. /\ draft' = draft /\ store' = store /\ req' = req /\ tx' = tx
            /\ pc'[c] = "commit" /\ number'[c] = b.seq
        BY <1>1, <2>3 DEF Proceed, Goto
      <3>5. Sound(draft') /\ Grows(store', draft')
            /\ Binding(req'[c], number'[c]) \in draft'.bindings
        BY <1>1, <2>1, <3>1, <3>2, <3>3, <3>4
      <3>6. QED
        BY <1>2, <3>4, <3>5 DEF DraftFits, Grows
    <2>4. QED
      BY <1>4, <1>6, <2>2, <2>3 DEF Replay
  <1>7. ASSUME Seed(c) PROVE DraftFits(c)'
    <2>1. pc[c] = "seed" /\ draft = store /\ Unbound(store, r)
      BY <1>2, <1>7 DEF Seed, DraftFits
    <2>2. /\ draft' = Seeded(r) /\ store' = store /\ req' = req /\ tx' = tx
          /\ pc'[c] = "policy"
      BY <1>1, <1>7, <2>1 DEF Seed, Seeded, SeedOf, Proceed, Goto
    <2>3. QED
      BY <1>2, <2>1, <2>2 DEF DraftFits, Seeded, Unbound
  <1>8. ASSUME CheckPolicy(c) PROVE DraftFits(c)'
    <2> DEFINE row == draft.counters[r.key]
    <2>1. pc[c] = "policy" /\ draft = Seeded(r) /\ Unbound(store, r)
      BY <1>2, <1>8 DEF CheckPolicy, DraftFits
    <2>2. /\ Sound(draft) /\ Grows(store, draft) /\ Unbound(draft, r)
      BY <1>1, <2>1, SoundSeeded DEF Unbound
    <2>3. /\ row # NoRow /\ SamePolicy(row, r) /\ ~(row.last >= Capacity[r.width])
          /\ Proceed(c, "update", draft)
          /\ number' = [number EXCEPT ![c] = row.last + 1]
      BY <1>4, <1>5, <1>8 DEF CheckPolicy, CounterOf
    <2>4. row.last \in Nat /\ Capacity[r.width] \in Nat
      BY <1>1, <1>3, <2>3, WidthsAssumption DEF Tables, CounterRow
    <2>5. /\ draft' = draft /\ store' = store /\ req' = req /\ tx' = tx
          /\ pc'[c] = "update" /\ number'[c] = row.last + 1
      BY <1>1, <2>3 DEF Proceed, Goto
    <2>6. Ready(draft, r, row.last + 1)
      BY <2>2, <2>3, <2>4 DEF Ready
    <2>7. Ready(draft, r, row.last + 1)'
      BY <2>5, <2>6 DEF Ready, Grows
    <2>8. QED
      BY <1>2, <2>5, <2>7 DEF DraftFits
  <1>9. ASSUME Update(c) PROVE DraftFits(c)'
    <2> DEFINE row == draft.counters[r.key]
               f == [draft.counters EXCEPT ![r.key] = [row EXCEPT !.last = number[c]]]
    <2>1. /\ pc[c] = "update" /\ Ready(draft, r, number[c])
      BY <1>2, <1>9 DEF Update, DraftFits
    <2>2. /\ row \in CounterRow /\ row.last = number[c] - 1 /\ number[c] # 0
      <3>1. row # NoRow /\ number[c] = row.last + 1
        BY <2>1 DEF Ready
      <3>2. row \in CounterRow
        BY <1>1, <1>3, <3>1 DEF Tables
      <3>3. row.last \in Nat
        BY <3>2 DEF CounterRow
      <3> HIDE DEF row
      <3>4. QED
        BY <3>1, <3>2, <3>3
    <2>3. /\ draft' = [draft EXCEPT !.counters = f]
          /\ store' = store /\ req' = req /\ tx' = tx /\ number' = number
          /\ pc'[c] = "bind"
      BY <1>1, <1>9 DEF Update, Proceed, Goto
    <2>4. /\ draft.counters \in [Keys -> CounterRow \cup {NoRow}]
          /\ f[r.key] = [row EXCEPT !.last = number[c]]
          /\ f[r.key] # NoRow /\ f[r.key].last = number[c]
      <3>1. [row EXCEPT !.last = number[c]] \in CounterRow
        BY <1>1, <2>2 DEF CounterRow
      <3>2. QED
        BY <1>1, <1>3, <2>2, <3>1, NamesAssumption DEF Tables, CounterRow
    <2>5. draft'.counters = f
      BY <1>1, <2>3 DEF Tables
    <2>6. [f EXCEPT ![r.key] = [f[r.key] EXCEPT !.last = number[c] - 1]] = draft.counters
      <3>1. [[row EXCEPT !.last = number[c]] EXCEPT !.last = number[c] - 1] = row
        BY <2>2 DEF CounterRow
      <3>2. QED
        BY <1>3, <2>4, <3>1
    <2>7. Before(c)' = draft
      <3>1. Before(c)' = [draft' EXCEPT !.counters =
                           [f EXCEPT ![r.key] = [f[r.key] EXCEPT !.last = number[c] - 1]]]
        BY <2>3, <2>5 DEF Before
      <3>2. Before(c)' = [[draft EXCEPT !.counters = f] EXCEPT !.counters = draft.counters]
        BY <2>3, <2>6, <3>1
      <3>3. QED
        BY <1>1, <3>2 DEF Tables
    <2>8. Ready(Before(c)', r, number[c])
      BY <2>1, <2>7
    <2>9. Ready(Before(c), r, number[c])'
      BY <2>3, <2>8 DEF Ready, Grows
    <2>10. QED
      BY <1>2, <2>2, <2>3, <2>4, <2>5, <2>9 DEF DraftFits
  <1>10. ASSUME Bind(c) PROVE DraftFits(c)'
    <2> DEFINE row == draft.counters[r.key]
               new == Binding(r, number[c])
    <2>1. /\ pc[c] = "bind" /\ row # NoRow /\ row.last = number[c] /\ number[c] # 0
          /\ Ready(Before(c), r, number[c])
      BY <1>2, <1>10 DEF Bind, DraftFits
    <2>2. Proceed(c, "commit", [draft EXCEPT !.bindings = @ \cup {new}])
          /\ UNCHANGED number
      BY <1>4, <1>10 DEF Bind
    <2>3. /\ draft'.refs = draft.refs /\ draft'.counters = draft.counters
          /\ draft'.bindings = draft.bindings \cup {new}
          /\ store' = store /\ req' = req /\ tx' = tx
          /\ pc'[c] = "commit"
      BY <1>1, <2>2 DEF Proceed, Goto, Tables
    <2>4. draft' \in Tables
      BY <1>1, <2>2, BindingType DEF Proceed, Tables
    <2>5. /\ row \in CounterRow
          /\ [row EXCEPT !.last = number[c] - 1] \in CounterRow
      <3>1. number[c] - 1 \in Nat
        BY <1>1, <2>1
      <3>2. QED
        BY <1>1, <1>3, <2>1, <3>1 DEF Tables, CounterRow
    <2>6. LET t == Before(c) IN
          /\ t \in Tables
          /\ t.refs = draft.refs /\ t.bindings = draft.bindings
          /\ t.counters[r.key] = [row EXCEPT !.last = number[c] - 1]
          /\ \A l \in Keys : l # r.key => t.counters[l] = draft.counters[l]
      BY <1>1, <1>3, <2>5, SetCounter DEF Before
    <2>7. SamePolicy(row, r)
      BY <2>1, <2>5, <2>6 DEF Ready, SamePolicy, CounterRow
    <2>8. Sound(draft') /\ Grows(store, draft')
      <3> DEFINE t == Before(c)
                 u == draft'
                 n == number[c]
      <3>1. /\ t \in Tables /\ u \in Tables /\ n \in Nat /\ Ready(t, r, n)
            /\ u.refs = t.refs /\ u.bindings = t.bindings \cup {Binding(r, n)}
        BY <1>1, <2>1, <2>3, <2>4, <2>6
      <3>2. /\ u.counters[r.key] # NoRow /\ u.counters[r.key].last = n
            /\ SamePolicy(u.counters[r.key], r)
            /\ \A l \in Keys : l # r.key => u.counters[l] = t.counters[l]
        BY <2>1, <2>3, <2>6, <2>7
      <3> HIDE DEF t, u, n
      <3>3. Sound(u) /\ Grows(store, u)
        BY <1>1, <3>1, <3>2, SoundBind
      <3>4. QED
        BY <3>3 DEF u
    <2>9. number' = number /\ new \in draft'.bindings
      BY <2>2, <2>3
    <2>10. Sound(draft)' /\ Grows(store, draft)'
      BY <2>3, <2>8 DEF Grows
    <2> HIDE DEF new
    <2>11. new' = new
      BY <2>3, <2>9 DEF new
    <2>12. QED
      BY <1>2, <2>3, <2>9, <2>10, <2>11 DEF DraftFits, new
  <1>11. QED
    BY <1>6, <1>7, <1>8, <1>9, <1>10

LEMMA DraftStep == IInv /\ [Next]_vars => DraftInv'
  <1> SUFFICES ASSUME IInv, [Next]_vars PROVE DraftInv'
    OBVIOUS
  <1>1. Sound(store')
    BY FileStep DEF FileGrows
  <1>2. ASSUME NEW d \in Connections, writer' = d
        PROVE  DraftFits(d)'
    <2>0. /\ store \in Tables /\ draft \in Tables /\ Sound(store)
          /\ tx \in [Connections -> {"none", "own", "caller"}]
          /\ pc \in [Connections -> {"idle"} \cup Steps]
          /\ req \in [Connections -> AllocationRequest \cup {NoRow}]
          /\ number \in [Connections -> Nat]
          /\ writer \in Connections \cup {Nobody}
      BY DEF IInv, TypeInv, TypeOK, DraftInv
    <2>1. /\ writer = Nobody => draft = store
          /\ \A c \in Connections : LockHeld(c)
          /\ writer = d => DraftFits(d)
      BY DEF IInv, LockInv, DraftInv
    <2>2. ASSUME writer = d, UNCHANGED <<store, draft, tx[d], pc[d], req[d], number[d]>>
          PROVE  DraftFits(d)'
      BY <2>1, <2>2, DraftFrame
    <2>3. ASSUME NEW c \in Connections, NEW code, Fail(c, code), pc[c] # "idle"
          PROVE  DraftFits(d)'
      <3>1. CASE writer = d /\ c # d
        BY <2>0, <2>2, <2>3, <3>1, NamesAssumption
           DEF Fail, EndTransaction, CanWrite
      <3>2. CASE writer = d /\ c = d
        <4>1. /\ tx[c] = "caller" /\ UNCHANGED <<store, draft, tx>>
              /\ pc'[c] = "idle"
          BY <1>2, <2>0, <2>1, <2>3, <3>2, NamesAssumption
             DEF Fail, EndTransaction, CanWrite, LockHeld
        <4>2. Sound(draft) /\ Grows(store, draft)
          BY <2>1, <3>2, <4>1 DEF DraftFits
        <4>3. QED
          BY <3>2, <4>1, <4>2 DEF DraftFits, Grows
      <3>3. CASE writer # d
        BY <1>2, <2>3, <3>3, NamesAssumption DEF Fail, EndTransaction
      <3>4. QED
        BY <3>1, <3>2, <3>3
    <2>4. ASSUME NEW c \in Connections, CallerBegin(c) PROVE DraftFits(d)'
      <3>1. CASE writer = d
        BY <2>0, <2>1, <2>2, <2>4, <3>1 DEF CallerBegin, LockHeld
      <3>2. CASE writer # d
        <4>1. /\ c = d /\ writer = Nobody /\ UNCHANGED <<store, draft, pc>>
              /\ pc[c] = "idle" /\ tx'[c] = "caller"
          BY <1>2, <2>0, <2>4, <3>2 DEF CallerBegin
        <4>2. Sound(draft) /\ Grows(store, draft)
          BY <2>0, <2>1, <4>1, GrowsReflexive
        <4>3. QED
          BY <4>1, <4>2 DEF DraftFits, Grows
      <3>3. QED
        BY <3>1, <3>2
    <2>5. ASSUME NEW c \in Connections, CallerCommit(c) \/ CallerRollback(c) \/ Crash(c)
          PROVE  DraftFits(d)'
      <3>1. writer = d /\ c # d
        BY <1>2, <2>0, <2>5, NamesAssumption
           DEF CallerCommit, CallerRollback, Crash, EndTransaction, CanWrite
      <3>2. QED
        BY <2>0, <2>2, <2>5, <3>1, NamesAssumption
           DEF CallerCommit, CallerRollback, Crash, EndTransaction, CanWrite, View
    <2>6. ASSUME NEW c \in Connections, NEW row \in Reservations, Reserve(c, row)
          PROVE  DraftFits(d)'
      <3>1. writer' = c /\ tx[c] = "caller"
        BY <1>2, <2>0, <2>1, <2>6, NamesAssumption
           DEF Reserve, CanWrite, LockHeld, Steps
      <3>2. QED
        BY <1>2, <2>6, <3>1, DraftReserve
    <2>7. ASSUME NEW c \in Connections, ReserveBusy(c) PROVE DraftFits(d)'
      BY <1>2, <2>2, <2>7 DEF ReserveBusy
    <2>8. ASSUME NEW c \in Connections, NEW r \in Requests, CallAllocate(c, r)
          PROVE  DraftFits(d)'
      <3>1. writer = d /\ UNCHANGED <<store, draft, tx, number>>
        BY <1>2, <2>8 DEF CallAllocate
      <3>2. CASE c # d
        BY <2>0, <2>2, <2>8, <3>1, <3>2 DEF CallAllocate, Goto
      <3>3. CASE c = d
        <4>1. tx[c] = "caller" /\ pc'[c] \in {"idle", "begin"}
          BY <2>0, <2>1, <2>8, <3>1, <3>3 DEF CallAllocate, Goto, LockHeld, Steps
        <4>2. Sound(draft) /\ Grows(store, draft)
          BY <2>1, <3>1, <3>3, <4>1 DEF DraftFits
        <4>3. QED
          BY <3>1, <3>3, <4>1, <4>2 DEF DraftFits, Grows
      <3>4. QED
        BY <3>2, <3>3
    <2>9. ASSUME NEW c \in Connections, Begin(c) PROVE DraftFits(d)'
      <3>1. /\ c = d /\ writer = Nobody /\ UNCHANGED <<store, draft>>
            /\ tx'[c] = "own" /\ pc'[c] = "replay"
        BY <1>2, <2>0, <2>9 DEF Begin, Goto
      <3>2. QED
        BY <2>1, <3>1 DEF DraftFits
    <2>10. ASSUME NEW c \in Connections,
                  \/ Replay(c) \/ Seed(c) \/ CheckPolicy(c) \/ Update(c) \/ Bind(c)
           PROVE  DraftFits(d)'
      <3>1. writer = c
        BY <2>1, <2>10
           DEF Replay, Seed, CheckPolicy, Update, Bind, LockHeld, Steps
      <3>2. c = d
        BY <1>2, <2>10, <3>1, NamesAssumption
           DEF Replay, Seed, CheckPolicy, Update, Bind, Proceed, Fail, EndTransaction
      <3>3. QED
        BY <1>2, <2>10, <3>2, DraftCall
    <2>11. ASSUME NEW c \in Connections, CommitOwn(c) PROVE DraftFits(d)'
      BY <1>2, <2>11, NamesAssumption DEF CommitOwn
    <2>12. CASE UNCHANGED vars
      BY <1>2, <2>2, <2>12 DEF vars
    <2>13. QED
      BY <2>3, <2>4, <2>5, <2>6, <2>7, <2>8, <2>9, <2>10, <2>11, <2>12
         DEF Next, Allocation, BeginFails, CommitBusy
  <1>3. QED
    BY <1>1, <1>2 DEF DraftInv

-----------------------------------------------------------------------------
(* What was answered. *)

\* Answers given so far stay true, whoever ends whose transaction.
LEMMA KeptStep ==
  ASSUME IInv, [Next]_vars, NEW a, Kept(store, a)
  PROVE  Kept(store', a)
  BY FileStep, KeptGrows DEF FileGrows

LEMMA AnswersStep == IInv /\ [Next]_vars => AnswersInv'
  <1> SUFFICES ASSUME IInv, [Next]_vars PROVE AnswersInv'
    OBVIOUS
  <1>0. /\ store \in Tables /\ draft \in Tables
        /\ tx \in [Connections -> {"none", "own", "caller"}]
        /\ results \in [Connections -> SUBSET Results]
        /\ writer \in Connections \cup {Nobody}
        /\ \A c \in Connections : LockHeld(c)
        /\ writer = Nobody => draft = store
    BY DEF IInv, TypeInv, TypeOK, LockInv
  <1>1. /\ \A a \in acked : Kept(store, a) /\ Kept(store', a)
        /\ \A c \in Connections : \A a \in results[c] : Kept(draft, a)
    BY KeptStep DEF IInv, AnswersInv
  <1>2. ASSUME draft' = draft, acked' = acked,
               \A c \in Connections : results'[c] \subseteq results[c]
        PROVE  AnswersInv'
    BY <1>1, <1>2 DEF AnswersInv, Kept
  <1>3. ASSUME NEW c \in Connections, NEW t \in Tables, EndTransaction(c, t),
               acked' \subseteq acked \cup results[c],
               acked' # acked => t = View(c)
        PROVE  AnswersInv'
    <2>1. \A e \in Connections : e # c =>
            results'[e] = results[e] /\ (results[e] # {} => ~CanWrite(c))
      BY <1>0, <1>3, NamesAssumption DEF EndTransaction, CanWrite, LockHeld
    <2>2. results'[c] = {}
      BY <1>0, <1>3 DEF EndTransaction
    <2>3. \A e \in Connections : \A a \in results'[e] : Kept(draft', a)
      BY <1>1, <1>3, <2>1, <2>2 DEF EndTransaction, Kept
    <2>4. \A a \in acked' : Kept(store', a)
      <3>1. CASE acked' = acked
        BY <1>1, <3>1
      <3>2. CASE acked' # acked
        <4>1. store' = View(c)
          BY <1>3, <3>2 DEF EndTransaction
        <4>2. results[c] # {} => View(c) = draft
          BY <1>0 DEF LockHeld, View
        <4>3. QED
          BY <1>1, <1>3, <4>1, <4>2
      <3>3. QED
        BY <3>1, <3>2
    <2>5. QED
      BY <2>3, <2>4 DEF AnswersInv, Kept
  <1>4. ASSUME NEW c \in Connections, NEW code, Fail(c, code) PROVE AnswersInv'
    BY <1>0, <1>2, <1>3, <1>4 DEF Fail
  <1>5. ASSUME NEW c \in Connections, CallerCommit(c) \/ CallerRollback(c) \/ Crash(c)
        PROVE  AnswersInv'
    BY <1>0, <1>3, <1>5, ViewType
       DEF CallerCommit, CallerRollback, Crash, IInv, TypeInv
  <1>6. ASSUME NEW c \in Connections, NEW row \in Reservations, Reserve(c, row)
        PROVE  AnswersInv'
    <2> DEFINE won == \A other \in View(c).refs : other.ref # row.ref
               t == [View(c) EXCEPT !.refs = IF won THEN @ \cup {row} ELSE @]
               result == IF won THEN [kind |-> "won", row |-> row]
                                ELSE [kind |-> "refused", ref |-> row.ref]
    <2>1. View(c) \in Tables
      BY <1>0 DEF View
    <2>2. /\ t.refs = (IF won THEN View(c).refs \cup {row} ELSE View(c).refs)
          /\ t.counters = View(c).counters /\ t.bindings = View(c).bindings
      BY <2>1 DEF Tables
    <2>3. Kept(t, result)
      BY <2>2 DEF Kept
    <2>4. \A a : Kept(View(c), a) => Kept(t, a)
      BY <2>2 DEF Kept
    <2>5. /\ draft' = t
          /\ tx[c] # "caller" => store' = t
          /\ Answered(c, result)
          /\ CanWrite(c)
      BY <1>6 DEF Reserve
    <2> HIDE DEF t, result, won
    <2>6. \A e \in Connections : results[e] # {} => e = c /\ View(c) = draft
      BY <1>0, <2>5, NamesAssumption DEF CanWrite, LockHeld, View
    <2>7. CASE tx[c] = "caller"
      BY <1>0, <1>1, <2>3, <2>4, <2>5, <2>6, <2>7 DEF Answered, AnswersInv, Kept
    <2>8. CASE tx[c] # "caller"
      BY <1>0, <1>1, <2>3, <2>4, <2>5, <2>6, <2>8 DEF Answered, AnswersInv, Kept
    <2>9. QED
      BY <2>7, <2>8
  <1>7. ASSUME NEW c \in Connections, NEW step, NEW t, Proceed(c, step, t), tx[c] = "own"
        PROVE  AnswersInv'
    <2>1. \A e \in Connections : results'[e] = {}
      BY <1>0, <1>7 DEF Proceed, LockHeld
    <2>2. QED
      BY <1>1, <1>7, <2>1 DEF Proceed, AnswersInv, Kept
  <1>8. ASSUME NEW c \in Connections, CommitOwn(c) PROVE AnswersInv'
    <2> DEFINE row == Binding(req[c], number[c])
    <2>1. writer = c /\ row \in draft.bindings
      BY <1>0, <1>8 DEF CommitOwn, LockHeld, Steps, IInv, DraftInv, DraftFits
    <2>2. Kept(store', [kind |-> "allocated", row |-> row])
      BY <1>8, <2>1 DEF CommitOwn, Kept
    <2>3. acked' = acked \cup {[kind |-> "allocated", row |-> row]}
          /\ draft' = draft /\ results' = results
      BY <1>8 DEF CommitOwn
    <2> HIDE DEF row
    <2>4. QED
      BY <1>1, <2>2, <2>3 DEF AnswersInv, Kept
  <1>9. ASSUME NEW c \in Connections, Allocation(c) PROVE AnswersInv'
    <2>1. CASE Begin(c) \/ BeginFails(c) \/ CommitBusy(c)
      BY <1>2, <1>4, <2>1 DEF Begin, BeginFails, CommitBusy
    <2>2. CASE Replay(c) \/ Seed(c) \/ CheckPolicy(c) \/ Update(c) \/ Bind(c)
      <3>1. tx[c] = "own"
        BY <1>0, <2>2 DEF Replay, Seed, CheckPolicy, Update, Bind, LockHeld, Steps
      <3>2. QED
        BY <1>4, <1>7, <2>2, <3>1 DEF Replay, Seed, CheckPolicy, Update, Bind
    <2>3. QED
      BY <1>8, <1>9, <2>1, <2>2 DEF Allocation
  <1>10. ASSUME NEW c \in Connections,
                \/ CallerBegin(c) \/ ReserveBusy(c)
                \/ \E r \in Requests : CallAllocate(c, r)
         PROVE  AnswersInv'
    BY <1>2, <1>10 DEF CallerBegin, ReserveBusy, CallAllocate
  <1>11. CASE UNCHANGED vars
    BY <1>2, <1>11 DEF vars
  <1>12. QED
    BY <1>5, <1>6, <1>9, <1>10, <1>11 DEF Next

-----------------------------------------------------------------------------
(* Refusals. *)

\* When a call is refused the file itself, not the draft that is rolled back,
\* says why.
LEMMA ReplayRefused ==
  ASSUME IInv, NEW c \in Connections, pc[c] = "replay",
         NEW b \in Replays(c), ~SamePolicy(b, req[c])
  PROVE  Justified(store, req[c], Policy)
  <1>1. writer = c /\ DraftFits(c) /\ Sound(store)
    BY DEF IInv, LockInv, LockHeld, DraftInv, Steps
  <1>2. b \in store.bindings /\ b.key = req[c].key
    BY <1>1 DEF Replays, View, DraftFits
  <1>3. req[c].key \in Keys
    BY DEF IInv, TypeInv, CallsTyped, AllocationRequest
  <1>4. /\ store.counters[req[c].key] # NoRow
        /\ SamePolicy(b, store.counters[req[c].key])
    BY <1>1, <1>2, <1>3 DEF Sound
  <1>5. QED
    BY <1>3, <1>4 DEF Justified, HasConflict, SamePolicy, Policy

LEMMA CounterRefused ==
  ASSUME IInv, NEW c \in Connections, pc[c] = "policy"
  PROVE  /\ CounterOf(c) = NoRow => Justified(store, req[c], Policy)
         /\ CounterOf(c) # NoRow /\ ~SamePolicy(CounterOf(c), req[c]) =>
              Justified(store, req[c], Policy)
         /\ /\ CounterOf(c) # NoRow /\ SamePolicy(CounterOf(c), req[c])
            /\ CounterOf(c).last >= Capacity[req[c].width]
            => Justified(store, req[c], "sequence_overflow")
  <1> DEFINE r == req[c]
             row == draft.counters[r.key]
             old == store.counters[r.key]
  <1>1. /\ writer = c /\ draft = Seeded(r) /\ Unbound(store, r)
        /\ Sound(store) /\ store \in Tables
    BY DEF IInv, TypeInv, TypeOK, LockInv, LockHeld, DraftInv, DraftFits, Steps
  <1>2. CounterOf(c) = row
    BY <1>1 DEF CounterOf, View
  <1>3. r \in AllocationRequest /\ r.width \in ValidWidths
    BY DEF IInv, TypeInv, CallsTyped
  <1>4. r.key \in Keys /\ SeedOf(r) \in CounterRow
    BY <1>3 DEF AllocationRequest, SeedOf, CounterRow
  <1>5. \/ HasConflict(store.counters, r) /\ row = old
        \/ row = SeedOf(r)
    <2>1. CASE HasConflict(store.counters, r)
      BY <1>1, <2>1 DEF Seeded
    <2>2. CASE ~HasConflict(store.counters, r)
      BY <1>1, <1>4, <2>2, SetCounter DEF Seeded
    <2>3. QED
      BY <2>1, <2>2
  <1>6. /\ SeedOf(r) # NoRow /\ SamePolicy(SeedOf(r), r) /\ SeedOf(r).last = 0
        /\ Capacity[r.width] \in Nat \ {0}
    BY <1>3, <1>4, NamesAssumption, WidthsAssumption DEF SeedOf, SamePolicy
  <1>7. ASSUME row # NoRow, SamePolicy(row, r), row.last >= Capacity[r.width]
        PROVE  Justified(store, r, "sequence_overflow")
    <2>1. row = old
      BY <1>5, <1>6, <1>7
    <2>2. old.last \in Nat /\ old.last <= Capacity[old.width]
      BY <1>1, <1>4, <1>7, <2>1 DEF Sound, Tables, CounterRow
    <2>3. old.last = Capacity[r.width]
      BY <1>6, <1>7, <2>1, <2>2 DEF SamePolicy
    <2>4. QED
      BY <1>1, <1>7, <2>1, <2>3 DEF Justified, Policy
  <1>8. ASSUME row = NoRow \/ ~SamePolicy(row, r)
        PROVE  Justified(store, r, Policy)
    BY <1>5, <1>6, <1>8 DEF Justified, Policy
  <1>9. QED
    BY <1>2, <1>7, <1>8

LEMMA RefusalStep == IInv /\ [Next]_vars => RefusalIsFinal'
  <1> SUFFICES ASSUME IInv, [Next]_vars, NEW d \in Connections
               PROVE  Justified(store', req'[d], answer'[d])
    BY DEF RefusalIsFinal, Justified, Unbound
  <1>0. /\ store \in Tables /\ Sound(store)
        /\ req \in [Connections -> AllocationRequest \cup {NoRow}]
        /\ answer \in [Connections -> Codes \cup {"ok", "lost"}]
        /\ CallsTyped(d)
        /\ Justified(store, req[d], answer[d])
    BY RefusalsJustified DEF IInv, TypeInv, TypeOK, DraftInv
  <1>1. store' \in Tables /\ Sound(store') /\ Grows(store, store')
    BY FileStep, TypeStep DEF FileGrows, TypeInv, TypeOK
  <1>2. ASSUME NEW code, Justified(store, req[d], code),
               code \in {Policy, "sequence_overflow"} => req[d] \in AllocationRequest
        PROVE  Justified(store', req[d], code)
    <2>1. CASE code \in {Policy, "sequence_overflow"}
      BY <1>0, <1>1, <1>2, <2>1, JustifiedGrows
    <2>2. CASE code \notin {Policy, "sequence_overflow"}
      BY <2>2 DEF Justified
    <2>3. QED
      BY <2>1, <2>2
  <1>3. ASSUME req'[d] = req[d], answer'[d] = answer[d]
        PROVE  Justified(store', req'[d], answer'[d])
    BY <1>0, <1>2, <1>3 DEF CallsTyped
  <1>4. ASSUME NEW r, NEW code \in {"ok", "lost", Conflict}
        PROVE  Justified(store', r, code)
    BY <1>4 DEF Justified, Policy, Conflict
  <1>5. ASSUME NEW c \in Connections, NEW code \in Codes, Fail(c, code),
               c = d => Justified(store, req[c], code), pc[c] # "idle"
        PROVE  Justified(store', req'[d], answer'[d])
    <2>1. CASE c # d
      BY <1>0, <1>3, <1>5, <2>1 DEF Fail
    <2>2. CASE c = d
      <3>1. req' = req /\ answer'[d] = code
        BY <1>0, <1>5, <2>2 DEF Fail
      <3>2. req[d] \in AllocationRequest
        BY <1>0, <1>5, <2>2 DEF CallsTyped
      <3>3. QED
        BY <1>2, <1>5, <2>2, <3>1, <3>2
    <2>3. QED
      BY <2>1, <2>2
  <1>6. ASSUME NEW c \in Connections,
               \/ CallerBegin(c) \/ CallerCommit(c) \/ CallerRollback(c) \/ Begin(c)
               \/ CommitOwn(c)
        PROVE  Justified(store', req'[d], answer'[d])
    BY <1>3, <1>6 DEF CallerBegin, CallerCommit, CallerRollback, Begin, CommitOwn
  <1>7. ASSUME NEW c \in Connections,
               \/ Crash(c) \/ ReserveBusy(c)
               \/ \E row \in Reservations : Reserve(c, row)
        PROVE  Justified(store', req'[d], answer'[d])
    <2>1. /\ req' = req
          /\ \E code \in {"ok", "lost", Conflict} : answer' = [answer EXCEPT ![c] = code]
      BY <1>7 DEF Crash, ReserveBusy, Reserve
    <2>2. CASE c = d
      BY <1>0, <1>4, <2>1, <2>2
    <2>3. CASE c # d
      BY <1>0, <1>3, <2>1, <2>3
    <2>4. QED
      BY <2>2, <2>3
  <1>8. ASSUME NEW c \in Connections, NEW r \in Requests, CallAllocate(c, r)
        PROVE  Justified(store', req'[d], answer'[d])
    <2>1. CASE c # d
      BY <1>0, <1>3, <1>8, <2>1 DEF CallAllocate
    <2>2. CASE c = d
      <3>1. req'[d] = r
        BY <1>0, <1>8, <2>2 DEF CallAllocate
      <3>2. CASE r.width \in ValidWidths
        BY <1>0, <1>4, <1>8, <2>2, <3>2 DEF CallAllocate
      <3>3. CASE r.width \notin ValidWidths
        <4>1. answer'[d] = Policy
          BY <1>0, <1>8, <2>2, <3>3 DEF CallAllocate
        <4>2. QED
          BY <3>1, <3>3, <4>1 DEF Justified, Policy
      <3>4. QED
        BY <3>2, <3>3
    <2>3. QED
      BY <2>1, <2>2
  <1>9. ASSUME NEW c \in Connections, NEW step, NEW t, Proceed(c, step, t)
        PROVE  Justified(store', req'[d], answer'[d])
    BY <1>3, <1>9 DEF Proceed
  <1>10. ASSUME NEW c \in Connections, BeginFails(c) \/ CommitBusy(c)
         PROVE  Justified(store', req'[d], answer'[d])
    <2>1. Fail(c, Conflict) /\ pc[c] # "idle"
      BY <1>10 DEF BeginFails, CommitBusy
    <2>2. Conflict \in Codes /\ Justified(store, req[c], Conflict)
      BY DEF Conflict, Codes, Justified, Policy
    <2>3. QED
      BY <1>5, <2>1, <2>2
  <1>11. ASSUME NEW c \in Connections, Replay(c)
         PROVE  Justified(store', req'[d], answer'[d])
    <2>1. ASSUME NEW b \in Replays(c), ~SamePolicy(b, req[c]), Fail(c, Policy)
          PROVE  Justified(store', req'[d], answer'[d])
      BY <1>5, <1>11, <2>1, ReplayRefused DEF Replay, Policy, Codes
    <2>2. QED
      BY <1>9, <1>11, <2>1 DEF Replay
  <1>12. ASSUME NEW c \in Connections, CheckPolicy(c)
         PROVE  Justified(store', req'[d], answer'[d])
    <2>1. pc[c] = "policy"
      BY <1>12 DEF CheckPolicy
    <2>2. Justified(store, req[c], Conflict) /\ {Conflict, Policy} \subseteq Codes
          /\ "sequence_overflow" \in Codes
      BY DEF Conflict, Codes, Justified, Policy
    <2>3. CASE CounterOf(c) = NoRow
      <3>1. Port[c].missing \in {Policy, Conflict}
        BY PortsAssumption DEF Ports
      <3>2. Fail(c, Port[c].missing)
        BY <1>12, <2>3 DEF CheckPolicy
      <3>3. Justified(store, req[c], Policy)
        BY <2>1, <2>3, CounterRefused
      <3>4. QED
        BY <1>5, <2>1, <2>2, <3>1, <3>2, <3>3
    <2>4. CASE CounterOf(c) # NoRow
      <3>1. /\ CounterOf(c) # NoRow /\ ~SamePolicy(CounterOf(c), req[c]) =>
                 Justified(store, req[c], Policy)
            /\ /\ CounterOf(c) # NoRow /\ SamePolicy(CounterOf(c), req[c])
               /\ CounterOf(c).last >= Capacity[req[c].width]
               => Justified(store, req[c], "sequence_overflow")
        BY <2>1, CounterRefused
      <3>2. QED
        BY <1>5, <1>9, <1>12, <2>1, <2>2, <2>4, <3>1 DEF CheckPolicy
    <2>5. QED
      BY <2>3, <2>4
  <1>13. ASSUME NEW c \in Connections, Seed(c) \/ Update(c)
         PROVE  Justified(store', req'[d], answer'[d])
    BY <1>9, <1>13 DEF Seed, Update
  <1>14. ASSUME NEW c \in Connections, Bind(c)
         PROVE  Justified(store', req'[d], answer'[d])
    <2>1. pc[c] # "idle" /\ Conflict \in Codes /\ Justified(store, req[c], Conflict)
      BY <1>14 DEF Bind, Conflict, Codes, Justified, Policy
    <2>2. QED
      BY <1>5, <1>9, <1>14, <2>1 DEF Bind
  <1>15. CASE UNCHANGED vars
    BY <1>3, <1>15 DEF vars
  <1>16. QED
    BY <1>6, <1>7, <1>8, <1>10, <1>11, <1>12, <1>13, <1>14, <1>15
       DEF Next, Allocation

-----------------------------------------------------------------------------
(* The theorems. *)

LEMMA IInvInit == Init => IInv
  <1> SUFFICES ASSUME Init PROVE IInv
    OBVIOUS
  <1>1. EmptyTables \in Tables
    BY DEF EmptyTables, Tables
  <1>2. TypeInv
    BY <1>1 DEF Init, TypeInv, TypeOK, CallsTyped, Policy
  <1>3. LockInv
    BY NamesAssumption DEF Init, LockInv, LockHeld, Steps
  <1>4. DraftInv
    BY SoundEmpty, NamesAssumption DEF Init, DraftInv
  <1>5. AnswersInv /\ RefusalIsFinal
    BY DEF Init, AnswersInv, RefusalIsFinal, Policy
  <1>6. QED
    BY <1>2, <1>3, <1>4, <1>5 DEF IInv

\* The inductive invariant: one writer, a draft for each statement of a call,
\* answers that are in the tables of their transaction, and justified refusals.
THEOREM Invariant == Spec => []IInv
  <1>1. IInv /\ [Next]_vars => IInv'
    BY TypeStep, LockStep, DraftStep, AnswersStep, RefusalStep DEF IInv
  <1>2. QED
    BY <1>1, IInvInit, PTL DEF Spec

\* Every variable has the type of the column, lock or local it models.
THEOREM TypeCorrect == Spec => []TypeOK
  <1>1. IInv => TypeOK
    BY DEF IInv, TypeInv
  <1>2. QED
    BY <1>1, Invariant, PTL

\* The numbers of every counter are 1..last, one MID and one policy each, after
\* every crash, refused commit and rolled back transaction (sqlite.ts:147-167).
THEOREM StoreIsSoundHolds == Spec => []StoreIsSound
  <1>1. IInv => StoreIsSound
    BY DEF IInv, DraftInv, StoreIsSound
  <1>2. QED
    BY <1>1, Invariant, PTL

\* What was answered and committed is in the file, also when the answer was
\* given inside a transaction of the caller (sqlite.ts:85-92, 147-167).
THEOREM AckedIsStoredHolds == Spec => []AckedIsStored
  <1>1. IInv => AckedIsStored
    BY DEF IInv, AnswersInv, AckedIsStored, Kept
  <1>2. QED
    BY <1>1, Invariant, PTL

\* A call that has ended holds no transaction and no lock of its own
\* (sqlite.ts:169-176 and its ports).
THEOREM NothingLeftBehindHolds == Spec => []NothingLeftBehind
  <1>1. IInv => NothingLeftBehind
    BY DEF IInv, LockInv, LockHeld, NothingLeftBehind, Steps
  <1>2. QED
    BY <1>1, Invariant, PTL

\* A refused allocation can be justified from the file at any later time.
THEOREM RefusalIsFinalHolds == Spec => []RefusalIsFinal
  <1>1. IInv => RefusalIsFinal
    BY DEF IInv
  <1>2. QED
    BY <1>1, Invariant, PTL

\* No port but those that roll back whatever is open ends a transaction the
\* caller has begun: TypeScript and Python are the only exceptions to
\* contract.md:15.
THEOREM CallersTransactionIsTheirsHolds ==
  (\A c \in Connections : ~Port[c].unwinds) => (Spec => CallersTransactionIsTheirs)
  <1> SUFFICES ASSUME \A c \in Connections : ~Port[c].unwinds
               PROVE  Spec => CallersTransactionIsTheirs
    OBVIOUS
  <1> DEFINE Theirs == \A c \in Connections :
       (tx[c] = "caller" /\ tx'[c] # "caller")
         => CallerCommit(c) \/ CallerRollback(c) \/ Crash(c)
  <1>1. ASSUME IInv, [Next]_vars, NEW d \in Connections,
               tx[d] = "caller", tx'[d] # "caller"
        PROVE  CallerCommit(d) \/ CallerRollback(d) \/ Crash(d)
    <2>1. /\ tx \in [Connections -> {"none", "own", "caller"}]
          /\ \A c \in Connections : LockHeld(c)
      BY <1>1 DEF IInv, TypeInv, TypeOK, LockInv
    <2>2. ASSUME NEW c \in Connections, NEW code, Fail(c, code) PROVE FALSE
      BY <1>1, <2>1, <2>2 DEF Fail, EndTransaction
    <2>3. ASSUME NEW c \in Connections, NEW step, NEW t, Proceed(c, step, t) PROVE FALSE
      BY <1>1, <2>3 DEF Proceed
    <2>4. ASSUME NEW c \in Connections, CallerCommit(c) \/ CallerRollback(c) \/ Crash(c)
          PROVE  c = d
      BY <1>1, <2>1, <2>4 DEF CallerCommit, CallerRollback, Crash, EndTransaction
    <2>5. ASSUME NEW c \in Connections,
                 \/ CallerBegin(c) \/ ReserveBusy(c) \/ Begin(c)
                 \/ \E row \in Reservations : Reserve(c, row)
                 \/ \E r \in Requests : CallAllocate(c, r)
          PROVE  FALSE
      BY <1>1, <2>1, <2>5
         DEF CallerBegin, ReserveBusy, Begin, Reserve, CallAllocate
    <2>6. ASSUME NEW c \in Connections, CommitOwn(c) PROVE FALSE
      BY <1>1, <2>1, <2>6 DEF CommitOwn, LockHeld, Steps
    <2>7. ASSUME NEW c \in Connections, Allocation(c) PROVE FALSE
      BY <2>2, <2>3, <2>5, <2>6, <2>7
         DEF Allocation, BeginFails, Replay, Seed, CheckPolicy, Update, Bind, CommitBusy
    <2>8. ~UNCHANGED vars
      BY <1>1 DEF vars
    <2>9. QED
      BY <1>1, <2>4, <2>5, <2>7, <2>8 DEF Next
  <1>2. IInv /\ [Next]_vars => [Theirs]_vars
    BY <1>1
  <1>3. QED
    BY <1>2, Invariant, PTL DEF Spec, CallersTransactionIsTheirs
-----------------------------------------------------------------------------
(* The file as a contract store. *)

\* The file without what the call of c has done: where the request of c gets
\* the next number of its counter, and no other counter has moved.
Reaches(c) ==
  LET k == req[c].key IN
  /\ draft.refs = store.refs
  /\ draft.bindings = store.bindings
  /\ \A l \in Keys : l # k => draft.counters[l] = store.counters[l]
  /\ draft.counters[k] # NoRow
  /\ SamePolicy(draft.counters[k], req[c])
  /\ number[c] = CountIn(store, NoRow, k) + 1
  /\ PolicyIn(store, NoRow, k) \in {NoRow, <<req[c].prefix, req[c].width>>}

\* What the holder of the write lock is about to commit is one allocation, or
\* nothing for a replay.
Exact(c) ==
  /\ pc[c] \in {"update", "bind"} => Reaches(c)
  /\ pc[c] = "commit" =>
       \/ draft = store
       \/ Allocates(store, draft, NoRow, Binding(req[c], number[c]))

ExactInv == \A c \in Connections : writer = c => Exact(c)

\* Sound tables number the MIDs of each counter.
LEMMA SoundIsNumbered ==
  ASSUME NEW t \in Tables, Sound(t)
  PROVE  Numbered(t, Keys, MachineIds, NoRow)
  <1>1. \A b \in t.bindings : b.mid \in MachineIds
    BY DEF Tables, AllocationRow
  <1>2. ASSUME NEW k \in Keys
        PROVE  /\ CountIn(t, NoRow, k) \in Nat
               /\ \A b \in t.bindings : b.key = k => b.seq \in 1..CountIn(t, NoRow, k)
               /\ \A n \in 1..CountIn(t, NoRow, k) :
                    \E b \in t.bindings : b.key = k /\ b.seq = n
    <2>1. CASE t.counters[k] = NoRow
      BY <2>1 DEF CountIn, Sound
    <2>2. CASE t.counters[k] # NoRow
      BY <2>2 DEF CountIn, Sound, Tables, CounterRow
    <2>3. QED
      BY <2>1, <2>2
  <1>3. QED
    BY <1>1, <1>2 DEF Numbered, Sound

LEMMA GrowsIsExtends ==
  ASSUME NEW t \in Tables, NEW u \in Tables, Grows(t, u)
  PROVE  Extends(t, u, Keys, NoRow)
  BY DEF Grows, Extends, PolicyIn, CountIn, SamePolicy

\* An insert that changes one counter of tables.
LEMMA SeededIs ==
  ASSUME store \in Tables, NEW r \in AllocationRequest, r.width \in ValidWidths
  PROVE  /\ Seeded(r).refs = store.refs /\ Seeded(r).bindings = store.bindings
         /\ \A l \in Keys : l # r.key => Seeded(r).counters[l] = store.counters[l]
         /\ \/ Seeded(r).counters[r.key] = store.counters[r.key]
            \/ /\ store.counters[r.key] = NoRow
               /\ Seeded(r).counters[r.key] = SeedOf(r)
  <1>1. r.key \in Keys /\ SeedOf(r) \in CounterRow
    BY DEF SeedOf, AllocationRequest, CounterRow
  <1>2. CASE HasConflict(store.counters, r)
    BY <1>2 DEF Seeded
  <1>3. CASE ~HasConflict(store.counters, r)
    <2>1. Seeded(r) = [store EXCEPT !.counters[r.key] = SeedOf(r)]
      BY <1>3 DEF Seeded
    <2>2. store.counters[r.key] = NoRow
      BY <1>3 DEF HasConflict
    <2>3. QED
      BY <1>1, <2>1, <2>2, SetCounter
  <1>4. QED
    BY <1>2, <1>3

\* The step of a call that reads, updates or binds leaves its draft one
\* allocation away from the file.
LEMMA ExactCall ==
  ASSUME IInv, ExactInv, NEW c \in Connections,
         \/ Replay(c) \/ Seed(c) \/ CheckPolicy(c) \/ Update(c) \/ Bind(c),
         writer' = c
  PROVE  Exact(c)'
  <1> DEFINE r == req[c]
             k == r.key
  <1>1. /\ store \in Tables /\ draft \in Tables /\ Sound(store)
        /\ number \in [Connections -> Nat]
        /\ pc \in [Connections -> {"idle"} \cup Steps]
        /\ r \in AllocationRequest /\ r.width \in ValidWidths
        /\ pc[c] \in Steps \ {"begin"}
    BY DEF IInv, TypeInv, TypeOK, CallsTyped, DraftInv, Replay, Seed, CheckPolicy,
           Update, Bind, Steps
  <1>2. tx[c] = "own" /\ writer = c /\ DraftFits(c) /\ Exact(c)
    BY <1>1 DEF IInv, LockInv, LockHeld, DraftInv, ExactInv
  <1>3. k \in Keys
    BY <1>1 DEF AllocationRequest
  <1>4. ASSUME NEW code, Fail(c, code) PROVE FALSE
    BY <1>2, <1>4, NamesAssumption DEF Fail, EndTransaction, CanWrite
  <1>5. View(c) = draft
    BY <1>2 DEF View
  <1>6. ASSUME Replay(c) PROVE Exact(c)'
    <2>1. pc[c] = "replay" /\ draft = store
      BY <1>2, <1>6 DEF Replay, DraftFits
    <2>2. /\ store' = store /\ draft' = draft
          /\ pc'[c] \in {"seed", "commit"}
      BY <1>1, <1>4, <1>6 DEF Replay, Proceed, Goto
    <2>3. QED
      BY <2>1, <2>2 DEF Exact
  <1>7. ASSUME Seed(c) PROVE Exact(c)'
    <2>1. pc'[c] = "policy"
      BY <1>1, <1>7 DEF Seed, Proceed, Goto
    <2>2. QED
      BY <2>1 DEF Exact
  <1>8. ASSUME CheckPolicy(c) PROVE Exact(c)'
    <2> DEFINE row == draft.counters[k]
    <2>1. draft = Seeded(r)
      BY <1>2, <1>8 DEF CheckPolicy, DraftFits
    <2>2. /\ row # NoRow /\ SamePolicy(row, r)
          /\ Proceed(c, "update", draft)
          /\ number' = [number EXCEPT ![c] = row.last + 1]
      BY <1>4, <1>5, <1>8 DEF CheckPolicy, CounterOf
    <2>3. /\ draft' = draft /\ store' = store /\ req' = req
          /\ pc'[c] = "update" /\ number'[c] = row.last + 1
      BY <1>1, <2>2 DEF Proceed, Goto
    <2>4. /\ draft.refs = store.refs /\ draft.bindings = store.bindings
          /\ \A l \in Keys : l # k => draft.counters[l] = store.counters[l]
          /\ \/ row = store.counters[k]
             \/ store.counters[k] = NoRow /\ row = SeedOf(r)
      BY <1>1, <2>1, SeededIs
    <2>5. row.last = CountIn(store, NoRow, k)
      BY <2>2, <2>4 DEF CountIn, SeedOf
    <2>6. PolicyIn(store, NoRow, k) \in {NoRow, <<r.prefix, r.width>>}
      BY <2>2, <2>4 DEF PolicyIn, SamePolicy
    <2> HIDE DEF row
    <2>7. Reaches(c)'
      <3>1. CountIn(store', NoRow, k) = CountIn(store, NoRow, k)
            /\ PolicyIn(store', NoRow, k) = PolicyIn(store, NoRow, k)
        BY <2>3
      <3>2. draft'.counters[k] # NoRow /\ SamePolicy(draft'.counters[k], r)
        BY <2>2, <2>3 DEF row
      <3>3. QED
        BY <2>3, <2>4, <2>5, <2>6, <3>1, <3>2 DEF Reaches
    <2>8. QED
      BY <2>3, <2>7 DEF Exact
  <1>9. ASSUME Update(c) PROVE Exact(c)'
    <2> DEFINE row == draft.counters[k]
               f == [draft.counters EXCEPT ![k].last = number[c]]
    <2>1. pc[c] = "update" /\ Reaches(c)
      BY <1>2, <1>9 DEF Update, Exact
    <2>2. row \in CounterRow
      BY <1>1, <1>3, <2>1 DEF Tables, Reaches
    <2>3. /\ draft' = [draft EXCEPT !.counters = f]
          /\ store' = store /\ req' = req /\ number' = number
          /\ pc'[c] = "bind"
      BY <1>1, <1>9 DEF Update, Proceed, Goto
    <2>4. /\ draft'.refs = draft.refs /\ draft'.bindings = draft.bindings
          /\ draft'.counters = f
      BY <1>1, <2>3 DEF Tables
    <2>5. /\ f[k] = [row EXCEPT !.last = number[c]]
          /\ \A l \in Keys : l # k => f[l] = draft.counters[l]
      BY <1>1, <1>3 DEF Tables
    <2>6. [row EXCEPT !.last = number[c]] \in CounterRow
      BY <1>1, <2>2 DEF CounterRow
    <2>7. f[k] # NoRow /\ SamePolicy(f[k], r)
      <3>1. SamePolicy(row, r)
        BY <2>1 DEF Reaches
      <3>2. QED
        BY <2>2, <2>5, <2>6, <3>1, NamesAssumption DEF SamePolicy, CounterRow
    <2> HIDE DEF row, f
    <2>8. Reaches(c)'
      <3>1. CountIn(store', NoRow, k) = CountIn(store, NoRow, k)
            /\ PolicyIn(store', NoRow, k) = PolicyIn(store, NoRow, k)
        BY <2>3
      <3>2. QED
        BY <2>1, <2>3, <2>4, <2>5, <2>7, <3>1 DEF Reaches
    <2>9. QED
      BY <2>3, <2>8 DEF Exact
  <1>10. ASSUME Bind(c) PROVE Exact(c)'
    <2> DEFINE row == draft.counters[k]
               new == Binding(r, number[c])
    <2>1. /\ pc[c] = "bind" /\ Reaches(c) /\ row # NoRow /\ row.last = number[c]
      BY <1>2, <1>10 DEF Bind, DraftFits, Exact
    <2>2. Proceed(c, "commit", [draft EXCEPT !.bindings = @ \cup {new}])
          /\ UNCHANGED number
      BY <1>4, <1>10 DEF Bind
    <2>3. /\ draft'.refs = draft.refs /\ draft'.counters = draft.counters
          /\ draft'.bindings = draft.bindings \cup {new}
          /\ store' = store /\ req' = req /\ number' = number
          /\ pc'[c] = "commit"
      BY <1>1, <2>2 DEF Proceed, Goto, Tables
    <2>4. /\ new.key = k /\ new.seq = number[c]
          /\ new.prefix = r.prefix /\ new.width = r.width
      BY DEF Binding
    <2>5. row = [prefix |-> new.prefix, width |-> new.width, last |-> new.seq]
      <3>1. row \in CounterRow
        BY <1>1, <1>3, <2>1 DEF Tables
      <3>2. row.prefix = r.prefix /\ row.width = r.width
        BY <2>1 DEF Reaches, SamePolicy
      <3>3. QED
        BY <2>1, <2>4, <3>1, <3>2 DEF CounterRow
    <2>6. draft.counters = [store.counters EXCEPT ![k] = row]
      <3>1. \A l \in Keys : l # k => draft.counters[l] = store.counters[l]
        BY <2>1 DEF Reaches
      <3>2. QED
        BY <1>1, <1>3, <3>1 DEF Tables
    <2> HIDE DEF row, new
    <2>7. Allocates(store, draft', NoRow, new)
      <3>1. draft'.counters = [store.counters EXCEPT ![new.key] = row]
            /\ draft'.counters[new.key] # NoRow
        BY <2>1, <2>3, <2>4, <2>6 DEF row
      <3>2. /\ draft'.refs = store.refs
            /\ draft'.bindings = store.bindings \cup {new}
            /\ new.seq = CountIn(store, NoRow, new.key) + 1
            /\ PolicyIn(store, NoRow, new.key) \in {NoRow, <<new.prefix, new.width>>}
        BY <2>1, <2>3, <2>4 DEF Reaches
      <3>3. QED
        BY <2>5, <3>1, <3>2 DEF Allocates
    <2>8. Binding(req'[c], number'[c]) = new
      BY <2>3 DEF new
    <2>9. Allocates(store', draft', NoRow, Binding(req'[c], number'[c]))
      BY <2>3, <2>7, <2>8
    <2>10. QED
      BY <2>3, <2>9 DEF Exact
  <1>11. QED
    BY <1>6, <1>7, <1>8, <1>9, <1>10

LEMMA ExactStep == IInv /\ ExactInv /\ [Next]_vars => ExactInv'
  <1> SUFFICES ASSUME IInv, ExactInv, [Next]_vars,
                      NEW d \in Connections, writer' = d
               PROVE  Exact(d)'
    BY DEF ExactInv
  <1>0. /\ pc \in [Connections -> {"idle"} \cup Steps]
        /\ req \in [Connections -> AllocationRequest \cup {NoRow}]
        /\ number \in [Connections -> Nat]
        /\ writer \in Connections \cup {Nobody}
        /\ \A c \in Connections : LockHeld(c)
    BY DEF IInv, TypeInv, TypeOK, LockInv
  <1>1. ASSUME writer = d, UNCHANGED <<store, draft, pc[d], req[d], number[d]>>
        PROVE  Exact(d)'
    BY <1>1 DEF ExactInv, Exact, Reaches
  <1>2. ASSUME pc'[d] \in {"idle", "begin", "replay"} PROVE Exact(d)'
    BY <1>2 DEF Exact
  <1>3. ASSUME NEW c \in Connections, NEW code, Fail(c, code) PROVE Exact(d)'
    <2>1. CASE c = d
      BY <1>0, <1>2, <1>3, <2>1 DEF Fail
    <2>2. CASE c # d
      <3>1. writer = d
        BY <1>3, <2>2, NamesAssumption DEF Fail, EndTransaction
      <3>2. UNCHANGED <<store, draft, pc[d], req[d], number[d]>>
        BY <1>0, <1>3, <2>2, <3>1, NamesAssumption DEF Fail, EndTransaction, CanWrite
      <3>3. QED
        BY <1>1, <3>1, <3>2
    <2>3. QED
      BY <2>1, <2>2
  <1>4. ASSUME NEW c \in Connections, CallerBegin(c) PROVE Exact(d)'
    <2>1. CASE writer = d
      BY <1>1, <1>4, <2>1 DEF CallerBegin
    <2>2. CASE writer # d
      BY <1>0, <1>2, <1>4, <2>2 DEF CallerBegin
    <2>3. QED
      BY <2>1, <2>2
  <1>5. ASSUME NEW c \in Connections, CallerCommit(c) \/ CallerRollback(c) \/ Crash(c)
        PROVE  Exact(d)'
    <2>1. writer = d /\ c # d
      BY <1>0, <1>5, NamesAssumption
         DEF CallerCommit, CallerRollback, Crash, EndTransaction, CanWrite
    <2>2. UNCHANGED <<store, draft, pc[d], req[d], number[d]>>
      BY <1>0, <1>5, <2>1, NamesAssumption
         DEF CallerCommit, CallerRollback, Crash, EndTransaction, CanWrite, View
    <2>3. QED
      BY <1>1, <2>1, <2>2
  <1>6. ASSUME NEW c \in Connections, NEW row \in Reservations, Reserve(c, row)
        PROVE  Exact(d)'
    <2>1. c = d /\ pc'[d] = "idle"
      BY <1>0, <1>6, NamesAssumption DEF Reserve, CanWrite, LockHeld, Steps
    <2>2. QED
      BY <1>2, <2>1
  <1>7. ASSUME NEW c \in Connections, ReserveBusy(c) PROVE Exact(d)'
    BY <1>1, <1>7 DEF ReserveBusy
  <1>8. ASSUME NEW c \in Connections, NEW r \in Requests, CallAllocate(c, r)
        PROVE  Exact(d)'
    <2>1. CASE c = d
      BY <1>0, <1>2, <1>8, <2>1 DEF CallAllocate, Goto
    <2>2. CASE c # d
      BY <1>0, <1>1, <1>8, <2>2 DEF CallAllocate, Goto
    <2>3. QED
      BY <2>1, <2>2
  <1>9. ASSUME NEW c \in Connections, Begin(c) PROVE Exact(d)'
    BY <1>0, <1>2, <1>9 DEF Begin, Goto
  <1>10. ASSUME NEW c \in Connections,
                \/ Replay(c) \/ Seed(c) \/ CheckPolicy(c) \/ Update(c) \/ Bind(c)
         PROVE  Exact(d)'
    <2>1. writer = c
      BY <1>0, <1>10
         DEF Replay, Seed, CheckPolicy, Update, Bind, LockHeld, Steps
    <2>2. c = d
      BY <1>10, <2>1, NamesAssumption
         DEF Replay, Seed, CheckPolicy, Update, Bind, Proceed, Fail, EndTransaction
    <2>3. QED
      BY <1>10, <2>2, ExactCall
  <1>11. ASSUME NEW c \in Connections, CommitOwn(c) PROVE Exact(d)'
    BY <1>11, NamesAssumption DEF CommitOwn
  <1>12. CASE UNCHANGED vars
    <2>1. writer = d /\ UNCHANGED <<store, draft, pc[d], req[d], number[d]>>
      BY <1>12 DEF vars
    <2>2. QED
      BY <1>1, <2>1
  <1>13. QED
    BY <1>3, <1>4, <1>5, <1>6, <1>7, <1>8, <1>9, <1>10, <1>11, <1>12
       DEF Next, Allocation, BeginFails, CommitBusy

\* What a step does to the file: nothing, one reservation, one allocation, or
\* the whole transaction of a caller.
LEMMA FileMoves ==
  ASSUME IInv, ExactInv, Next
  PROVE  \/ store' = store
         \/ \E c \in Connections : CallerCommit(c)
         \/ \E row \in ReferenceRow : Reserves(store, store', row)
         \/ \E new \in AllocationRow : Allocates(store, store', NoRow, new)
  <1> DEFINE Moves == \/ store' = store
                      \/ \E c \in Connections : CallerCommit(c)
                      \/ \E row \in ReferenceRow : Reserves(store, store', row)
                      \/ \E new \in AllocationRow : Allocates(store, store', NoRow, new)
  <1>0. /\ store \in Tables /\ draft \in Tables
        /\ tx \in [Connections -> {"none", "own", "caller"}]
        /\ pc \in [Connections -> {"idle"} \cup Steps]
        /\ number \in [Connections -> Nat]
        /\ \A c \in Connections : LockHeld(c) /\ CallsTyped(c)
        /\ writer = Nobody => draft = store
    BY DEF IInv, TypeInv, TypeOK, LockInv
  <1>1. ASSUME NEW c \in Connections, NEW row \in Reservations, Reserve(c, row)
        PROVE  Moves
    <2> DEFINE won == \A other \in View(c).refs : other.ref # row.ref
               t == [View(c) EXCEPT !.refs = IF won THEN @ \cup {row} ELSE @]
    <2>1. CASE tx[c] = "caller"
      BY <1>1, <2>1 DEF Reserve
    <2>2. CASE tx[c] # "caller"
      <3>1. store' = t
        BY <1>1, <2>2 DEF Reserve
      <3>2. View(c) = store
        BY <1>0, <1>1, <2>2, NamesAssumption DEF Reserve, CanWrite, View, LockHeld, Steps
      <3>3. CASE won
        <4>1. store' = [store EXCEPT !.refs = @ \cup {row}]
          BY <3>1, <3>2, <3>3
        <4>2. /\ store'.refs = store.refs \cup {row}
              /\ store'.counters = store.counters /\ store'.bindings = store.bindings
          BY <1>0, <4>1 DEF Tables
        <4>3. Reserves(store, store', row)
          BY <3>2, <3>3, <4>2 DEF Reserves
        <4>4. QED
          BY <4>3, CallsAssumption
      <3>4. CASE ~won
        BY <1>0, <3>1, <3>2, <3>4 DEF Tables
      <3>5. QED
        BY <3>3, <3>4
    <2>3. QED
      BY <2>1, <2>2
  <1>2. ASSUME NEW c \in Connections, CommitOwn(c) PROVE Moves
    <2> DEFINE new == Binding(req[c], number[c])
    <2>1. writer = c /\ store' = draft /\ pc[c] = "commit"
      BY <1>0, <1>2 DEF CommitOwn, LockHeld, Steps
    <2>2. draft = store \/ Allocates(store, draft, NoRow, new)
      BY <2>1 DEF ExactInv, Exact
    <2>3. new \in AllocationRow
      BY <1>0, <2>1, BindingType DEF CallsTyped
    <2> HIDE DEF new
    <2>4. QED
      BY <2>1, <2>2, <2>3
  <1>3. ASSUME NEW c \in Connections, NEW code, Fail(c, code) PROVE Moves
    BY <1>3 DEF Fail, EndTransaction
  <1>4. ASSUME NEW c \in Connections, NEW step, NEW t, Proceed(c, step, t) PROVE Moves
    BY <1>4 DEF Proceed
  <1>5. ASSUME NEW c \in Connections, Allocation(c) PROVE Moves
    <2>1. CASE Begin(c) \/ BeginFails(c) \/ CommitBusy(c)
      BY <1>3, <2>1 DEF Begin, BeginFails, CommitBusy
    <2>2. CASE Replay(c) \/ Seed(c) \/ CheckPolicy(c) \/ Update(c) \/ Bind(c)
      BY <1>3, <1>4, <2>2 DEF Replay, Seed, CheckPolicy, Update, Bind
    <2>3. QED
      BY <1>2, <1>5, <2>1, <2>2 DEF Allocation
  <1>6. ASSUME NEW c \in Connections,
               \/ CallerBegin(c) \/ CallerRollback(c) \/ Crash(c) \/ ReserveBusy(c)
               \/ \E r \in Requests : CallAllocate(c, r)
        PROVE  Moves
    BY <1>6
       DEF CallerBegin, CallerRollback, Crash, ReserveBusy, CallAllocate, EndTransaction
  <1>7. QED
    BY <1>1, <1>5, <1>6 DEF Next

-----------------------------------------------------------------------------
(* The contract. *)

\* The file as a contract store, before and after a step.
LEMMA ContractViews ==
  /\ \A r : Owner(r) = OwnerIn(store, NoRow, r)
  /\ \A k : PolicyOf(k) = PolicyIn(store, NoRow, k) /\ Issued(k) = IssuedIn(store, NoRow, k)
  /\ \A r : Owner(r)' = OwnerIn(store', NoRow, r)
  /\ \A k : PolicyOf(k)' = PolicyIn(store', NoRow, k)
            /\ Issued(k)' = IssuedIn(store', NoRow, k)
  BY DEF Owner, PolicyOf, Issued, OwnerIn, PolicyIn, IssuedIn, CountIn

LEMMA ContractInit == Init => Contract!Init
  <1> SUFFICES ASSUME Init PROVE Contract!Init
    OBVIOUS
  <1>1. store.refs = {} /\ \A k \in Keys : store.counters[k] = NoRow
    BY DEF Init, EmptyTables
  <1>2. \A r : Owner(r) = NoRow
    BY <1>1 DEF Owner
  <1>3. \A k \in Keys : PolicyOf(k) = NoRow
    BY <1>1 DEF PolicyOf
  <1>4. Sound(store) /\ store \in Tables
    BY IInvInit DEF IInv, DraftInv, TypeInv, TypeOK
  <1>5. \A k \in Keys : Issued(k) = << >>
    <2>1. \A k \in Keys : IssuedIn(store, NoRow, k) \in Seq(MachineIds)
                          /\ Len(IssuedIn(store, NoRow, k)) = 0
      BY <1>1, <1>4, SoundIsNumbered, IssuedIsLog DEF CountIn
    <2>2. QED
      BY <2>1, ContractViews, EmptySeq
  <1>6. QED
    BY <1>2, <1>3, <1>5 DEF Contract!Init

\* A reference is reserved.
LEMMA ImplementsReserve ==
  ASSUME store \in Tables, Sound(store), NEW row \in ReferenceRow,
         Reserves(store, store', row)
  PROVE  Contract!Next
  <1>1. row.ref \in References /\ <<row.ns, row.mid>> \in Namespaces \X MachineIds
    BY DEF ReferenceRow
  <1>2. Reserved(store, store', Keys, NoRow, row)
    <2>1. PICK t, u : t = store /\ u = store'
      OBVIOUS
    <2>2. Reserves(t, u, row) /\ \A a, b \in t.refs : a.ref = b.ref => a = b
      BY <2>1 DEF Sound
    <2>3. Reserved(t, u, Keys, NoRow, row)
      BY <2>2, ReserveIs
    <2>4. QED
      BY <2>1, <2>3
  <1>3. /\ Owner(row.ref) = NoRow
        /\ \A r : Owner(r)' =
                    IF r = row.ref THEN <<row.ns, row.mid>> ELSE Owner(r)
        /\ \A k \in Keys : PolicyOf(k)' = PolicyOf(k) /\ Issued(k)' = Issued(k)
    BY <1>2, ContractViews DEF Reserved
  <1>4. Contract!Reserve(row.ref, <<row.ns, row.mid>>)
    BY <1>1, <1>3 DEF Contract!Reserve
  <1>5. QED
    BY <1>1, <1>4 DEF Contract!Next

\* A counter gives out its next number.
LEMMA ImplementsAllocate ==
  ASSUME store \in Tables, store' \in Tables, Sound(store), Sound(store'),
         NEW new \in AllocationRow, Allocates(store, store', NoRow, new)
  PROVE  Contract!Next
  <1> DEFINE p == <<new.prefix, new.width>>
             k == new.key
  <1>1. /\ k \in Keys /\ new.mid \in MachineIds /\ new.seq \in Nat
        /\ new.prefix \in Prefixes /\ new.width \in ValidWidths
        /\ p \in Prefixes \X ValidWidths
    BY DEF AllocationRow
  <1>2. /\ Numbered(store, Keys, MachineIds, NoRow)
        /\ Numbered(store', Keys, MachineIds, NoRow)
    BY SoundIsNumbered
  <1>3. DOMAIN store.counters = Keys
    BY DEF Tables
  <1>4. /\ PolicyIn(store, NoRow, k) \in {NoRow, p}
        /\ \A n \in 1..Len(IssuedIn(store, NoRow, k)) :
             IssuedIn(store, NoRow, k)[n] # new.mid
        /\ Len(IssuedIn(store, NoRow, k)) + 1 = new.seq
        /\ \A l \in Keys :
             /\ PolicyIn(store', NoRow, l) = IF l = k THEN p ELSE PolicyIn(store, NoRow, l)
             /\ IssuedIn(store', NoRow, l) =
                  IF l = k THEN Append(IssuedIn(store, NoRow, l), new.mid)
                  ELSE IssuedIn(store, NoRow, l)
        /\ \A r : OwnerIn(store', NoRow, r) = OwnerIn(store, NoRow, r)
    <2>1. PICK t, u : t = store /\ u = store'
      OBVIOUS
    <2>2. /\ Allocates(t, u, NoRow, new) /\ DOMAIN t.counters = Keys
          /\ Numbered(t, Keys, MachineIds, NoRow)
          /\ Numbered(u, Keys, MachineIds, NoRow)
      BY <1>2, <1>3, <2>1
    <2>3. Appended(t, u, Keys, NoRow, new)
      BY <1>1, <2>2, AllocateIs
    <2>4. QED
      BY <2>1, <2>3 DEF Appended
  <1>5. /\ PolicyOf(k) \in {NoRow, p}
        /\ \A n \in 1..Len(Issued(k)) : Issued(k)[n] # new.mid
        /\ Len(Issued(k)) + 1 = new.seq
        /\ \A l \in Keys : PolicyOf(l)' = IF l = k THEN p ELSE PolicyOf(l)
        /\ \A l \in Keys :
             Issued(l)' = IF l = k THEN Append(Issued(l), new.mid) ELSE Issued(l)
        /\ \A r : Owner(r)' = Owner(r)
    BY <1>1, <1>4, ContractViews
  <1>6. Len(Issued(k)) \in Nat
    BY <1>1, <1>2, IssuedIsLog, ContractViews
  <1>7. /\ store'.counters[k] # NoRow
        /\ store'.counters[k].prefix = new.prefix
        /\ store'.counters[k].width = new.width
        /\ store'.counters[k].last = new.seq
        /\ \A l \in Keys : l # k => store'.counters[l] = store.counters[l]
    BY <1>1, <1>3 DEF Allocates
  <1>8. new.seq <= Capacity[new.width]
    BY <1>1, <1>7 DEF Sound
  <1>9. Len(Issued(k)) < Capacity[new.width]
    BY <1>1, <1>5, <1>6, <1>8, WidthsAssumption
  <1>10. ASSUME NEW l \in Keys, l # k, PolicyOf(l) # NoRow,
                k[2] = l[2], p[1] = PolicyOf(l)[1]
         PROVE  FALSE
    <2>1. store.counters[l] # NoRow /\ store.counters[l].prefix = new.prefix
      BY <1>10 DEF PolicyOf
    <2>2. QED
      BY <1>1, <1>7, <1>10, <2>1 DEF Sound
  <1> HIDE DEF p, k
  <1>11. Contract!Allocate(k, new.mid, p)
    <2>1. [q \in Prefixes \X ValidWidths |-> Capacity[q[2]]][p] = Capacity[new.width]
      BY <1>1 DEF p
    <2>2. [l \in Keys |-> PolicyOf(l)'] = [[l \in Keys |-> PolicyOf(l)] EXCEPT ![k] = p]
      BY <1>1, <1>5
    <2>3. [l \in Keys |-> Issued(l)'] =
            [[l \in Keys |-> Issued(l)] EXCEPT ![k] = Append(@, new.mid)]
      BY <1>1, <1>5
    <2>4. ~Contract!Numbered(new.mid, k)
      BY <1>1, <1>5 DEF Contract!Numbered
    <2>5. QED
      BY <1>1, <1>5, <1>9, <1>10, <2>1, <2>2, <2>3, <2>4 DEF Contract!Allocate
  <1>12. QED
    BY <1>1, <1>11 DEF Contract!Next

\* A caller commits everything its transaction has done.
LEMMA ImplementsTransaction ==
  ASSUME store \in Tables, store' \in Tables, Sound(store), Sound(store'),
         Grows(store, store')
  PROVE  Contract!Transaction
  <1>1. Batched(store, store', Keys, NoRow)
    <2>1. PICK t, u : t = store /\ u = store'
      OBVIOUS
    <2>2. /\ Numbered(t, Keys, MachineIds, NoRow) /\ Numbered(u, Keys, MachineIds, NoRow)
          /\ Extends(t, u, Keys, NoRow)
      BY <2>1, SoundIsNumbered, GrowsIsExtends
    <2>3. Batched(t, u, Keys, NoRow)
      BY <2>2, BatchIs
    <2>4. QED
      BY <2>1, <2>3
  <1>2. ASSUME NEW r \in References
        PROVE  /\ Owner(r) # NoRow => Owner(r)' = Owner(r)
               /\ Owner(r)' \in (Namespaces \X MachineIds) \cup {NoRow}
    <2>1. Owner(r) # NoRow => Owner(r)' = Owner(r)
      BY <1>1, ContractViews DEF Batched
    <2>2. OwnerIn(store', NoRow, r) \in (Namespaces \X MachineIds) \cup {NoRow}
      BY DEF OwnerIn, Tables, ReferenceRow
    <2>3. QED
      BY <2>1, <2>2, ContractViews
  <1>3. ASSUME NEW k \in Keys
        PROVE  /\ PolicyOf(k) # NoRow => PolicyOf(k)' = PolicyOf(k)
               /\ PolicyOf(k)' = NoRow => Issued(k)' = << >>
               /\ Len(Issued(k)) <= Len(Issued(k)')
               /\ Issued(k) = SubSeq(Issued(k)', 1, Len(Issued(k)))
               /\ \A i, j \in 1..Len(Issued(k)') : Issued(k)'[i] = Issued(k)'[j] => i = j
               /\ PolicyOf(k)' # NoRow =>
                    /\ PolicyOf(k)' \in Prefixes \X ValidWidths
                    /\ Len(Issued(k)') <= Capacity[PolicyOf(k)'[2]]
    <2> DEFINE row == store'.counters[k]
    <2>1. /\ PolicyIn(store, NoRow, k) # NoRow =>
               PolicyIn(store', NoRow, k) = PolicyIn(store, NoRow, k)
          /\ row = NoRow => IssuedIn(store', NoRow, k) = << >>
          /\ Len(IssuedIn(store, NoRow, k)) <= Len(IssuedIn(store', NoRow, k))
          /\ IssuedIn(store, NoRow, k) =
               SubSeq(IssuedIn(store', NoRow, k), 1, Len(IssuedIn(store, NoRow, k)))
          /\ \A i, j \in 1..Len(IssuedIn(store', NoRow, k)) :
               IssuedIn(store', NoRow, k)[i] = IssuedIn(store', NoRow, k)[j] => i = j
          /\ Len(IssuedIn(store', NoRow, k)) = CountIn(store', NoRow, k)
      BY <1>1 DEF Batched
    <2>2. row # NoRow =>
            /\ row \in CounterRow /\ row.last <= Capacity[row.width]
            /\ <<row.prefix, row.width>> \in Prefixes \X ValidWidths
      BY DEF Tables, Sound, CounterRow
    <2>3. row # NoRow => PolicyIn(store', NoRow, k) # NoRow
      BY <2>2, NamesAssumption DEF PolicyIn
    <2>4. PolicyIn(store', NoRow, k) # NoRow =>
            /\ PolicyIn(store', NoRow, k) \in Prefixes \X ValidWidths
            /\ CountIn(store', NoRow, k) <= Capacity[PolicyIn(store', NoRow, k)[2]]
      BY <2>2 DEF PolicyIn, CountIn
    <2> HIDE DEF row
    <2>5. QED
      BY <2>1, <2>3, <2>4, ContractViews
  <1>4. ASSUME NEW k \in Keys, NEW l \in Keys, k # l,
               PolicyOf(k)' # NoRow, PolicyOf(l)' # NoRow
        PROVE  ~(k[2] = l[2] /\ PolicyOf(k)'[1] = PolicyOf(l)'[1])
    <2>1. /\ store'.counters[k] # NoRow /\ PolicyOf(k)'[1] = store'.counters[k].prefix
          /\ store'.counters[l] # NoRow /\ PolicyOf(l)'[1] = store'.counters[l].prefix
      BY <1>4 DEF PolicyOf
    <2>2. QED
      BY <1>4, <2>1 DEF Sound
  <1>5. QED
    BY <1>2, <1>3, <1>4 DEF Contract!Transaction

\* The inductive invariant with what a call is about to commit.
LEMMA ExactInvariant == Spec => [](IInv /\ ExactInv)
  <1>1. Init => ExactInv
    BY NamesAssumption DEF Init, ExactInv
  <1>2. QED
    BY <1>1, ExactStep, Invariant, PTL DEF Spec

\* Every step of the file is a step of the contract's store: one reservation or
\* one allocation, and a batch of them when a caller commits its transaction,
\* whatever the ports are (contract.md:36-80).
THEOREM ImplementsContractHolds == Spec => ImplementsContract
  <1> DEFINE ContractStep ==
        store' # store =>
          IF \E c \in Connections : CallerCommit(c)
          THEN Contract!Transaction ELSE Contract!Next
  <1>1. ASSUME IInv, ExactInv, IInv', [Next]_vars PROVE [ContractStep]_store
    <2>1. /\ store \in Tables /\ Sound(store)
          /\ store' \in Tables /\ Sound(store')
      BY <1>1 DEF IInv, TypeInv, TypeOK, DraftInv
    <2>2. CASE store' = store
      BY <2>2
    <2>3. CASE store' # store
      <3>1. Next
        BY <1>1, <2>3 DEF vars
      <3>2. CASE \E c \in Connections : CallerCommit(c)
        <4>1. Grows(store, store')
          BY <1>1, FileStep DEF FileGrows
        <4>2. Contract!Transaction
          BY <2>1, <4>1, ImplementsTransaction
        <4>3. QED
          BY <3>2, <4>2
      <3>3. CASE ~(\E c \in Connections : CallerCommit(c))
        <4>1. Contract!Next
          BY <1>1, <2>1, <2>3, <3>1, <3>3, FileMoves, ImplementsReserve, ImplementsAllocate
        <4>2. QED
          BY <3>3, <4>1
      <3>4. QED
        BY <3>2, <3>3
    <2>4. QED
      BY <2>2, <2>3
  <1>2. QED
    BY <1>1, ContractInit, ExactInvariant, PTL DEF Spec, ImplementsContract
=============================================================================
