------------------------ MODULE PostgresStorageProofs ------------------------
(***************************************************************************)
(* What PostgresStorage guarantees for every number of sessions, counters, *)
(* MIDs, references and widths.                                            *)
(***************************************************************************)
EXTENDS PostgresStorage, TLAPS

-----------------------------------------------------------------------------
(* Lemmas about rows. *)

\* One row of one transaction's counters is replaced, and nothing else.
ReplacesRow(s, k, row) ==
  newCounters' = [newCounters EXCEPT ![s][k] = row]

LEMMA ReplaceRow ==
  ASSUME newCounters \in [Sessions -> [Keys -> CounterRow \cup {NoRow}]],
         NEW s \in Sessions, NEW k \in Keys, NEW row \in CounterRow,
         ReplacesRow(s, k, row)
  PROVE  /\ newCounters' \in [Sessions -> [Keys -> CounterRow \cup {NoRow}]]
         /\ newCounters'[s][k] = row
         /\ \A l \in Keys : l # k => newCounters'[s][l] = newCounters[s][l]
         /\ \A t \in Sessions : t # s => newCounters'[t] = newCounters[t]
  <1> DEFINE rows == [newCounters[s] EXCEPT ![k] = row]
  <1>1. newCounters' = [newCounters EXCEPT ![s] = rows]
    BY DEF ReplacesRow
  <1>2. /\ rows \in [Keys -> CounterRow \cup {NoRow}]
        /\ rows[k] = row
        /\ \A l \in Keys : l # k => rows[l] = newCounters[s][l]
    OBVIOUS
  <1> HIDE DEF rows
  <1>3. QED
    BY <1>1, <1>2

\* Advancing a counter row keeps its policy and adds one to its value.
LEMMA AdvancedRow ==
  ASSUME NEW row \in CounterRow
  PROVE  /\ Advanced(row) \in CounterRow
         /\ Advanced(row).prefix = row.prefix
         /\ Advanced(row).width = row.width
         /\ Advanced(row).last = row.last + 1
  BY DEF Advanced, CounterRow

\* A counter starts at 0 under the policy of the request that seeds it.
LEMMA SeedRow ==
  ASSUME NEW r \in AllocationRequest, r.width \in ValidWidths
  PROVE  /\ r.key \in Keys
         /\ [prefix |-> r.prefix, width |-> r.width, last |-> 0] \in CounterRow
  BY DEF AllocationRequest, CounterRow

\* The answer to an allocation is the binding row of the request.
LEMMA AllocatedRow ==
  ASSUME NEW r \in AllocationRequest, r.width \in ValidWidths, NEW n \in Nat
  PROVE  /\ Allocated(r, n) \in Results
         /\ Allocated(r, n).kind = "allocated"
         /\ Allocated(r, n).row \in AllocationRow
         /\ Allocated(r, n).row.key = r.key
         /\ Allocated(r, n).row.mid = r.mid
         /\ Allocated(r, n).row.seq = n
         /\ SamePolicy(Allocated(r, n).row, r)
  BY DEF Allocated, Results, AllocationRequest, AllocationRow, SamePolicy

-----------------------------------------------------------------------------
(* Types. *)

TypeInv == TypeOK /\ StepsTyped

LEMMA TypeInit == Init => TypeInv
  BY VersionsAssumption
     DEF Init, TypeInv, TypeOK, StepsTyped, NoCounters,
         ReserveSteps, AllocateSteps, SqlStates

\* What a session reads has the type of the tables.
LEMMA ViewTypes ==
  ASSUME TypeOK, NEW s \in Sessions
  PROVE  /\ BindingsOf(s) \subseteq AllocationRow
         /\ ReferencesOf(s) \subseteq ReferenceRow
         /\ \A k \in Keys : CounterOf(s, k) \in CounterRow \cup {NoRow}
  BY DEF TypeOK, BindingsOf, ReferencesOf, CounterOf

\* Undoing a transaction, on an error or a lost connection, keeps the types.
LEMMA TypeRaise ==
  ASSUME TypeInv, NEW s \in Sessions, NEW code \in SqlStates, Raise(s, code)
  PROVE  TypeInv'
  BY DEF TypeInv, TypeOK, StepsTyped, Raise, Forget, NoCounters, tables,
         ReserveSteps, AllocateSteps

LEMMA TypeReturn ==
  ASSUME TypeInv, NEW s \in Sessions, NEW result \in Results, Return(s, result)
  PROVE  TypeInv'
  BY DEF TypeInv, TypeOK, StepsTyped, Return, tables, ReserveSteps, AllocateSteps

LEMMA TypeMove ==
  ASSUME TypeInv, NEW s \in Sessions, pc[s] \in AllocateSteps,
         NEW row \in CounterRow, Move(s, row)
  PROVE  TypeInv'
  <1>1. req[s] \in AllocationRequest /\ req[s].width \in ValidWidths
    BY DEF TypeInv, StepsTyped
  <1>2. /\ req[s].key \in Keys /\ Advanced(row) \in CounterRow /\ row # NoRow
    BY <1>1, SeedRow, AdvancedRow, NoRowAssumption
  <1>3. TypeOK'
    <2>1. newCounters' \in [Sessions -> [Keys -> CounterRow \cup {NoRow}]]
      <3>1. ReplacesRow(s, req[s].key, Advanced(row))
        BY DEF Move, ReplacesRow
      <3>2. QED
        BY <1>2, <3>1, ReplaceRow DEF TypeInv, TypeOK
    <2>2. locks' \in [Sessions -> SUBSET Keys]
      <3>1. locks' = [locks EXCEPT ![s] = locks[s] \cup {req[s].key}]
        BY DEF Move
      <3>2. QED
        BY <1>2, <3>1 DEF TypeInv, TypeOK
    <2>3. /\ seen' \in [Sessions -> CounterRow \cup {NoRow}]
          /\ pc' \in [Sessions -> {"idle", "returned"} \cup ReserveSteps
                                    \cup AllocateSteps]
      BY DEF Move, TypeInv, TypeOK, AllocateSteps
    <2>4. UNCHANGED <<refs, counters, bindings, newRefs, newBindings, results,
                      deployed, req, version, sqlstate, acked>>
      BY DEF Move, tables
    <2>5. QED
      BY <2>1, <2>2, <2>3, <2>4 DEF TypeInv, TypeOK
  <1>4. StepsTyped'
    BY <1>1, <1>2 DEF Move, TypeInv, TypeOK, StepsTyped, ReserveSteps, AllocateSteps
  <1>5. QED
    BY <1>3, <1>4 DEF TypeInv

LEMMA TypeBind ==
  ASSUME TypeInv, NEW s \in Sessions, Bind(s)
  PROVE  TypeInv'
  <1> DEFINE result == Allocated(req[s], Advanced(seen[s]).last)
  <1>1. /\ req[s] \in AllocationRequest /\ req[s].width \in ValidWidths
        /\ seen[s] \in CounterRow
    BY DEF Bind, TypeInv, TypeOK, StepsTyped, AllocateSteps
  <1>2. Advanced(seen[s]).last \in Nat
    BY <1>1, AdvancedRow DEF CounterRow
  <1>3. result \in Results /\ result.row \in AllocationRow
    BY <1>1, <1>2, AllocatedRow
  <1> HIDE DEF result
  <1>4. CASE Violates(s, result.row)
    BY <1>4, TypeRaise DEF Bind, result, SqlStates
  <1>5. CASE ~Violates(s, result.row)
    <2>1. TypeOK'
      <3>1. newBindings' \in [Sessions -> SUBSET AllocationRow]
        <4>1. newBindings' =
                [newBindings EXCEPT ![s] = newBindings[s] \cup {result.row}]
          BY <1>5 DEF Bind, result
        <4>2. QED
          BY <1>3, <4>1 DEF TypeInv, TypeOK
      <3>2. results' \in [Sessions -> SUBSET Results]
        <4>1. results' = [results EXCEPT ![s] = results[s] \cup {result}]
          BY <1>5 DEF Bind, result
        <4>2. QED
          BY <1>3, <4>1 DEF TypeInv, TypeOK
      <3>3. /\ pc' \in [Sessions -> {"idle", "returned"} \cup ReserveSteps
                                      \cup AllocateSteps]
            /\ seen' \in [Sessions -> CounterRow \cup {NoRow}]
        BY <1>5 DEF Bind, result, TypeInv, TypeOK
      <3>4. UNCHANGED <<refs, counters, bindings, newRefs, newCounters, locks,
                        deployed, req, version, sqlstate, acked>>
        BY <1>5 DEF Bind, result, tables
      <3>5. QED
        BY <3>1, <3>2, <3>3, <3>4 DEF TypeInv, TypeOK
    <2>2. StepsTyped'
      BY <1>5
         DEF Bind, result, TypeInv, TypeOK, StepsTyped, ReserveSteps, AllocateSteps
    <2>3. QED
      BY <2>1, <2>2 DEF TypeInv
  <1>6. QED
    BY <1>4, <1>5

LEMMA TypeCommit ==
  ASSUME TypeInv, NEW s \in Sessions, Confirm(s) \/ LoseReply(s)
  PROVE  TypeInv'
  <1>1. \A k \in Keys : CounterOf(s, k) \in CounterRow \cup {NoRow}
    BY ViewTypes DEF TypeInv
  <1>2. Commit(s) /\ UNCHANGED <<deployed, version, seen>>
    BY DEF Confirm, LoseReply, Commit
  <1>3. /\ refs' \subseteq ReferenceRow /\ bindings' \subseteq AllocationRow
        /\ counters' \in [Keys -> CounterRow \cup {NoRow}]
    BY <1>1, <1>2 DEF Commit, TypeInv, TypeOK
  <1>4. /\ req' \in [Sessions -> ReferenceRow \cup AllocationRequest \cup {NoRow}]
        /\ sqlstate' \in [Sessions -> SqlStates]
        /\ acked' \subseteq Results
        /\ \A t \in Sessions \ {s} : req'[t] = req[t]
    BY DEF Confirm, LoseReply, TypeInv, TypeOK, SqlStates
  <1>5. QED
    BY <1>2, <1>3, <1>4
       DEF Commit, Forget, TypeInv, TypeOK, StepsTyped, NoCounters,
           ReserveSteps, AllocateSteps

LEMMA TypeStep == TypeInv /\ [Next]_vars => TypeInv'
  <1> SUFFICES ASSUME TypeInv, [Next]_vars PROVE TypeInv'
    OBVIOUS
  <1> USE DEF TypeInv
  <1>1. ASSUME NEW s \in Sessions, NEW row \in Reservations, CallReserve(s, row)
        PROVE  TypeInv'
    BY <1>1, CallsAssumption
       DEF CallReserve, Ready, TypeOK, StepsTyped, tables, work, ReserveSteps,
           AllocateSteps, SqlStates
  <1>2. ASSUME NEW s \in Sessions, NEW r \in Requests, CallAllocate(s, r)
        PROVE  TypeInv'
    <2>1. r \in AllocationRequest
      BY CallsAssumption
    <2>2. CASE r.width \in ValidWidths
      <3>1. /\ UNCHANGED <<refs, counters, bindings, deployed, newRefs, newCounters,
                          newBindings, locks, results, seen, acked>>
            /\ req' = [req EXCEPT ![s] = r]
            /\ version' = [version EXCEPT ![s] = deployed]
            /\ pc' = [pc EXCEPT ![s] = IF deployed = "003" THEN "replay" ELSE "seed"]
            /\ sqlstate' = [sqlstate EXCEPT ![s] = "00000"]
        BY <1>2, <2>2 DEF CallAllocate, tables, work
      <3>2. /\ req' \in [Sessions -> ReferenceRow \cup AllocationRequest \cup {NoRow}]
            /\ version' \in [Sessions -> Versions]
        BY <2>1, <3>1 DEF TypeOK
      <3>3. pc' \in [Sessions -> {"idle", "returned"} \cup ReserveSteps
                                  \cup AllocateSteps]
        BY <3>1 DEF TypeOK, AllocateSteps
      <3>4. sqlstate' \in [Sessions -> SqlStates]
        BY <3>1 DEF TypeOK, SqlStates
      <3>5. TypeOK'
        BY <3>1, <3>2, <3>3, <3>4 DEF TypeOK
      <3>6. /\ pc'[s] \in {"replay", "seed"} /\ req'[s] = r
            /\ \A t \in Sessions \ {s} : pc'[t] = pc[t] /\ req'[t] = req[t]
        BY <3>1 DEF TypeOK
      <3>7. StepsTyped'
        <4> SUFFICES ASSUME NEW t \in Sessions
                     PROVE  /\ pc'[t] = "idle" =>
                                 /\ newRefs'[t] = {} /\ newCounters'[t] = NoCounters
                                 /\ newBindings'[t] = {}
                                 /\ locks'[t] = {} /\ results'[t] = {}
                            /\ pc'[t] \in ReserveSteps => req'[t] \in ReferenceRow
                            /\ pc'[t] \in AllocateSteps =>
                                 /\ req'[t] \in AllocationRequest
                                 /\ req'[t].width \in ValidWidths
                            /\ pc'[t] \in {"recheck", "advance", "bind"} => seen'[t] # NoRow
                            /\ pc'[t] = "bump" => version'[t] # "003"
          BY DEF StepsTyped, NoCounters
        <4>1. CASE t = s
          BY <2>1, <2>2, <3>6, <4>1 DEF ReserveSteps
        <4>2. CASE t # s
          BY <3>1, <3>6, <4>2 DEF StepsTyped
        <4>3. QED
          BY <4>1, <4>2
      <3>8. QED
        BY <3>5, <3>7
    <2>3. CASE r.width \notin ValidWidths
      <3>1. TypeOK'
        <4>1. Forget(s) /\ UNCHANGED <<refs, counters, bindings, deployed, seen, acked>>
          BY <1>2, <2>3 DEF CallAllocate, tables
        <4>2. /\ newRefs' \in [Sessions -> SUBSET ReferenceRow]
              /\ newBindings' \in [Sessions -> SUBSET AllocationRow]
              /\ locks' \in [Sessions -> SUBSET Keys]
              /\ results' \in [Sessions -> SUBSET Results]
          BY <4>1 DEF Forget, TypeOK
        <4>3. newCounters' \in [Sessions -> [Keys -> CounterRow \cup {NoRow}]]
          BY <4>1 DEF Forget, NoCounters, TypeOK
        <4>4. /\ pc' \in [Sessions -> {"idle", "returned"} \cup ReserveSteps
                                        \cup AllocateSteps]
              /\ req' \in [Sessions -> ReferenceRow \cup AllocationRequest
                                         \cup {NoRow}]
              /\ version' \in [Sessions -> Versions]
              /\ sqlstate' \in [Sessions -> SqlStates]
          BY <1>2, <2>1, <2>3 DEF CallAllocate, TypeOK, SqlStates
        <4>5. QED
          BY <4>1, <4>2, <4>3, <4>4 DEF TypeOK
      <3>2. StepsTyped'
        BY <1>2, <2>1, <2>3
           DEF CallAllocate, Forget, NoCounters, TypeOK, StepsTyped,
               ReserveSteps, AllocateSteps
      <3>3. QED
        BY <3>1, <3>2
    <2>4. QED
      BY <2>2, <2>3
  <1>3. ASSUME NEW s \in Sessions, InsertReference(s) PROVE TypeInv'
    <2>1. req[s] \in ReferenceRow
      BY <1>3 DEF InsertReference, StepsTyped, ReserveSteps
    <2>2. /\ [kind |-> "refused", ref |-> req[s].ref] \in Results
          /\ [kind |-> "won", row |-> req[s]] \in Results
      BY <2>1 DEF Results, ReferenceRow
    <2>3. CASE \E row \in ReferencesOf(s) : row.ref = req[s].ref
      BY <1>3, <2>2, <2>3, TypeReturn DEF InsertReference
    <2>4. CASE ~ \E row \in ReferencesOf(s) : row.ref = req[s].ref
      <3>1. TypeOK'
        <4>1. newRefs' \in [Sessions -> SUBSET ReferenceRow]
          BY <1>3, <2>1, <2>4 DEF InsertReference, TypeOK
        <4>2. results' \in [Sessions -> SUBSET Results]
          <5> DEFINE result == [kind |-> "won", row |-> req[s]]
          <5>1. results' = [results EXCEPT ![s] = results[s] \cup {result}]
            BY <1>3, <2>4 DEF InsertReference
          <5>2. result \in Results
            BY <2>2
          <5> HIDE DEF result
          <5>3. QED
            BY <5>1, <5>2 DEF TypeOK
        <4>3. pc' \in [Sessions -> {"idle", "returned"} \cup ReserveSteps
                                     \cup AllocateSteps]
          BY <1>3, <2>4 DEF InsertReference, TypeOK
        <4>4. UNCHANGED <<refs, counters, bindings, newCounters, newBindings,
                          locks, deployed, req, version, seen, sqlstate, acked>>
          BY <1>3, <2>4 DEF InsertReference, tables
        <4>5. QED
          BY <4>1, <4>2, <4>3, <4>4 DEF TypeOK
      <3>2. StepsTyped'
        BY <1>3, <2>4
           DEF InsertReference, TypeOK, StepsTyped, ReserveSteps, AllocateSteps
      <3>3. QED
        BY <3>1, <3>2
    <2>5. QED
      BY <2>3, <2>4
  <1>4. ASSUME NEW s \in Sessions, NEW step \in {"seed", "advance"}, Goto(s, step),
               pc[s] \in AllocateSteps, step = "advance" => pc[s] = "recheck"
        PROVE  TypeInv'
    BY <1>4 DEF Goto, TypeOK, StepsTyped, tables, work, ReserveSteps, AllocateSteps
  <1>5. ASSUME NEW s \in Sessions, Replay(s) \/ Recheck(s) PROVE TypeInv'
    <2>1. pc[s] \in {"replay", "recheck"} /\ pc[s] \in AllocateSteps
      BY <1>5 DEF Replay, Recheck, AllocateSteps
    <2>2. req[s] \in AllocationRequest /\ req[s].width \in ValidWidths
      BY <2>1 DEF StepsTyped
    <2>3. ASSUME NEW b \in Replays(s) PROVE Allocated(req[s], b.seq) \in Results
      BY <2>2, ViewTypes, AllocatedRow DEF Replays, AllocationRow
    <2>4. CASE Replays(s) = {}
      BY <1>5, <2>1, <2>4, <1>4 DEF Replay, Recheck
    <2>5. ASSUME NEW b \in Replays(s),
                 Return(s, Allocated(req[s], b.seq)) \/ Raise(s, "22023")
          PROVE  TypeInv'
      BY <2>3, <2>5, TypeReturn, TypeRaise DEF SqlStates
    <2>6. QED
      BY <1>5, <2>1, <2>4, <2>5, <1>4 DEF Replay, Recheck
  <1>6. ASSUME NEW s \in Sessions, Seed(s) PROVE TypeInv'
    <2>1. req[s] \in AllocationRequest /\ req[s].width \in ValidWidths
      BY <1>6 DEF Seed, StepsTyped, AllocateSteps
    <2>2. TypeOK'
      <3>1. newCounters' \in [Sessions -> [Keys -> CounterRow \cup {NoRow}]]
        <4> DEFINE row == [prefix |-> req[s].prefix, width |-> req[s].width,
                           last |-> 0]
        <4>1. row \in CounterRow /\ req[s].key \in Keys
          BY <2>1, SeedRow
        <4>2. \/ newCounters' = newCounters
              \/ ReplacesRow(s, req[s].key, row)
          BY <1>6 DEF Seed, ReplacesRow
        <4> HIDE DEF row
        <4>3. QED
          BY <4>1, <4>2, ReplaceRow DEF TypeOK
      <3>2. locks' \in [Sessions -> SUBSET Keys]
        <4>1. \/ UNCHANGED locks
              \/ locks' = [locks EXCEPT ![s] = locks[s] \cup {req[s].key}]
          BY <1>6 DEF Seed
        <4>2. req[s].key \in Keys
          BY <2>1, SeedRow
        <4>3. QED
          BY <4>1, <4>2 DEF TypeOK
      <3>3. pc' \in [Sessions -> {"idle", "returned"} \cup ReserveSteps
                                   \cup AllocateSteps]
        BY <1>6 DEF Seed, TypeOK, AllocateSteps
      <3>4. UNCHANGED <<refs, counters, bindings, newRefs, newBindings, results,
                        deployed, req, version, seen, sqlstate, acked>>
        BY <1>6 DEF Seed, tables
      <3>5. QED
        BY <3>1, <3>2, <3>3, <3>4 DEF TypeOK
    <2>3. StepsTyped'
      BY <1>6, <2>1
         DEF Seed, TypeOK, StepsTyped, ReserveSteps, AllocateSteps
    <2>4. QED
      BY <2>2, <2>3
  <1>7. ASSUME NEW s \in Sessions, Lock(s) PROVE TypeInv'
    <2> DEFINE row == CounterOf(s, req[s].key)
    <2>1. req[s] \in AllocationRequest /\ req[s].width \in ValidWidths
      BY <1>7 DEF Lock, StepsTyped, AllocateSteps
    <2>2. row \in CounterRow \cup {NoRow} /\ req[s].key \in Keys
      BY <2>1, SeedRow, ViewTypes
    <2>3. CASE row = NoRow \/ ~SamePolicy(row, req[s])
      BY <1>7, <2>3, TypeRaise DEF Lock, SqlStates
    <2>4. CASE row # NoRow /\ SamePolicy(row, req[s])
      <3>1. TypeOK'
        <4>1. locks' \in [Sessions -> SUBSET Keys]
          <5>1. locks' = [locks EXCEPT ![s] = locks[s] \cup {req[s].key}]
            BY <1>7, <2>4 DEF Lock
          <5>2. QED
            BY <2>2, <5>1 DEF TypeOK
        <4>2. /\ seen' \in [Sessions -> CounterRow \cup {NoRow}]
              /\ pc' \in [Sessions -> {"idle", "returned"} \cup ReserveSteps
                                        \cup AllocateSteps]
          <5>1. seen' = [seen EXCEPT ![s] = row] /\ pc' = [pc EXCEPT ![s] = "recheck"]
            BY <1>7, <2>4 DEF Lock
          <5>2. QED
            BY <2>2, <5>1 DEF TypeOK, AllocateSteps
        <4>3. UNCHANGED <<refs, counters, bindings, newRefs, newCounters,
                          newBindings, results, deployed, req, version,
                          sqlstate, acked>>
          BY <1>7, <2>4 DEF Lock, tables
        <4>4. QED
          BY <4>1, <4>2, <4>3 DEF TypeOK
      <3>2. StepsTyped'
        BY <1>7, <2>1, <2>4
           DEF Lock, TypeOK, StepsTyped, ReserveSteps, AllocateSteps
      <3>3. QED
        BY <3>1, <3>2
    <2>5. QED
      BY <2>3, <2>4
  <1>8. ASSUME NEW s \in Sessions, Advance(s) PROVE TypeInv'
    <2>1. seen[s] \in CounterRow /\ pc[s] \in AllocateSteps
      BY <1>8 DEF Advance, TypeOK, StepsTyped, AllocateSteps
    <2>2. QED
      BY <1>8, <2>1, TypeRaise, TypeMove DEF Advance, SqlStates
  <1>9. ASSUME NEW s \in Sessions, Bump(s) PROVE TypeInv'
    <2> DEFINE row == CounterOf(s, req[s].key)
    <2>1. pc[s] \in AllocateSteps /\ req[s].key \in Keys
      BY <1>9, SeedRow DEF Bump, StepsTyped, AllocateSteps
    <2>2. row \in CounterRow \cup {NoRow}
      BY <2>1, ViewTypes
    <2>3. QED
      BY <1>9, <2>1, <2>2, TypeRaise, TypeMove DEF Bump, Selects, SqlStates
  <1>10. ASSUME NEW s \in Sessions,
                LoseConnection(s) \/ RollBack(s) \/ AbortDeadlock(s)
         PROVE  TypeInv'
    BY <1>10, TypeRaise DEF LoseConnection, RollBack, AbortDeadlock, SqlStates
  <1>11. ASSUME NEW v \in Versions, Deploy(v) PROVE TypeInv'
    BY <1>11 DEF Deploy, TypeOK, StepsTyped, tables, work
  <1>12. CASE UNCHANGED vars
    BY <1>12 DEF vars, TypeOK, StepsTyped
  <1>13. QED
    BY <1>1, <1>2, <1>3, <1>5, <1>6, <1>7, <1>8, <1>9, <1>10, <1>11, <1>12,
       TypeBind, TypeCommit
       DEF Next, Statement

\* Tables, transactions and locals keep their types through every interleaving
\* of calls, commits, rollbacks, lost connections and redeployments.
THEOREM TypeCorrect == Spec => []TypeOK
  <1>1. TypeInv => TypeOK
    BY DEF TypeInv
  <1>2. QED
    BY <1>1, TypeInit, TypeStep, PTL DEF Spec

-----------------------------------------------------------------------------
(* The numbers of one counter. *)

\* Only the bindings of the counter itself matter.
LEMMA SoundFrame ==
  ASSUME NEW k, NEW row, NEW rows, NEW others,
         \A b \in rows : b.key = k => b \in others,
         \A b \in others : b.key = k => b \in rows,
         SoundCounter(k, row, rows)
  PROVE  SoundCounter(k, row, others)
  BY DEF SoundCounter

\* A counter that has just been inserted has given out nothing.
LEMMA SoundSeed ==
  ASSUME NEW k, NEW rows, SoundCounter(k, NoRow, rows),
         NEW row \in CounterRow, row.last = 0
  PROVE  SoundCounter(k, row, rows)
  <1>1. row # NoRow /\ row.last <= Capacity[row.width]
    BY NoRowAssumption, WidthsAssumption DEF CounterRow
  <1>2. QED
    BY <1>1 DEF SoundCounter

\* Binding the next number to a MID that has none keeps the counter sound.
LEMMA SoundBind ==
  ASSUME NEW k, NEW rows, NEW row \in CounterRow, SoundCounter(k, row, rows),
         \A b \in rows : b.seq \in Nat,
         row.last < Capacity[row.width],
         NEW new, new.key = k, new.seq = row.last + 1, SamePolicy(new, row),
         \A b \in rows : b.key = k => b.mid # new.mid
  PROVE  SoundCounter(k, Advanced(row), rows \cup {new})
  <1> DEFINE next == Advanced(row)
  <1>1. /\ next \in CounterRow /\ next.last = row.last + 1
        /\ next.prefix = row.prefix /\ next.width = row.width
        /\ row # NoRow /\ next # NoRow
    BY AdvancedRow, NoRowAssumption
  <1> HIDE DEF next
  <1>2. row.last \in Nat /\ Capacity[row.width] \in Nat
    BY WidthsAssumption DEF CounterRow
  <1>3. next.last <= Capacity[next.width]
    BY <1>1, <1>2
  <1>4. \A b \in rows \cup {new} :
          b.key = k => b.seq \in 1..next.last /\ SamePolicy(b, next)
    BY <1>1, <1>2 DEF SoundCounter, SamePolicy
  <1>5. \A n \in 1..next.last : \E b \in rows \cup {new} : b.key = k /\ b.seq = n
    BY <1>1, <1>2 DEF SoundCounter
  <1>6. \A b, c \in rows \cup {new} :
          (b.key = k /\ c.key = k /\ (b.seq = c.seq \/ b.mid = c.mid)) => b = c
    BY <1>1, <1>2 DEF SoundCounter
  <1>7. QED
    BY <1>1, <1>3, <1>4, <1>5, <1>6 DEF SoundCounter, next

-----------------------------------------------------------------------------
(* The tables as every transaction sees them. *)

TablesInv ==
  SoundViews /\ SoundPrefixes /\ WritesUnderLock /\ ExclusiveLocks
    /\ OneRowPerReference

\* A session is in no gap between UPDATE and INSERT before or after a step.
NotBinding(s) == pc[s] # "bind" /\ pc'[s] # "bind"

\* A session that is in that gap stays in it.
KeepsGap(s) == pc'[s] = pc[s] /\ req'[s] = req[s] /\ seen'[s] = seen[s]

KeepsGaps == \A s \in Sessions : NotBinding(s) \/ KeepsGap(s)

\* What is bound of a counter changes only with the counter.
LEMMA BoundKeeps ==
  ASSUME NEW s, NEW k, NotBinding(s) \/ KeepsGap(s),
         CounterOf(s, k)' = CounterOf(s, k)
  PROVE  BoundOf(s, k)' = BoundOf(s, k)
  BY DEF BoundOf, NotBinding, KeepsGap

\* Steps that touch no table and no lock.
LEMMA TablesKeep ==
  ASSUME TablesInv, KeepsGaps,
         UNCHANGED <<refs, counters, bindings, newRefs, newCounters,
                     newBindings, locks>>
  PROVE  TablesInv'
  <1>1. \A s \in Sessions :
          /\ BindingsOf(s)' = BindingsOf(s) /\ ReferencesOf(s)' = ReferencesOf(s)
          /\ Inserted(s)' = Inserted(s)
          /\ \A k \in Keys : /\ CounterOf(s, k)' = CounterOf(s, k)
                             /\ BoundOf(s, k)' = BoundOf(s, k)
    <2>1. \A s \in Sessions :
            /\ BindingsOf(s)' = BindingsOf(s) /\ ReferencesOf(s)' = ReferencesOf(s)
            /\ Inserted(s)' = Inserted(s)
            /\ \A k \in Keys : CounterOf(s, k)' = CounterOf(s, k)
      BY DEF BindingsOf, ReferencesOf, Inserted, CounterOf
    <2>2. QED
      BY <2>1, BoundKeeps DEF KeepsGaps
  <1>2. SoundViews'
    BY <1>1 DEF TablesInv, SoundViews
  <1>3. SoundPrefixes'
    BY <1>1 DEF TablesInv, SoundPrefixes
  <1>4. WritesUnderLock'
    BY DEF TablesInv, WritesUnderLock, CounterOf
  <1>5. ExclusiveLocks' /\ OneRowPerReference'
    BY <1>1 DEF TablesInv, ExclusiveLocks, OneRowPerReference
  <1>6. QED
    BY <1>2, <1>3, <1>4, <1>5 DEF TablesInv

\* A transaction that is undone leaves the committed tables, which are sound.
LEMMA TablesForget ==
  ASSUME TypeInv, TablesInv, NEW s \in Sessions, Forget(s), UNCHANGED tables,
         pc'[s] # "bind", \A t \in Sessions \ {s} : KeepsGap(t)
  PROVE  TablesInv'
  <1>1. /\ newRefs'[s] = {} /\ newBindings'[s] = {} /\ locks'[s] = {}
        /\ \A k \in Keys : newCounters'[s][k] = NoRow
    BY DEF Forget, NoCounters, TypeInv, TypeOK
  <1>2. \A t \in Sessions \ {s} :
          /\ newRefs'[t] = newRefs[t] /\ newCounters'[t] = newCounters[t]
          /\ newBindings'[t] = newBindings[t] /\ locks'[t] = locks[t]
    BY DEF Forget, TypeInv, TypeOK
  <1>3. UNCHANGED <<refs, counters, bindings>>
    BY DEF tables
  <1>4. /\ BindingsOf(s)' = bindings /\ ReferencesOf(s)' = refs
        /\ Inserted(s)' = {}
        /\ \A k \in Keys : CounterOf(s, k)' = counters[k] /\ BoundOf(s, k)' = counters[k]
    BY <1>1, <1>3 DEF BindingsOf, ReferencesOf, Inserted, CounterOf, BoundOf
  <1>5. \A t \in Sessions \ {s} :
          /\ BindingsOf(t)' = BindingsOf(t) /\ ReferencesOf(t)' = ReferencesOf(t)
          /\ Inserted(t)' = Inserted(t)
          /\ \A k \in Keys : /\ CounterOf(t, k)' = CounterOf(t, k)
                             /\ BoundOf(t, k)' = BoundOf(t, k)
    <2>1. \A t \in Sessions \ {s} :
            /\ BindingsOf(t)' = BindingsOf(t) /\ ReferencesOf(t)' = ReferencesOf(t)
            /\ Inserted(t)' = Inserted(t)
            /\ \A k \in Keys : CounterOf(t, k)' = CounterOf(t, k)
      BY <1>2, <1>3 DEF BindingsOf, ReferencesOf, Inserted, CounterOf
    <2>2. QED
      BY <2>1, BoundKeeps
  <1>6. SoundViews'
    BY <1>3, <1>4, <1>5 DEF TablesInv, SoundViews
  <1>7. SoundPrefixes'
    BY <1>2, <1>3, <1>4, <1>5 DEF TablesInv, SoundPrefixes
  <1>8. WritesUnderLock'
    <2> SUFFICES ASSUME NEW t \in Sessions
                 PROVE  /\ \A k \in Keys : newCounters'[t][k] # NoRow =>
                             /\ k \in locks'[t]
                             /\ counters'[k] # NoRow =>
                                  /\ SamePolicy(newCounters'[t][k], counters'[k])
                                  /\ counters'[k].last <= newCounters'[t][k].last
                        /\ \A b \in newBindings'[t] : b.key \in locks'[t]
                        /\ \A k \in locks'[t] : CounterOf(t, k)' # NoRow
      BY DEF WritesUnderLock
    <2>1. CASE t = s
      BY <1>1, <2>1
    <2>2. CASE t # s
      BY <1>2, <1>3, <1>5, <2>2 DEF TablesInv, WritesUnderLock, TypeInv, TypeOK
    <2>3. QED
      BY <2>1, <2>2
  <1>9. ExclusiveLocks'
    BY <1>1, <1>2 DEF TablesInv, ExclusiveLocks
  <1>10. OneRowPerReference'
    BY <1>3, <1>4, <1>5 DEF TablesInv, OneRowPerReference, ReferencesOf
  <1>11. QED
    BY <1>6, <1>7, <1>8, <1>9, <1>10 DEF TablesInv

\* A row lock is taken on a visible counter that no other session has locked.
LEMMA TablesLock ==
  ASSUME TypeInv, TablesInv, NEW s \in Sessions, NEW k \in Keys,
         CounterOf(s, k) # NoRow,
         \A t \in Sessions \ {s} : k \notin locks[t],
         locks' = [locks EXCEPT ![s] = @ \cup {k}], KeepsGaps,
         UNCHANGED <<refs, counters, bindings, newRefs, newCounters, newBindings>>
  PROVE  TablesInv'
  <1>1. /\ locks'[s] = locks[s] \cup {k}
        /\ \A t \in Sessions \ {s} : locks'[t] = locks[t]
    BY DEF TypeInv, TypeOK
  <1>2. \A t \in Sessions :
          /\ BindingsOf(t)' = BindingsOf(t) /\ ReferencesOf(t)' = ReferencesOf(t)
          /\ Inserted(t)' = Inserted(t)
          /\ \A l \in Keys : /\ CounterOf(t, l)' = CounterOf(t, l)
                             /\ BoundOf(t, l)' = BoundOf(t, l)
    <2>1. \A t \in Sessions :
            /\ BindingsOf(t)' = BindingsOf(t) /\ ReferencesOf(t)' = ReferencesOf(t)
            /\ Inserted(t)' = Inserted(t)
            /\ \A l \in Keys : CounterOf(t, l)' = CounterOf(t, l)
      BY DEF BindingsOf, ReferencesOf, Inserted, CounterOf
    <2>2. QED
      BY <2>1, BoundKeeps DEF KeepsGaps
  <1>3. SoundViews' /\ SoundPrefixes' /\ OneRowPerReference'
    BY <1>2 DEF TablesInv, SoundViews, SoundPrefixes, OneRowPerReference
  <1>4. WritesUnderLock'
    BY <1>1, <1>2 DEF TablesInv, WritesUnderLock, TypeInv, TypeOK
  <1>5. ExclusiveLocks'
    BY <1>1 DEF TablesInv, ExclusiveLocks
  <1>6. QED
    BY <1>3, <1>4, <1>5 DEF TablesInv

\* A reference is inserted that no transaction has.
LEMMA TablesReserve ==
  ASSUME TypeInv, TablesInv, NEW s \in Sessions, NEW row \in ReferenceRow,
         \A t \in Sessions : \A a \in ReferencesOf(t) : a.ref # row.ref,
         newRefs' = [newRefs EXCEPT ![s] = @ \cup {row}], KeepsGaps,
         UNCHANGED <<refs, counters, bindings, newCounters, newBindings, locks>>
  PROVE  TablesInv'
  <1>1. /\ newRefs'[s] = newRefs[s] \cup {row}
        /\ \A t \in Sessions \ {s} : newRefs'[t] = newRefs[t]
    BY DEF TypeInv, TypeOK
  <1>2. \A t \in Sessions :
          /\ BindingsOf(t)' = BindingsOf(t) /\ Inserted(t)' = Inserted(t)
          /\ \A l \in Keys : /\ CounterOf(t, l)' = CounterOf(t, l)
                             /\ BoundOf(t, l)' = BoundOf(t, l)
    <2>1. \A t \in Sessions :
            /\ BindingsOf(t)' = BindingsOf(t) /\ Inserted(t)' = Inserted(t)
            /\ \A l \in Keys : CounterOf(t, l)' = CounterOf(t, l)
      BY DEF BindingsOf, Inserted, CounterOf
    <2>2. QED
      BY <2>1, BoundKeeps DEF KeepsGaps
  <1>3. SoundViews' /\ SoundPrefixes' /\ WritesUnderLock' /\ ExclusiveLocks'
    BY <1>2
       DEF TablesInv, SoundViews, SoundPrefixes, WritesUnderLock, ExclusiveLocks,
           TypeInv, TypeOK
  <1>4. /\ ReferencesOf(s)' = ReferencesOf(s) \cup {row}
        /\ \A t \in Sessions \ {s} : ReferencesOf(t)' = ReferencesOf(t)
    BY <1>1 DEF ReferencesOf
  <1>5. OneRowPerReference'
    BY <1>4 DEF TablesInv, OneRowPerReference
  <1>6. QED
    BY <1>3, <1>5 DEF TablesInv

\* A counter row is inserted where no transaction has one, under a prefix that
\* no transaction has in that scope.
LEMMA TablesSeed ==
  ASSUME TypeInv, TablesInv, NEW s \in Sessions, NEW k \in Keys,
         NEW row \in CounterRow, row.last = 0,
         CounterOf(s, k) = NoRow,
         \A l \in Keys : CounterOf(s, l) # NoRow =>
           ~(k[2] = l[2] /\ CounterOf(s, l).prefix = row.prefix),
         \A t \in Sessions \ {s} :
           /\ k \notin Inserted(t)
           /\ \A l \in Inserted(t) :
                ~(k[2] = l[2] /\ newCounters[t][l].prefix = row.prefix),
         ReplacesRow(s, k, row),
         locks' = [locks EXCEPT ![s] = @ \cup {k}], NotBinding(s), KeepsGaps,
         UNCHANGED <<refs, counters, bindings, newRefs, newBindings>>
  PROVE  TablesInv'
  <1>1. /\ newCounters'[s][k] = row
        /\ \A l \in Keys : l # k => newCounters'[s][l] = newCounters[s][l]
        /\ \A t \in Sessions : t # s => newCounters'[t] = newCounters[t]
    BY ReplaceRow DEF TypeInv, TypeOK
  <1>2. /\ locks'[s] = locks[s] \cup {k}
        /\ \A t \in Sessions \ {s} : locks'[t] = locks[t]
    BY DEF TypeInv, TypeOK
  <1>3. row # NoRow /\ counters[k] = NoRow /\ newCounters[s][k] = NoRow
    BY NoRowAssumption DEF CounterOf
  <1>4. /\ CounterOf(s, k)' = row /\ Inserted(s)' = Inserted(s) \cup {k}
        /\ \A l \in Keys : l # k => CounterOf(s, l)' = CounterOf(s, l)
        /\ \A t \in Sessions \ {s} :
             /\ Inserted(t)' = Inserted(t)
             /\ \A l \in Keys : CounterOf(t, l)' = CounterOf(t, l)
        /\ \A t \in Sessions : /\ BindingsOf(t)' = BindingsOf(t)
                               /\ ReferencesOf(t)' = ReferencesOf(t)
    BY <1>1, <1>3 DEF CounterOf, Inserted, BindingsOf, ReferencesOf
  <1>5. SoundViews'
    <2>1. /\ BoundOf(s, k) = NoRow /\ BoundOf(s, k)' = row
          /\ \A l \in Keys : l # k => BoundOf(s, l)' = BoundOf(s, l)
      BY <1>4 DEF BoundOf, NotBinding
    <2>2. SoundCounter(k, row, BindingsOf(s))
      BY <2>1, SoundSeed DEF TablesInv, SoundViews
    <2>3. \A t \in Sessions \ {s} : \A l \in Keys : BoundOf(t, l)' = BoundOf(t, l)
      BY <1>4, BoundKeeps DEF KeepsGaps
    <2>4. QED
      BY <1>4, <2>1, <2>2, <2>3 DEF TablesInv, SoundViews
  <1>6. SoundPrefixes'
    <2>1. ASSUME NEW l \in Keys, NEW m \in Keys
          PROVE  OnePrefix(l, CounterOf(s, l)', m, CounterOf(s, m)')
      BY <1>4 DEF TablesInv, SoundPrefixes, OnePrefix
    <2>2. ASSUME NEW l \in Keys, NEW m \in Keys, NEW t \in Sessions \ {s}
          PROVE  OnePrefix(l, CounterOf(t, l)', m, CounterOf(t, m)')
      BY <1>4 DEF TablesInv, SoundPrefixes
    <2>3. ASSUME NEW l \in Keys, NEW m \in Keys, NEW t \in Sessions,
                 NEW u \in Sessions, l \in Inserted(t)', m \in Inserted(u)',
                 l[2] = m[2], newCounters'[t][l].prefix = newCounters'[u][m].prefix
          PROVE  t = u
      <3>1. CASE t # s /\ u # s
        BY <1>1, <1>4, <2>3, <3>1 DEF TablesInv, SoundPrefixes
      <3>2. CASE t = s /\ u # s
        BY <1>1, <1>4, <2>3, <3>2 DEF TablesInv, SoundPrefixes
      <3>3. CASE t # s /\ u = s
        BY <1>1, <1>4, <2>3, <3>3 DEF TablesInv, SoundPrefixes
      <3>4. QED
        BY <3>1, <3>2, <3>3
    <2>4. QED
      BY <1>4, <2>1, <2>2, <2>3 DEF TablesInv, SoundPrefixes
  <1>7. WritesUnderLock'
    BY <1>1, <1>2, <1>3, <1>4 DEF TablesInv, WritesUnderLock, TypeInv, TypeOK
  <1>8. ExclusiveLocks'
    <2>1. \A t \in Sessions \ {s} : k \notin locks[t]
      BY <1>3 DEF TablesInv, WritesUnderLock, CounterOf, Inserted
    <2>2. QED
      BY <1>2, <2>1 DEF TablesInv, ExclusiveLocks
  <1>9. OneRowPerReference'
    BY <1>4 DEF TablesInv, OneRowPerReference
  <1>10. QED
    BY <1>5, <1>6, <1>7, <1>8, <1>9 DEF TablesInv

\* What moving counter k of session s by one amounts to.
Moves(s, k) ==
  /\ s \in Sessions /\ k \in Keys /\ k = req[s].key
  /\ CounterOf(s, k) # NoRow
  /\ \A t \in Sessions \ {s} : k \notin locks[t]
  /\ pc[s] # "bind" /\ pc'[s] = "bind" /\ req'[s] = req[s]
  /\ seen'[s] = CounterOf(s, k)
  /\ \A t \in Sessions \ {s} : KeepsGap(t)
  /\ ReplacesRow(s, k, Advanced(CounterOf(s, k)))
  /\ locks' = [locks EXCEPT ![s] = @ \cup {k}]
  /\ UNCHANGED <<refs, counters, bindings, newRefs, newBindings>>

\* A counter moves to its next number, by a transaction no other shares the
\* counter with; what is bound of it is what was bound before.
LEMMA TablesMove ==
  ASSUME TypeInv, TablesInv, NEW s, NEW k, Moves(s, k)
  PROVE  TablesInv'
  <1> USE DEF Moves
  <1> DEFINE row == CounterOf(s, k)
             next == Advanced(row)
  <1>1. /\ row \in CounterRow /\ next \in CounterRow /\ next # NoRow
        /\ next.prefix = row.prefix /\ next.width = row.width
        /\ next.last = row.last + 1
    BY ViewTypes, AdvancedRow, NoRowAssumption DEF TypeInv
  <1>2. /\ newCounters'[s][k] = next
        /\ \A l \in Keys : l # k => newCounters'[s][l] = newCounters[s][l]
        /\ \A t \in Sessions : t # s => newCounters'[t] = newCounters[t]
    BY <1>1, ReplaceRow DEF TypeInv, TypeOK
  <1>3. /\ locks'[s] = locks[s] \cup {k}
        /\ \A t \in Sessions \ {s} : locks'[t] = locks[t]
    BY DEF TypeInv, TypeOK
  <1>4. newBindings' = newBindings
    OBVIOUS
  <1>5. /\ CounterOf(s, k)' = next
        /\ \A l \in Keys : l # k => CounterOf(s, l)' = CounterOf(s, l)
        /\ BindingsOf(s)' = BindingsOf(s)
        /\ Inserted(s)' = Inserted(s)
    BY <1>1, <1>2 DEF CounterOf, BindingsOf, Inserted
  <1>6. /\ \A t \in Sessions \ {s} :
             /\ BindingsOf(t)' = BindingsOf(t) /\ Inserted(t)' = Inserted(t)
             /\ \A l \in Keys : CounterOf(t, l)' = CounterOf(t, l)
        /\ \A t \in Sessions : ReferencesOf(t)' = ReferencesOf(t)
    BY <1>2 DEF CounterOf, BindingsOf, Inserted, ReferencesOf
  <1>7. SoundViews'
    <2>1. \A l \in Keys : BoundOf(s, l)' = BoundOf(s, l)
      BY <1>5 DEF BoundOf
    <2>2. \A t \in Sessions \ {s} : \A l \in Keys : BoundOf(t, l)' = BoundOf(t, l)
      BY <1>6, BoundKeeps
    <2>3. QED
      BY <1>5, <1>6, <2>1, <2>2 DEF TablesInv, SoundViews
  <1>8. SoundPrefixes'
    <2>1. ASSUME NEW l \in Keys, NEW m \in Keys
          PROVE  OnePrefix(l, CounterOf(s, l)', m, CounterOf(s, m)')
      BY <1>1, <1>5 DEF TablesInv, SoundPrefixes, OnePrefix
    <2>2. ASSUME NEW l \in Inserted(s)
          PROVE  newCounters'[s][l].prefix = newCounters[s][l].prefix
      BY <1>1, <1>2 DEF Inserted, CounterOf
    <2>3. QED
      BY <1>2, <1>5, <1>6, <2>1, <2>2 DEF TablesInv, SoundPrefixes
  <1>9. WritesUnderLock'
    <2>1. counters[k] # NoRow =>
            /\ SamePolicy(next, counters[k])
            /\ counters[k].last <= next.last
      BY <1>1
         DEF CounterOf, TablesInv, WritesUnderLock, SamePolicy, TypeInv, TypeOK,
             CounterRow
    <2>2. ASSUME NEW l \in Keys, newCounters'[s][l] # NoRow
          PROVE  /\ l \in locks'[s]
                 /\ counters[l] # NoRow =>
                      /\ SamePolicy(newCounters'[s][l], counters[l])
                      /\ counters[l].last <= newCounters'[s][l].last
      BY <1>2, <1>3, <2>1, <2>2 DEF TablesInv, WritesUnderLock
    <2>3. /\ \A b \in newBindings'[s] : b.key \in locks'[s]
          /\ \A l \in locks'[s] : CounterOf(s, l)' # NoRow
      BY <1>1, <1>3, <1>4, <1>5 DEF TablesInv, WritesUnderLock, TypeInv, TypeOK
    <2>4. ASSUME NEW t \in Sessions \ {s}
          PROVE  \A l \in locks'[t] : CounterOf(t, l)' # NoRow
      BY <1>3, <1>6 DEF TablesInv, WritesUnderLock, TypeInv, TypeOK
    <2>5. QED
      BY <1>2, <1>3, <1>4, <2>2, <2>3, <2>4 DEF TablesInv, WritesUnderLock
  <1>10. ExclusiveLocks'
    BY <1>3 DEF TablesInv, ExclusiveLocks
  <1>11. OneRowPerReference'
    BY <1>6 DEF TablesInv, OneRowPerReference
  <1>12. QED
    BY <1>7, <1>8, <1>9, <1>10, <1>11 DEF TablesInv

\* What binding the number that counter k of session s has moved to amounts to.
Binds(s, k, new) ==
  /\ s \in Sessions /\ k \in Keys /\ k = req[s].key /\ k \in locks[s]
  /\ pc[s] = "bind" /\ pc'[s] # "bind"
  /\ seen[s] \in CounterRow /\ CounterOf(s, k) = Advanced(seen[s])
  /\ seen[s].last < Capacity[seen[s].width]
  /\ new \in AllocationRow /\ new.key = k /\ new.seq = seen[s].last + 1
  /\ SamePolicy(new, seen[s])
  /\ \A b \in BindingsOf(s) : b.key = k => b.mid # new.mid
  /\ \A t \in Sessions \ {s} : KeepsGap(t)
  /\ newBindings' = [newBindings EXCEPT ![s] = @ \cup {new}]
  /\ UNCHANGED <<refs, counters, bindings, newRefs, newCounters, locks>>

\* The number is bound to a MID that has none in the counter.
LEMMA TablesBind ==
  ASSUME TypeInv, TablesInv, NEW s, NEW k, NEW new, Binds(s, k, new)
  PROVE  TablesInv'
  <1> USE DEF Binds
  <1>1. /\ newBindings'[s] = newBindings[s] \cup {new}
        /\ \A t \in Sessions \ {s} : newBindings'[t] = newBindings[t]
    BY DEF TypeInv, TypeOK
  <1>2. /\ BindingsOf(s)' = BindingsOf(s) \cup {new}
        /\ \A t \in Sessions \ {s} : BindingsOf(t)' = BindingsOf(t)
        /\ \A t \in Sessions :
             /\ ReferencesOf(t)' = ReferencesOf(t) /\ Inserted(t)' = Inserted(t)
             /\ \A l \in Keys : CounterOf(t, l)' = CounterOf(t, l)
    BY <1>1 DEF BindingsOf, ReferencesOf, Inserted, CounterOf
  <1>3. /\ BoundOf(s, k) = seen[s] /\ BoundOf(s, k)' = Advanced(seen[s])
        /\ \A l \in Keys : l # k => BoundOf(s, l)' = BoundOf(s, l)
        /\ \A t \in Sessions \ {s} : \A l \in Keys : BoundOf(t, l)' = BoundOf(t, l)
    <2>1. \A t \in Sessions \ {s} : \A l \in Keys : BoundOf(t, l)' = BoundOf(t, l)
      BY <1>2, BoundKeeps
    <2>2. QED
      BY <1>2, <2>1 DEF BoundOf
  <1>4. SoundViews'
    <2>1. SoundCounter(k, Advanced(seen[s]), BindingsOf(s) \cup {new})
      <3>1. SoundCounter(k, seen[s], BindingsOf(s))
        BY <1>3 DEF TablesInv, SoundViews
      <3>2. \A b \in BindingsOf(s) : b.seq \in Nat
        BY ViewTypes DEF TypeInv, AllocationRow
      <3>3. QED
        BY <3>1, <3>2, SoundBind
    <2>2. ASSUME NEW l \in Keys, l # k
          PROVE  SoundCounter(l, BoundOf(s, l), BindingsOf(s) \cup {new})
      <3>1. SoundCounter(l, BoundOf(s, l), BindingsOf(s))
        BY DEF TablesInv, SoundViews
      <3>2. QED
        BY <2>2, <3>1, SoundFrame
    <2>3. ASSUME NEW l \in Keys
          PROVE  SoundCounter(l, BoundOf(s, l)', BindingsOf(s)')
      BY <1>2, <1>3, <2>1, <2>2
    <2>4. QED
      BY <1>2, <1>3, <2>3 DEF TablesInv, SoundViews
  <1>5. SoundPrefixes' /\ ExclusiveLocks' /\ OneRowPerReference'
    BY <1>2 DEF TablesInv, SoundPrefixes, ExclusiveLocks, OneRowPerReference
  <1>6. WritesUnderLock'
    BY <1>1, <1>2 DEF TablesInv, WritesUnderLock, TypeInv, TypeOK
  <1>7. QED
    BY <1>4, <1>5, <1>6 DEF TablesInv

\* A counter is sound by its own rows alone.
LEMMA SoundSameRows ==
  ASSUME NEW k, NEW row, NEW rows, NEW others, SoundCounter(k, row, rows),
         \A b : b.key = k => (b \in rows <=> b \in others)
  PROVE  SoundCounter(k, row, others)
  BY DEF SoundCounter

\* A counter row a transaction sees is one it inserted, or has the prefix of a
\* committed row.
LEMMA VisiblePrefix ==
  ASSUME WritesUnderLock, NEW s \in Sessions, NEW k \in Keys,
         CounterOf(s, k) # NoRow
  PROVE  \/ k \in Inserted(s) /\ CounterOf(s, k) = newCounters[s][k]
         \/ counters[k] # NoRow /\ CounterOf(s, k).prefix = counters[k].prefix
  BY DEF WritesUnderLock, CounterOf, Inserted, SamePolicy

\* A transaction publishes what it has written: every other transaction sees
\* its counters exactly where it has written none itself.
LEMMA TablesCommit ==
  ASSUME TypeInv, TablesInv, NEW s \in Sessions,
         refs' = refs \cup newRefs[s],
         counters' = [k \in Keys |-> CounterOf(s, k)],
         bindings' = bindings \cup newBindings[s],
         Forget(s), NotBinding(s), \A t \in Sessions \ {s} : KeepsGap(t),
         \A t \in Sessions : pc[t] = "bind" => req[t].key \in locks[t]
  PROVE  TablesInv'
  <1>1. /\ newRefs'[s] = {} /\ newBindings'[s] = {} /\ locks'[s] = {}
        /\ \A k \in Keys : newCounters'[s][k] = NoRow
    BY DEF Forget, NoCounters, TypeInv, TypeOK
  <1>2. \A t \in Sessions \ {s} :
          /\ newRefs'[t] = newRefs[t] /\ newCounters'[t] = newCounters[t]
          /\ newBindings'[t] = newBindings[t] /\ locks'[t] = locks[t]
    BY DEF Forget, TypeInv, TypeOK
  <1>3. /\ BindingsOf(s)' = BindingsOf(s) /\ bindings' = BindingsOf(s)
        /\ ReferencesOf(s)' = ReferencesOf(s) /\ refs' = ReferencesOf(s)
        /\ Inserted(s)' = {}
        /\ \A k \in Keys : /\ CounterOf(s, k)' = CounterOf(s, k)
                           /\ counters'[k] = CounterOf(s, k)
    BY <1>1 DEF BindingsOf, ReferencesOf, Inserted, CounterOf
  <1>4. ASSUME NEW t \in Sessions \ {s}, NEW k \in Keys \ locks[s]
        PROVE  /\ CounterOf(t, k)' = CounterOf(t, k) /\ counters'[k] = counters[k]
               /\ \A b : b.key = k => (b \in BindingsOf(t)' <=> b \in BindingsOf(t))
    <2>1. newCounters[s][k] = NoRow /\ \A b \in newBindings[s] : b.key # k
      BY DEF TablesInv, WritesUnderLock
    <2>2. QED
      BY <1>2, <2>1 DEF CounterOf, BindingsOf
  <1>5. ASSUME NEW t \in Sessions \ {s}, NEW k \in locks[s]
        PROVE  /\ CounterOf(t, k)' = CounterOf(s, k)
               /\ CounterOf(t, k) = counters[k]
               /\ \A b : b.key = k => (b \in BindingsOf(t)' <=> b \in BindingsOf(s))
    <2>1. k \in Keys /\ k \notin locks[t]
      BY DEF TablesInv, ExclusiveLocks, TypeInv, TypeOK
    <2>2. newCounters[t][k] = NoRow /\ \A b \in newBindings[t] : b.key # k
      BY <2>1 DEF TablesInv, WritesUnderLock
    <2>3. QED
      BY <1>2, <1>3, <2>1, <2>2 DEF CounterOf, BindingsOf
  <1>6. SoundViews'
    <2>1. ASSUME NEW t \in Sessions \ {s}, NEW k \in Keys
          PROVE  SoundCounter(k, BoundOf(t, k)', BindingsOf(t)')
      <3>1. SoundCounter(k, BoundOf(t, k), BindingsOf(t))
            /\ SoundCounter(k, CounterOf(s, k), BindingsOf(s))
        BY DEF TablesInv, SoundViews, BoundOf, NotBinding
      <3>2. CASE k \in locks[s]
        <4>1. k \notin locks[t]
          BY <3>2 DEF TablesInv, ExclusiveLocks
        <4>2. BoundOf(t, k)' = CounterOf(t, k)'
          BY <4>1 DEF BoundOf, KeepsGap
        <4>3. QED
          BY <1>5, <3>1, <3>2, <4>2, SoundSameRows
      <3>3. CASE k \notin locks[s]
        <4>1. BoundOf(t, k)' = BoundOf(t, k)
          BY <1>4, <3>3, BoundKeeps
        <4>2. QED
          BY <1>4, <3>1, <3>3, <4>1, SoundSameRows
      <3>4. QED
        BY <3>2, <3>3
    <2>2. \A k \in Keys : BoundOf(s, k) = CounterOf(s, k)
                          /\ BoundOf(s, k)' = CounterOf(s, k)
      BY <1>3 DEF BoundOf, NotBinding
    <2>3. QED
      BY <1>3, <2>1, <2>2 DEF TablesInv, SoundViews
  <1>7. SoundPrefixes'
    <2>1. ASSUME NEW t \in Sessions \ {s}, NEW k \in Keys \ locks[s],
                 NEW l \in locks[s]
          PROVE  OnePrefix(k, CounterOf(t, k), l, CounterOf(s, l))
      <3>1. l \in Keys /\ CounterOf(t, l) = counters[l] /\ k # l
        BY <1>5 DEF TypeInv, TypeOK
      <3>2. CounterOf(s, k) = counters[k]
        BY DEF TablesInv, WritesUnderLock, CounterOf
      <3>3. /\ OnePrefix(k, CounterOf(t, k), l, CounterOf(t, l))
            /\ OnePrefix(k, CounterOf(s, k), l, CounterOf(s, l))
        BY <3>1 DEF TablesInv, SoundPrefixes
      <3>4. CASE k \in Inserted(t) /\ l \in Inserted(s)
        BY <3>1, <3>4 DEF TablesInv, SoundPrefixes, Inserted, CounterOf, OnePrefix
      <3>5. CASE counters[k] # NoRow /\ CounterOf(t, k).prefix = counters[k].prefix
        BY <3>2, <3>3, <3>5 DEF OnePrefix
      <3>6. CASE counters[l] # NoRow /\ CounterOf(s, l).prefix = counters[l].prefix
        BY <3>1, <3>3, <3>6 DEF OnePrefix
      <3>7. QED
        BY <3>1, <3>4, <3>5, <3>6, VisiblePrefix DEF TablesInv, OnePrefix
    <2>2. ASSUME NEW t \in Sessions \ {s}, NEW k \in Keys, NEW l \in Keys
          PROVE  OnePrefix(k, CounterOf(t, k)', l, CounterOf(t, l)')
      <3>1. /\ OnePrefix(k, CounterOf(t, k), l, CounterOf(t, l))
            /\ OnePrefix(k, CounterOf(s, k), l, CounterOf(s, l))
        BY DEF TablesInv, SoundPrefixes
      <3>2. CASE k \in locks[s] <=> l \in locks[s]
        BY <1>4, <1>5, <3>1, <3>2
      <3>3. CASE k \notin locks[s] /\ l \in locks[s]
        BY <1>4, <1>5, <2>1, <3>3
      <3>4. CASE k \in locks[s] /\ l \notin locks[s]
        <4>1. OnePrefix(l, CounterOf(t, l), k, CounterOf(s, k))
          BY <2>1, <3>4
        <4>2. QED
          BY <1>4, <1>5, <3>4, <4>1 DEF OnePrefix
      <3>5. QED
        BY <3>2, <3>3, <3>4
    <2>3. ASSUME NEW t \in Sessions \ {s}
          PROVE  Inserted(t)' \subseteq Inserted(t)
      BY <1>2, <1>3 DEF Inserted, CounterOf
    <2>4. QED
      BY <1>2, <1>3, <2>2, <2>3 DEF TablesInv, SoundPrefixes
  <1>8. WritesUnderLock'
    <2> SUFFICES ASSUME NEW t \in Sessions
                 PROVE  /\ \A k \in Keys : newCounters'[t][k] # NoRow =>
                             /\ k \in locks'[t]
                             /\ counters'[k] # NoRow =>
                                  /\ SamePolicy(newCounters'[t][k], counters'[k])
                                  /\ counters'[k].last <= newCounters'[t][k].last
                        /\ \A b \in newBindings'[t] : b.key \in locks'[t]
                        /\ \A k \in locks'[t] : CounterOf(t, k)' # NoRow
      BY DEF WritesUnderLock
    <2>1. CASE t = s
      BY <1>1, <2>1
    <2>2. CASE t # s
      <3>1. \A k \in locks[t] : k \in Keys \ locks[s]
        BY <2>2 DEF TablesInv, ExclusiveLocks, TypeInv, TypeOK
      <3>2. QED
        BY <1>2, <1>4, <2>2, <3>1 DEF TablesInv, WritesUnderLock
    <2>3. QED
      BY <2>1, <2>2
  <1>9. ExclusiveLocks'
    BY <1>1, <1>2 DEF TablesInv, ExclusiveLocks
  <1>10. OneRowPerReference'
    <2>1. \A t \in Sessions : \A a \in ReferencesOf(t)' :
            a \in ReferencesOf(t) \/ a \in ReferencesOf(s)
      BY <1>2, <1>3 DEF ReferencesOf
    <2>2. refs \subseteq refs'
      OBVIOUS
    <2>3. QED
      BY <1>3, <2>1, <2>2 DEF TablesInv, OneRowPerReference
  <1>11. QED
    BY <1>6, <1>7, <1>8, <1>9, <1>10 DEF TablesInv

-----------------------------------------------------------------------------
(* What a session has read and answered. *)

Stored(a, rows, references) ==
  \/ a.kind = "allocated" /\ a.row \in rows
  \/ a.kind = "won" /\ a.row \in references
  \/ a.kind = "refused" /\ \E row \in references : row.ref = a.ref

SeenOf(s) ==
  /\ pc[s] \in {"recheck", "advance", "bind"} =>
       req[s].key \in locks[s] /\ SamePolicy(seen[s], req[s])
  /\ pc[s] \in {"recheck", "advance"} => seen[s] = CounterOf(s, req[s].key)
  /\ pc[s] = "bind" =>
       /\ newCounters[s][req[s].key] = Advanced(seen[s])
       /\ seen[s].last < Capacity[req[s].width]
  /\ pc[s] = "advance" \/ (pc[s] = "bind" /\ version[s] = "003") => Replays(s) = {}

ResultsOf(s) ==
  \A a \in results[s] : Stored(a, BindingsOf(s), ReferencesOf(s))

ControlInv ==
  /\ \A s \in Sessions : SeenOf(s) /\ ResultsOf(s)
  /\ \A a \in acked : Stored(a, bindings, refs)

LEMMA InvariantParts == IInv <=> TypeInv /\ TablesInv /\ ControlInv
  BY DEF IInv, TypeInv, TablesInv, ControlInv, SeenIsCurrent, SeenOf,
         ResultsAreStored, ResultsOf, AckedIsStored, Stored

\* A step of s leaves the variables of every other session alone.
KeepsOthers(s) ==
  \A t \in Sessions \ {s} :
    /\ pc'[t] = pc[t] /\ req'[t] = req[t] /\ seen'[t] = seen[t]
    /\ version'[t] = version[t]
    /\ locks'[t] = locks[t] /\ results'[t] = results[t]
    /\ newRefs'[t] = newRefs[t] /\ newCounters'[t] = newCounters[t]
    /\ newBindings'[t] = newBindings[t]

Publishes(s) ==
  /\ refs' = refs \cup newRefs[s]
  /\ counters' = [k \in Keys |-> CounterOf(s, k)]
  /\ bindings' = bindings \cup newBindings[s]

\* A session that has locked a counter still sees the row it has read, whatever
\* the others do and commit, and keeps seeing what it has answered.
LEMMA OthersKeep ==
  ASSUME TypeInv, TablesInv, ControlInv, NEW s \in Sessions, KeepsOthers(s),
         UNCHANGED tables \/ Publishes(s)
  PROVE  \A t \in Sessions \ {s} : SeenOf(t)' /\ ResultsOf(t)'
  <1> SUFFICES ASSUME NEW t \in Sessions \ {s} PROVE SeenOf(t)' /\ ResultsOf(t)'
    OBVIOUS
  <1>1. SeenOf(t) /\ ResultsOf(t)
    BY DEF ControlInv
  <1>2. /\ pc'[t] = pc[t] /\ req'[t] = req[t] /\ seen'[t] = seen[t]
        /\ version'[t] = version[t]
        /\ locks'[t] = locks[t] /\ results'[t] = results[t]
        /\ newRefs'[t] = newRefs[t] /\ newCounters'[t] = newCounters[t]
        /\ newBindings'[t] = newBindings[t]
    BY DEF KeepsOthers
  <1>3. ASSUME NEW k \in locks[t]
        PROVE  /\ CounterOf(t, k)' = CounterOf(t, k)
               /\ \A b : b.key = k => (b \in BindingsOf(t)' <=> b \in BindingsOf(t))
    <2>1. CASE UNCHANGED tables
      BY <1>2, <2>1 DEF tables, CounterOf, BindingsOf
    <2>2. CASE Publishes(s)
      <3>1. k \in Keys /\ k \notin locks[s]
        BY DEF TablesInv, ExclusiveLocks, TypeInv, TypeOK
      <3>2. newCounters[s][k] = NoRow /\ \A b \in newBindings[s] : b.key # k
        BY <3>1 DEF TablesInv, WritesUnderLock
      <3>3. QED
        BY <1>2, <2>2, <3>1, <3>2 DEF Publishes, CounterOf, BindingsOf
    <2>3. QED
      BY <2>1, <2>2
  <1>4. SeenOf(t)'
    <2>1. CASE pc[t] \notin {"recheck", "advance", "bind"}
      BY <1>2, <2>1 DEF SeenOf
    <2>2. CASE pc[t] \in {"recheck", "advance", "bind"}
      <3>1. req[t].key \in locks[t]
        BY <1>1, <2>2 DEF SeenOf
      <3>2. Replays(t) = {} => Replays(t)' = {}
        BY <1>2, <1>3, <3>1 DEF Replays
      <3>3. QED
        BY <1>1, <1>2, <1>3, <2>2, <3>1, <3>2 DEF SeenOf
    <2>3. QED
      BY <2>1, <2>2
  <1>5. ResultsOf(t)'
    <2>1. /\ BindingsOf(t) \subseteq BindingsOf(t)'
          /\ ReferencesOf(t) \subseteq ReferencesOf(t)'
      BY <1>2 DEF Publishes, tables, BindingsOf, ReferencesOf
    <2>2. QED
      BY <1>1, <1>2, <2>1 DEF ResultsOf, Stored
  <1>6. QED
    BY <1>4, <1>5

\* A transaction that is undone has read nothing and answered nothing.
LEMMA UndoKeeps ==
  ASSUME TypeInv, TablesInv, ControlInv, NEW s \in Sessions,
         Forget(s), KeepsOthers(s), pc'[s] = "idle", UNCHANGED <<tables, acked>>
  PROVE  TablesInv' /\ ControlInv'
  <1>1. TablesInv'
    BY TablesForget DEF KeepsOthers, KeepsGap
  <1>2. results'[s] = {}
    BY DEF Forget, TypeInv, TypeOK
  <1>3. SeenOf(s)' /\ ResultsOf(s)'
    BY <1>2 DEF SeenOf, ResultsOf
  <1>4. QED
    BY <1>1, <1>3, OthersKeep DEF ControlInv, tables

LEMMA RaiseKeeps ==
  ASSUME TypeInv, TablesInv, ControlInv, NEW s \in Sessions, NEW code,
         Raise(s, code)
  PROVE  TablesInv' /\ ControlInv'
  <1>1. KeepsOthers(s) /\ pc'[s] = "idle"
    BY DEF Raise, Forget, KeepsOthers, TypeInv, TypeOK
  <1>2. QED
    BY <1>1, UndoKeeps DEF Raise

\* Steps of s that write no row and take no lock.
LEMMA ReadKeeps ==
  ASSUME TypeInv, TablesInv, ControlInv, NEW s \in Sessions, KeepsOthers(s),
         NotBinding(s),
         UNCHANGED <<tables, newRefs, newCounters, newBindings, locks, acked>>,
         SeenOf(s)', ResultsOf(s)'
  PROVE  TablesInv' /\ ControlInv'
  <1>1. TablesInv'
    BY TablesKeep DEF tables, KeepsOthers, KeepsGaps, KeepsGap
  <1>2. QED
    BY <1>1, OthersKeep DEF ControlInv, tables

\* A call returns what its transaction sees in the tables.
LEMMA ReturnKeeps ==
  ASSUME TypeInv, TablesInv, ControlInv, NEW s \in Sessions, NEW result,
         Stored(result, BindingsOf(s), ReferencesOf(s)), Return(s, result),
         pc[s] # "bind"
  PROVE  TablesInv' /\ ControlInv'
  <1>1. KeepsOthers(s) /\ pc'[s] = "returned"
    BY DEF Return, KeepsOthers, TypeInv, TypeOK
  <1>2. SeenOf(s)'
    BY <1>1 DEF SeenOf
  <1>3. ResultsOf(s)'
    <2>1. results'[s] = results[s] \cup {result}
      BY DEF Return, TypeInv, TypeOK
    <2>2. BindingsOf(s)' = BindingsOf(s) /\ ReferencesOf(s)' = ReferencesOf(s)
      BY DEF Return, tables, BindingsOf, ReferencesOf
    <2>3. ResultsOf(s)
      BY DEF ControlInv
    <2>4. QED
      BY <2>1, <2>2, <2>3 DEF ResultsOf
  <1>4. QED
    BY <1>1, <1>2, <1>3, ReadKeeps DEF Return, NotBinding

\* A counter is moved by the one session that has it.
LEMMA MoveKeeps ==
  ASSUME TypeInv, TablesInv, ControlInv, NEW s \in Sessions,
         pc[s] \in {"advance", "bump"},
         pc[s] = "advance" \/ version[s] = "003" => Replays(s) = {},
         CounterOf(s, req[s].key) # NoRow,
         SamePolicy(CounterOf(s, req[s].key), req[s]),
         CounterOf(s, req[s].key).last < Capacity[req[s].width],
         \A t \in Sessions \ {s} : req[s].key \notin locks[t],
         Move(s, CounterOf(s, req[s].key))
  PROVE  TablesInv' /\ ControlInv'
  <1> DEFINE k == req[s].key
             row == CounterOf(s, k)
  <1>1. k \in Keys
    BY SeedRow DEF TypeInv, StepsTyped, AllocateSteps
  <1>2. row \in CounterRow
    BY <1>1, ViewTypes DEF TypeInv
  <1>3. /\ ReplacesRow(s, k, Advanced(row))
        /\ locks' = [locks EXCEPT ![s] = @ \cup {k}]
        /\ seen' = [seen EXCEPT ![s] = row]
        /\ pc' = [pc EXCEPT ![s] = "bind"]
        /\ UNCHANGED <<refs, counters, bindings, newRefs, newBindings, results,
                       req, version, acked>>
    BY DEF Move, ReplacesRow, tables
  <1> HIDE DEF row, k
  <1>4. /\ newCounters'[s][k] = Advanced(row)
        /\ \A t \in Sessions : t # s => newCounters'[t] = newCounters[t]
    BY <1>1, <1>2, <1>3, AdvancedRow, ReplaceRow DEF TypeInv, TypeOK
  <1>5. /\ pc'[s] = "bind" /\ seen'[s] = row /\ k \in locks'[s]
        /\ req'[s] = req[s] /\ version'[s] = version[s]
    BY <1>3 DEF TypeInv, TypeOK
  <1>6. KeepsOthers(s)
    BY <1>3, <1>4 DEF KeepsOthers, TypeInv, TypeOK
  <1>7. TablesInv'
    <2>1. Moves(s, k)
      BY <1>1, <1>3, <1>5, <1>6 DEF Moves, KeepsOthers, KeepsGap, k, row
    <2>2. QED
      BY <2>1, TablesMove
  <1>8. SeenOf(s)'
    <2>1. BindingsOf(s)' = BindingsOf(s)
      BY <1>3 DEF BindingsOf
    <2>2. Replays(s)' = Replays(s)
      BY <1>5, <2>1 DEF Replays
    <2>3. QED
      BY <1>4, <1>5, <2>2 DEF SeenOf, k, row
  <1>9. ResultsOf(s)'
    BY <1>3 DEF ControlInv, ResultsOf, BindingsOf, ReferencesOf
  <1>10. QED
    BY <1>3, <1>6, <1>7, <1>8, <1>9, OthersKeep DEF ControlInv, tables

\* The number the counter moved to is bound, or the transaction is undone.
LEMMA BindKeeps ==
  ASSUME TypeInv, TablesInv, ControlInv, NEW s \in Sessions, Bind(s)
  PROVE  TablesInv' /\ ControlInv'
  <1> DEFINE k == req[s].key
             result == Allocated(req[s], Advanced(seen[s]).last)
  <1>1. /\ req[s] \in AllocationRequest /\ req[s].width \in ValidWidths
        /\ k \in Keys /\ pc[s] = "bind" /\ seen[s] \in CounterRow
    BY SeedRow DEF Bind, TypeInv, TypeOK, StepsTyped, AllocateSteps
  <1>2. /\ k \in locks[s] /\ newCounters[s][k] = Advanced(seen[s])
        /\ seen[s].last < Capacity[req[s].width] /\ SamePolicy(seen[s], req[s])
    BY <1>1 DEF ControlInv, SeenOf
  <1>3. /\ Advanced(seen[s]) \in CounterRow /\ Advanced(seen[s]) # NoRow
        /\ Advanced(seen[s]).last = seen[s].last + 1 /\ seen[s].last + 1 \in Nat
    BY <1>1, AdvancedRow, NoRowAssumption DEF CounterRow
  <1>4. /\ result.kind = "allocated" /\ result.row \in AllocationRow
        /\ result.row.key = k /\ result.row.mid = req[s].mid
        /\ result.row.seq = seen[s].last + 1 /\ SamePolicy(result.row, seen[s])
    BY <1>1, <1>2, <1>3, AllocatedRow DEF SamePolicy
  <1>5. CASE Violates(s, result.row)
    BY <1>5, RaiseKeeps DEF Bind
  <1>6. CASE ~Violates(s, result.row)
    <2>1. \A b \in BindingsOf(s) : b.key = k => b.mid # result.row.mid
      BY <1>4, <1>6 DEF Violates
    <2>2. /\ newBindings' = [newBindings EXCEPT ![s] = @ \cup {result.row}]
          /\ results' = [results EXCEPT ![s] = @ \cup {result}]
          /\ pc' = [pc EXCEPT ![s] = "returned"]
          /\ seen' = [seen EXCEPT ![s] = NoRow]
          /\ UNCHANGED <<refs, counters, bindings, newRefs, newCounters, locks,
                         req, version, acked>>
      BY <1>6 DEF Bind, tables
    <2>3. KeepsOthers(s) /\ pc'[s] = "returned"
      BY <2>2 DEF KeepsOthers, TypeInv, TypeOK
    <2> HIDE DEF result
    <2>4. TablesInv'
      <3>1. CounterOf(s, k) = Advanced(seen[s])
        BY <1>2, <1>3 DEF CounterOf
      <3>2. seen[s].last < Capacity[seen[s].width]
        BY <1>2 DEF SamePolicy
      <3>3. \A t \in Sessions \ {s} : KeepsGap(t)
        BY <2>3 DEF KeepsOthers, KeepsGap
      <3>4. Binds(s, k, result.row)
        BY <1>1, <1>2, <1>4, <2>1, <2>2, <2>3, <3>1, <3>2, <3>3 DEF Binds
      <3>5. QED
        BY <3>4, TablesBind
    <2>5. SeenOf(s)'
      BY <2>3 DEF SeenOf
    <2>6. ResultsOf(s)'
      <3>1. /\ results'[s] = results[s] \cup {result}
            /\ newBindings'[s] = newBindings[s] \cup {result.row}
        BY <2>2 DEF TypeInv, TypeOK
      <3>2. /\ BindingsOf(s)' = BindingsOf(s) \cup {result.row}
            /\ ReferencesOf(s)' = ReferencesOf(s)
        BY <2>2, <3>1 DEF BindingsOf, ReferencesOf
      <3>3. ResultsOf(s)
        BY DEF ControlInv
      <3>4. QED
        BY <1>4, <3>1, <3>2, <3>3 DEF ResultsOf, Stored
    <2>7. QED
      BY <2>2, <2>3, <2>4, <2>5, <2>6, OthersKeep DEF ControlInv, tables
  <1>7. QED
    BY <1>5, <1>6

\* What a transaction has answered is in the tables once it commits.
LEMMA CommitKeeps ==
  ASSUME TypeInv, TablesInv, ControlInv, NEW s \in Sessions,
         Confirm(s) \/ LoseReply(s)
  PROVE  TablesInv' /\ ControlInv'
  <1>1. /\ Publishes(s) /\ Forget(s) /\ pc' = [pc EXCEPT ![s] = "idle"]
        /\ pc[s] = "returned" /\ UNCHANGED <<seen, version>>
    BY DEF Confirm, LoseReply, Commit, Publishes
  <1>2. KeepsOthers(s)
    <2>1. \A t \in Sessions \ {s} : req'[t] = req[t]
      BY DEF Confirm, LoseReply, TypeInv, TypeOK
    <2>2. QED
      BY <1>1, <2>1 DEF Forget, KeepsOthers, TypeInv, TypeOK
  <1>3. TablesInv'
    <2>1. \A t \in Sessions : pc[t] = "bind" => req[t].key \in locks[t]
      BY DEF ControlInv, SeenOf
    <2>2. NotBinding(s) /\ \A t \in Sessions \ {s} : KeepsGap(t)
      BY <1>1, <1>2 DEF NotBinding, KeepsOthers, KeepsGap, TypeInv, TypeOK
    <2>3. QED
      BY <1>1, <2>1, <2>2, TablesCommit DEF Publishes
  <1>4. pc'[s] = "idle" /\ results'[s] = {}
    BY <1>1 DEF Forget, TypeInv, TypeOK
  <1>5. SeenOf(s)' /\ ResultsOf(s)'
    BY <1>4 DEF SeenOf, ResultsOf
  <1>6. \A a \in acked' : Stored(a, bindings', refs')
    <2>1. acked' \subseteq acked \cup results[s]
      BY DEF Confirm, LoseReply
    <2>2. bindings' = BindingsOf(s) /\ refs' = ReferencesOf(s)
      BY <1>1 DEF Publishes, BindingsOf, ReferencesOf
    <2>3. \A a \in acked \cup results[s] : Stored(a, BindingsOf(s), ReferencesOf(s))
      BY DEF ControlInv, ResultsOf, Stored, BindingsOf, ReferencesOf
    <2>4. QED
      BY <2>1, <2>2, <2>3
  <1>7. QED
    BY <1>1, <1>2, <1>3, <1>5, <1>6, OthersKeep DEF ControlInv

LEMMA IInvInit == Init => IInv
  <1> SUFFICES ASSUME Init PROVE IInv
    OBVIOUS
  <1>1. TypeInv
    BY TypeInit
  <1>2. /\ refs = {} /\ bindings = {} /\ acked = {}
        /\ \A k \in Keys : counters[k] = NoRow
        /\ \A s \in Sessions :
             /\ newRefs[s] = {} /\ newBindings[s] = {} /\ locks[s] = {}
             /\ results[s] = {} /\ pc[s] = "idle"
             /\ \A k \in Keys : newCounters[s][k] = NoRow
    BY DEF Init, NoCounters
  <1>3. \A s \in Sessions :
          /\ BindingsOf(s) = {} /\ ReferencesOf(s) = {} /\ Inserted(s) = {}
          /\ \A k \in Keys : CounterOf(s, k) = NoRow
    BY <1>2 DEF BindingsOf, ReferencesOf, Inserted, CounterOf
  <1>4. TablesInv
    BY <1>2, <1>3
       DEF TablesInv, SoundViews, SoundCounter, SoundPrefixes, OnePrefix,
           WritesUnderLock, ExclusiveLocks, OneRowPerReference, BoundOf
  <1>5. ControlInv
    BY <1>2 DEF ControlInv, SeenOf, ResultsOf
  <1>6. QED
    BY <1>1, <1>4, <1>5, InvariantParts

LEMMA IInvStep == IInv /\ [Next]_vars => IInv'
  <1> SUFFICES ASSUME IInv, [Next]_vars PROVE TablesInv' /\ ControlInv'
    <2>1. TypeInv' /\ TablesInv' /\ ControlInv' => IInv'
      BY DEF IInv, TypeInv, TablesInv, ControlInv, SeenIsCurrent, SeenOf,
             ResultsAreStored, ResultsOf, AckedIsStored, Stored
    <2>2. QED
      BY <2>1, TypeStep, InvariantParts
  <1>0. TypeInv /\ TablesInv /\ ControlInv
    BY InvariantParts
  <1>1. ASSUME NEW s \in Sessions, NEW row \in Reservations, CallReserve(s, row)
        PROVE  TablesInv' /\ ControlInv'
    <2>1. KeepsOthers(s) /\ pc'[s] = "insert_reference"
      BY <1>0, <1>1 DEF CallReserve, work, KeepsOthers, TypeInv, TypeOK
    <2>2. SeenOf(s)'
      BY <2>1 DEF SeenOf
    <2>3. ResultsOf(s)'
      BY <1>0, <1>1
         DEF ControlInv, ResultsOf, CallReserve, work, tables, BindingsOf, ReferencesOf
    <2>4. QED
      BY <1>0, <1>1, <2>1, <2>2, <2>3, ReadKeeps
         DEF CallReserve, Ready, work, NotBinding
  <1>2. ASSUME NEW s \in Sessions, NEW r \in Requests, CallAllocate(s, r)
        PROVE  TablesInv' /\ ControlInv'
    <2>1. CASE r.width \in ValidWidths
      <3>1. KeepsOthers(s) /\ pc'[s] \in {"replay", "seed"}
        BY <1>0, <1>2, <2>1 DEF CallAllocate, work, KeepsOthers, TypeInv, TypeOK
      <3>2. SeenOf(s)'
        BY <3>1 DEF SeenOf
      <3>3. ResultsOf(s)'
        BY <1>0, <1>2, <2>1
           DEF ControlInv, ResultsOf, CallAllocate, work, tables, BindingsOf,
               ReferencesOf
      <3>4. QED
        BY <1>0, <1>2, <2>1, <3>1, <3>2, <3>3, ReadKeeps
           DEF CallAllocate, Ready, work, NotBinding
    <2>2. CASE r.width \notin ValidWidths
      <3>1. Forget(s) /\ KeepsOthers(s) /\ pc'[s] = "idle"
        BY <1>0, <1>2, <2>2 DEF CallAllocate, Forget, KeepsOthers, TypeInv, TypeOK
      <3>2. QED
        BY <1>0, <1>2, <3>1, UndoKeeps DEF CallAllocate
    <2>3. QED
      BY <2>1, <2>2
  <1>3. ASSUME NEW s \in Sessions, InsertReference(s) PROVE TablesInv' /\ ControlInv'
    <2>1. CASE \E row \in ReferencesOf(s) : row.ref = req[s].ref
      <3>1. Return(s, [kind |-> "refused", ref |-> req[s].ref])
        BY <1>3, <2>1 DEF InsertReference
      <3>2. Stored([kind |-> "refused", ref |-> req[s].ref],
                   BindingsOf(s), ReferencesOf(s))
        BY <2>1 DEF Stored
      <3>3. QED
        BY <1>0, <1>3, <3>1, <3>2, ReturnKeeps DEF InsertReference
    <2>2. CASE ~ \E row \in ReferencesOf(s) : row.ref = req[s].ref
      <3> DEFINE result == [kind |-> "won", row |-> req[s]]
      <3>1. req[s] \in ReferenceRow
        BY <1>0, <1>3 DEF InsertReference, TypeInv, StepsTyped, ReserveSteps
      <3>2. \A t \in Sessions : \A a \in ReferencesOf(t) : a.ref # req[s].ref
        BY <1>3, <2>2
           DEF InsertReference, Blocked, WaitsFor, WaitsToReserve, ReferencesOf
      <3>3. /\ newRefs' = [newRefs EXCEPT ![s] = @ \cup {req[s]}]
            /\ results' = [results EXCEPT ![s] = @ \cup {result}]
            /\ pc' = [pc EXCEPT ![s] = "returned"]
            /\ UNCHANGED <<refs, counters, bindings, newCounters, newBindings,
                           locks, req, version, seen, acked>>
        BY <1>3, <2>2 DEF InsertReference, tables
      <3>4. KeepsOthers(s) /\ SeenOf(s)' /\ NotBinding(s)
        BY <1>0, <1>3, <3>3
           DEF InsertReference, KeepsOthers, SeenOf, NotBinding, TypeInv, TypeOK
      <3>5. TablesInv'
        <4>1. KeepsGaps
          BY <3>4 DEF KeepsGaps, KeepsGap, KeepsOthers
        <4>2. QED
          BY <1>0, <3>1, <3>2, <3>3, <4>1, TablesReserve
      <3>6. ResultsOf(s)'
        <4>1. /\ results'[s] = results[s] \cup {result}
              /\ newRefs'[s] = newRefs[s] \cup {req[s]}
          BY <1>0, <3>3 DEF TypeInv, TypeOK
        <4>2. /\ BindingsOf(s)' = BindingsOf(s)
              /\ ReferencesOf(s)' = ReferencesOf(s) \cup {req[s]}
          BY <3>3, <4>1 DEF BindingsOf, ReferencesOf
        <4>3. ResultsOf(s)
          BY <1>0 DEF ControlInv
        <4>4. QED
          BY <4>1, <4>2, <4>3 DEF ResultsOf, Stored
      <3>7. QED
        BY <1>0, <3>3, <3>4, <3>5, <3>6, OthersKeep DEF ControlInv, tables
    <2>3. QED
      BY <2>1, <2>2
  <1>4. ASSUME NEW s \in Sessions, NEW step, Goto(s, step), SeenOf(s)', NotBinding(s)
        PROVE  TablesInv' /\ ControlInv'
    <2>1. KeepsOthers(s)
      BY <1>0, <1>4 DEF Goto, work, KeepsOthers, TypeInv, TypeOK
    <2>2. ResultsOf(s)'
      BY <1>0, <1>4
         DEF ControlInv, ResultsOf, Goto, work, tables, BindingsOf, ReferencesOf
    <2>3. QED
      BY <1>0, <1>4, <2>1, <2>2, ReadKeeps DEF Goto, work
  <1>5. ASSUME NEW s \in Sessions, NEW b \in Replays(s),
               pc[s] \in AllocateSteps \ {"bind"}, SamePolicy(b, req[s]),
               Return(s, Allocated(req[s], b.seq))
        PROVE  TablesInv' /\ ControlInv'
    <2>1. /\ b \in AllocationRow /\ b \in BindingsOf(s)
          /\ b.key = req[s].key /\ b.mid = req[s].mid
      BY <1>0, ViewTypes DEF Replays, TypeInv
    <2>2. Allocated(req[s], b.seq).kind = "allocated"
          /\ Allocated(req[s], b.seq).row = b
      BY <1>5, <2>1 DEF Allocated, AllocationRow, SamePolicy
    <2>3. QED
      BY <1>0, <1>5, <2>1, <2>2, ReturnKeeps DEF Stored
  <1>6. ASSUME NEW s \in Sessions, Replay(s) PROVE TablesInv' /\ ControlInv'
    <2>1. pc[s] \in AllocateSteps \ {"bind"}
      BY <1>6 DEF Replay, AllocateSteps
    <2>2. CASE Goto(s, "seed")
      <3>1. SeenOf(s)' /\ NotBinding(s)
        BY <1>0, <2>1, <2>2 DEF Goto, SeenOf, NotBinding, TypeInv, TypeOK
      <3>2. QED
        BY <2>2, <3>1, <1>4
    <2>3. QED
      BY <1>0, <1>5, <1>6, <2>1, <2>2, RaiseKeeps DEF Replay
  <1>7. ASSUME NEW s \in Sessions, Seed(s) PROVE TablesInv' /\ ControlInv'
    <2> DEFINE k == req[s].key
               row == [prefix |-> req[s].prefix, width |-> req[s].width, last |-> 0]
    <2>1. /\ req[s] \in AllocationRequest /\ k \in Keys /\ row \in CounterRow
          /\ row.last = 0 /\ row.prefix = req[s].prefix
      BY <1>0, <1>7, SeedRow DEF Seed, AllocateSteps, TypeInv, StepsTyped
    <2>2. /\ pc'[s] \in {"lock", "bump"} /\ NotBinding(s)
          /\ \A t \in Sessions \ {s} : pc'[t] = pc[t]
      BY <1>0, <1>7 DEF Seed, NotBinding, TypeInv, TypeOK
    <2>3. SeenOf(s)'
      BY <2>2 DEF SeenOf
    <2>4. /\ UNCHANGED <<refs, counters, bindings, newRefs, newBindings, results,
                         req, version, seen, acked>>
          /\ UNCHANGED tables
      BY <1>7 DEF Seed, tables
    <2>5. ResultsOf(s)'
      BY <1>0, <2>4 DEF ControlInv, ResultsOf, BindingsOf, ReferencesOf
    <2>6. CASE UNCHANGED <<newCounters, locks>>
      <3>1. KeepsOthers(s)
        BY <2>2, <2>4, <2>6 DEF KeepsOthers
      <3>2. QED
        BY <1>0, <2>2, <2>3, <2>4, <2>5, <2>6, <3>1, ReadKeeps
    <2>7. CASE /\ CounterOf(s, k) = NoRow /\ ~PrefixTaken(s)
               /\ ReplacesRow(s, k, row)
               /\ locks' = [locks EXCEPT ![s] = @ \cup {k}]
      <3>1. \A l \in Keys : CounterOf(s, l) # NoRow =>
              ~(k[2] = l[2] /\ CounterOf(s, l).prefix = row.prefix)
        BY <2>1, <2>7 DEF PrefixTaken, ClashesOnPrefix
      <3>2. \A t \in Sessions \ {s} :
              /\ k \notin Inserted(t)
              /\ \A l \in Inserted(t) :
                   ~(k[2] = l[2] /\ newCounters[t][l].prefix = row.prefix)
        BY <1>7, <2>1, <2>7
           DEF Seed, Blocked, WaitsFor, WaitsToSeed, ClashesOnPrefix
      <3> HIDE DEF row, k
      <3>3. TablesInv'
        <4>1. KeepsGaps
          BY <2>2, <2>4 DEF KeepsGaps, KeepsGap
        <4>2. QED
          BY <1>0, <2>1, <2>2, <2>4, <2>7, <3>1, <3>2, <4>1, TablesSeed
      <3>4. KeepsOthers(s)
        <4>1. \A t \in Sessions : t # s => newCounters'[t] = newCounters[t]
          BY <1>0, <2>1, <2>7, ReplaceRow DEF TypeInv, TypeOK
        <4>2. QED
          BY <1>0, <2>2, <2>4, <2>7, <4>1 DEF KeepsOthers, TypeInv, TypeOK
      <3>5. QED
        BY <1>0, <2>3, <2>4, <2>5, <3>3, <3>4, OthersKeep DEF ControlInv
    <2>8. QED
      BY <1>7, <2>6, <2>7 DEF Seed, ReplacesRow
  <1>8. ASSUME NEW s \in Sessions, Lock(s) PROVE TablesInv' /\ ControlInv'
    <2> DEFINE k == req[s].key
               row == CounterOf(s, k)
    <2>1. k \in Keys
      BY <1>0, <1>8, SeedRow DEF Lock, AllocateSteps, TypeInv, StepsTyped
    <2>2. CASE row = NoRow \/ ~SamePolicy(row, req[s])
      BY <1>0, <1>8, <2>2, RaiseKeeps DEF Lock
    <2>3. CASE row # NoRow /\ SamePolicy(row, req[s])
      <3>1. /\ locks' = [locks EXCEPT ![s] = @ \cup {k}]
            /\ seen' = [seen EXCEPT ![s] = row]
            /\ pc' = [pc EXCEPT ![s] = "recheck"]
            /\ UNCHANGED <<refs, counters, bindings, newRefs, newCounters,
                           newBindings, results, req, version, acked>>
        BY <1>8, <2>3 DEF Lock, tables
      <3>2. \A t \in Sessions \ {s} : k \notin locks[t]
        <4>1. counters[k] # NoRow => \A t \in Sessions \ {s} : k \notin locks[t]
          BY <1>8 DEF Lock, Blocked, WaitsFor, WaitsToLock
        <4>2. counters[k] = NoRow => k \in locks[s]
          BY <1>0, <2>1, <2>3 DEF CounterOf, TablesInv, WritesUnderLock
        <4>3. QED
          BY <1>0, <4>1, <4>2 DEF TablesInv, ExclusiveLocks
      <3>3. KeepsOthers(s) /\ NotBinding(s)
        BY <1>0, <1>8, <3>1 DEF Lock, KeepsOthers, NotBinding, TypeInv, TypeOK
      <3>4. TablesInv'
        <4>1. KeepsGaps
          BY <3>3 DEF KeepsGaps, KeepsGap, KeepsOthers
        <4>2. QED
          BY <1>0, <2>1, <2>3, <3>1, <3>2, <4>1, TablesLock
      <3>5. SeenOf(s)'
        BY <1>0, <2>3, <3>1 DEF SeenOf, CounterOf, TypeInv, TypeOK
      <3>6. ResultsOf(s)'
        BY <1>0, <3>1 DEF ControlInv, ResultsOf, BindingsOf, ReferencesOf
      <3>7. QED
        BY <1>0, <3>1, <3>3, <3>4, <3>5, <3>6, OthersKeep DEF ControlInv, tables
    <2>4. QED
      BY <2>2, <2>3
  <1>9. ASSUME NEW s \in Sessions, Recheck(s) PROVE TablesInv' /\ ControlInv'
    <2>1. pc[s] \in AllocateSteps \ {"bind"} /\ SeenOf(s)
      BY <1>0, <1>9 DEF Recheck, AllocateSteps, ControlInv
    <2>2. CASE Replays(s) = {} /\ Goto(s, "advance")
      <3>1. SeenOf(s)' /\ NotBinding(s)
        BY <1>0, <1>9, <2>1, <2>2
           DEF Recheck, Goto, work, tables, SeenOf, CounterOf, Replays, BindingsOf,
               NotBinding, TypeInv, TypeOK
      <3>2. QED
        BY <2>2, <3>1, <1>4
    <2>3. ASSUME NEW b \in Replays(s) PROVE SamePolicy(b, req[s])
      <3>1. req[s].key \in Keys
        BY <1>0, <2>1, SeedRow DEF TypeInv, StepsTyped
      <3>2. SoundCounter(req[s].key, CounterOf(s, req[s].key), BindingsOf(s))
        BY <1>0, <1>9, <3>1 DEF Recheck, TablesInv, SoundViews, BoundOf
      <3>3. SamePolicy(CounterOf(s, req[s].key), req[s])
        BY <1>9, <2>1 DEF Recheck, SeenOf
      <3>4. QED
        BY <3>2, <3>3 DEF SoundCounter, Replays, SamePolicy
    <2>4. QED
      BY <1>5, <1>9, <2>1, <2>2, <2>3 DEF Recheck
  <1>10. ASSUME NEW s \in Sessions, Advance(s) PROVE TablesInv' /\ ControlInv'
    <2>1. /\ pc[s] \in AllocateSteps /\ pc[s] = "advance"
          /\ SeenOf(s) /\ seen[s] # NoRow
      BY <1>0, <1>10 DEF Advance, AllocateSteps, ControlInv, TypeInv, StepsTyped
    <2>2. /\ req[s].key \in locks[s]
          /\ seen[s] = CounterOf(s, req[s].key)
          /\ SamePolicy(seen[s], req[s]) /\ Replays(s) = {}
      BY <2>1 DEF SeenOf
    <2>3. \A t \in Sessions \ {s} : req[s].key \notin locks[t]
      BY <1>0, <2>2 DEF TablesInv, ExclusiveLocks
    <2>4. CASE seen[s].last >= Capacity[req[s].width]
      BY <1>0, <1>10, <2>4, RaiseKeeps DEF Advance
    <2>5. CASE ~(seen[s].last >= Capacity[req[s].width])
      <3>1. seen[s].last < Capacity[req[s].width]
        <4>1. req[s].width \in ValidWidths /\ seen[s] \in CounterRow
          BY <1>0, <2>1 DEF TypeInv, TypeOK, StepsTyped
        <4>2. QED
          BY <2>5, <4>1, WidthsAssumption DEF CounterRow
      <3>2. QED
        BY <1>0, <1>10, <2>1, <2>2, <2>3, <2>5, <3>1, MoveKeeps DEF Advance
    <2>6. QED
      BY <2>4, <2>5
  <1>11. ASSUME NEW s \in Sessions, Bump(s) PROVE TablesInv' /\ ControlInv'
    <2> DEFINE k == req[s].key
               row == CounterOf(s, k)
    <2>1. pc[s] \in AllocateSteps /\ k \in Keys
      BY <1>0, <1>11, SeedRow DEF Bump, AllocateSteps, TypeInv, StepsTyped
    <2>2. CASE ~Selects(row, req[s])
      BY <1>0, <1>11, <2>2, RaiseKeeps DEF Bump
    <2>3. CASE Selects(row, req[s])
      <3>1. \A t \in Sessions \ {s} : k \notin locks[t]
        <4>1. CASE newCounters[s][k] # NoRow
          BY <1>0, <2>1, <4>1 DEF TablesInv, WritesUnderLock, ExclusiveLocks
        <4>2. CASE newCounters[s][k] = NoRow
          BY <1>11, <2>3, <4>2
             DEF Bump, Blocked, WaitsFor, WaitsToBump, CounterOf
        <4>3. QED
          BY <4>1, <4>2
      <3>2. Move(s, row) /\ pc[s] = "bump" /\ version[s] # "003"
        BY <1>0, <1>11, <2>3 DEF Bump, TypeInv, StepsTyped
      <3>3. QED
        BY <1>0, <2>1, <2>3, <3>1, <3>2, MoveKeeps DEF Selects
    <2>4. QED
      BY <2>2, <2>3
  <1>12. ASSUME NEW s \in Sessions, Statement(s) PROVE TablesInv' /\ ControlInv'
    BY <1>0, <1>3, <1>6, <1>7, <1>8, <1>9, <1>10, <1>11, <1>12, BindKeeps
       DEF Statement
  <1>13. ASSUME NEW s \in Sessions,
                LoseConnection(s) \/ RollBack(s) \/ AbortDeadlock(s)
         PROVE  TablesInv' /\ ControlInv'
    BY <1>0, <1>13, RaiseKeeps DEF LoseConnection, RollBack, AbortDeadlock
  <1>14. ASSUME NEW s \in Sessions, Confirm(s) \/ LoseReply(s)
         PROVE  TablesInv' /\ ControlInv'
    BY <1>0, <1>14, CommitKeeps
  <1>15. CASE (\E v \in Versions : Deploy(v)) \/ UNCHANGED vars
    <2>1. UNCHANGED <<refs, counters, bindings, newRefs, newCounters, newBindings,
                      locks, results, pc, req, version, seen, acked>>
      BY <1>15 DEF Deploy, vars, tables, work
    <2>2. TablesInv'
      BY <1>0, <2>1, TablesKeep DEF KeepsGaps, KeepsGap
    <2>3. ControlInv'
      <3>1. ASSUME NEW s \in Sessions PROVE SeenOf(s)' /\ ResultsOf(s)'
        <4>1. SeenOf(s) /\ ResultsOf(s)
          BY <1>0 DEF ControlInv
        <4>2. SeenOf(s)'
          BY <2>1, <4>1 DEF SeenOf, Replays, CounterOf, BindingsOf
        <4>3. ResultsOf(s)'
          BY <2>1, <4>1 DEF ResultsOf, BindingsOf, ReferencesOf, Stored
        <4>4. QED
          BY <4>2, <4>3
      <3>2. \A a \in acked' : Stored(a, bindings', refs')
        BY <1>0, <2>1 DEF ControlInv
      <3>3. QED
        BY <3>1, <3>2 DEF ControlInv
    <2>4. QED
      BY <2>2, <2>3
  <1>16. QED
    BY <1>1, <1>2, <1>12, <1>13, <1>14, <1>15 DEF Next

\* Every reachable state satisfies the inductive invariant.
THEOREM Invariant == Spec => []IInv
  <1>1. QED
    BY IInvInit, IInvStep, PTL DEF Spec

-----------------------------------------------------------------------------
(* What the tables promise. *)

\* The numbers of every counter are 1..last without gap or repetition, within
\* the width and under the counter's policy, for any number of sessions.
THEOREM GaplessHolds == Spec => []Gapless
  <1>1. IInv => Gapless
    <2> SUFFICES ASSUME IInv, NEW k \in Keys
                 PROVE  LET rows == {b \in bindings : b.key = k} IN
                        /\ counters[k] = NoRow => rows = {}
                        /\ counters[k] # NoRow =>
                             /\ {b.seq : b \in rows} = 1..counters[k].last
                             /\ counters[k].last <= Capacity[counters[k].width]
                             /\ \A b \in rows : SamePolicy(b, counters[k])
      BY DEF Gapless
    <2>1. SoundCounter(k, counters[k], bindings)
      BY DEF IInv, SoundViews
    <2>2. QED
      BY <2>1 DEF SoundCounter
  <1>2. QED
    BY <1>1, Invariant, PTL

\* A formatted reference, and a MID within a counter, identify one binding, for
\* any number of namespaces and scopes that share prefixes.
THEOREM OneMidPerReferenceHolds == Spec => []OneMidPerReference
  <1>1. IInv => OneMidPerReference
    <2> SUFFICES ASSUME IInv, NEW b \in bindings, NEW c \in bindings,
                        \/ b.key = c.key /\ b.mid = c.mid
                        \/ b.prefix = c.prefix /\ b.key[2] = c.key[2] /\ b.seq = c.seq
                 PROVE  b = c
      BY DEF OneMidPerReference
    <2>1. b.key \in Keys /\ c.key \in Keys
      BY DEF IInv, TypeOK, AllocationRow
    <2>2. /\ SoundCounter(b.key, counters[b.key], bindings)
          /\ SoundCounter(c.key, counters[c.key], bindings)
      BY <2>1 DEF IInv, SoundViews
    <2>3. /\ counters[b.key] # NoRow /\ counters[b.key].prefix = b.prefix
          /\ counters[c.key] # NoRow /\ counters[c.key].prefix = c.prefix
      BY <2>2 DEF SoundCounter, SamePolicy
    <2>4. CASE b.key = c.key /\ b.mid = c.mid
      BY <2>2, <2>3, <2>4 DEF SoundCounter
    <2>5. CASE b.prefix = c.prefix /\ b.key[2] = c.key[2] /\ b.seq = c.seq
      <3>1. b.key = c.key
        BY <2>1, <2>3, <2>5 DEF IInv, SoundPrefixes, OnePrefix
      <3>2. QED
        BY <2>2, <2>3, <2>5, <3>1 DEF SoundCounter
    <2>6. QED
      BY <2>4, <2>5
  <1>2. QED
    BY <1>1, Invariant, PTL

\* What a confirmed call has told its caller stays true of the tables.
THEOREM AckedIsStoredHolds == Spec => []AckedIsStored
  <1>1. IInv => AckedIsStored
    BY DEF IInv
  <1>2. QED
    BY <1>1, Invariant, PTL

\* Committed mappings stay, and a counter moves only forward.
Grows ==
  /\ refs \subseteq refs'
  /\ bindings \subseteq bindings'
  /\ \A k \in Keys : counters[k] # NoRow =>
       /\ counters'[k] # NoRow
       /\ SamePolicy(counters'[k], counters[k])
       /\ counters[k].last <= counters'[k].last

LEMMA StepGrows == IInv /\ [Next]_vars => Grows
  <1> SUFFICES ASSUME IInv, [Next]_vars PROVE Grows
    OBVIOUS
  <1>1. ASSUME NEW s \in Sessions, Confirm(s) \/ LoseReply(s) PROVE Grows
    <2>1. /\ refs' = refs \cup newRefs[s] /\ bindings' = bindings \cup newBindings[s]
          /\ \A k \in Keys : counters'[k] = CounterOf(s, k)
      BY <1>1 DEF Confirm, LoseReply, Commit
    <2>2. ASSUME NEW k \in Keys, counters[k] # NoRow
          PROVE  /\ CounterOf(s, k) # NoRow
                 /\ SamePolicy(CounterOf(s, k), counters[k])
                 /\ counters[k].last <= CounterOf(s, k).last
      <3>1. counters[k].last \in Nat
        BY <2>2 DEF IInv, TypeOK, CounterRow
      <3>2. QED
        BY <2>2, <3>1 DEF CounterOf, IInv, WritesUnderLock, SamePolicy
    <2>3. QED
      BY <2>1, <2>2 DEF Grows
  <1>2. CASE UNCHANGED tables
    <2>1. \A k \in Keys : counters[k] # NoRow => counters[k].last \in Nat
      BY DEF IInv, TypeOK, CounterRow
    <2>2. QED
      BY <1>2, <2>1 DEF tables, SamePolicy, Grows
  <1>3. ASSUME NEW s \in Sessions, Statement(s) PROVE UNCHANGED tables
    BY <1>3
       DEF Statement, InsertReference, Replay, Seed, Lock, Recheck, Advance,
           Bump, Bind, Move, Return, Raise, Goto
  <1>4. ASSUME NEW s \in Sessions,
               LoseConnection(s) \/ RollBack(s) \/ AbortDeadlock(s)
        PROVE  UNCHANGED tables
    BY <1>4 DEF LoseConnection, RollBack, AbortDeadlock, Raise
  <1>5. CASE UNCHANGED vars
    BY <1>2, <1>5 DEF vars, tables
  <1>6. QED
    BY <1>1, <1>2, <1>3, <1>4, <1>5 DEF Next, CallReserve, CallAllocate, Deploy

\* No step of any caller, and no crash, deadlock or migration, takes back or
\* changes a committed mapping.
THEOREM StoreOnlyGrowsHolds == Spec => StoreOnlyGrows
  <1>1. IInv /\ [Next]_vars
          => [/\ refs \subseteq refs'
              /\ bindings \subseteq bindings'
              /\ \A k \in Keys : counters[k] # NoRow =>
                   /\ counters'[k] # NoRow
                   /\ SamePolicy(counters'[k], counters[k])
                   /\ counters[k].last <= counters'[k].last]_vars
    BY StepGrows DEF Grows
  <1>2. QED
    BY <1>1, Invariant, PTL DEF Spec, StoreOnlyGrows
=============================================================================
