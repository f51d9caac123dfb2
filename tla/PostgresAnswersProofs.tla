------------------------- MODULE PostgresAnswersProofs -------------------------
(***************************************************************************)
(* What PostgresStorage tells its callers, for every number of sessions,   *)
(* counters, MIDs, references and widths: one caller wins a reference, a   *)
(* refusal is final, and autocommit calls do not deadlock.                 *)
(***************************************************************************)
EXTENDS PostgresStorageProofs, ContractLemmas

-----------------------------------------------------------------------------
(* The inductive invariant. *)

\* A reservation that was won is a row of the open transaction, and of no other.
FreshWins(s) ==
  /\ \A row \in newRefs[s], other \in refs : row.ref # other.ref
  /\ \A a \in results[s] : a.kind = "won" => a.row \in newRefs[s]

\* A call stays in the function body it entered.
VersionFits(s) ==
  /\ pc[s] \in {"replay", "lock", "recheck", "advance"} => version[s] = "003"
  /\ pc[s] = "bump" => version[s] # "003"

\* An autocommit call starts without locks, and until it moves its counter it
\* has written and locked at most the row of that counter, at 0 and under its
\* own policy.
FreshCall(s) ==
  /\ pc[s] \in {"insert_reference", "replay", "seed"} => locks[s] = {}
  /\ pc[s] \in {"lock", "recheck", "advance", "bump", "bind"} =>
       locks[s] \subseteq {req[s].key}
  /\ pc[s] \in ReserveSteps \cup AllocateSteps =>
       newRefs[s] = {} /\ newBindings[s] = {}
  /\ pc[s] \in (ReserveSteps \cup AllocateSteps) \ {"bind"} =>
       \A k \in Keys : newCounters[s][k] # NoRow =>
         newCounters[s][k].last = 0 /\ SamePolicy(newCounters[s][k], req[s])

\* Another counter of the scope has the prefix of this request.
PrefixIsTaken(r) ==
  \E k \in Keys : /\ counters[k] # NoRow /\ k # r.key
                  /\ ClashesOnPrefix(k, r, counters[k])

\* A counter that is missing after the insert could not be inserted.
SeedJustified(s) ==
  (pc[s] = "lock" /\ CounterOf(s, req[s].key) = NoRow) => PrefixIsTaken(req[s])

\* The tables justify a refusal.
Justified(code, r) ==
  /\ code # "23505"
  /\ code = "22003" =>
       /\ r \in AllocationRequest
       /\ counters[r.key] # NoRow
       /\ SamePolicy(counters[r.key], r)
       /\ counters[r.key].last = Capacity[r.width]
       /\ \A b \in bindings : b.key = r.key => b.mid # r.mid
  /\ code = "22023" =>
       /\ r \in AllocationRequest
       /\ \/ r.width \notin ValidWidths
          \/ counters[r.key] # NoRow /\ ~SamePolicy(counters[r.key], r)
          \/ PrefixIsTaken(r)

RefusalJustified(s) ==
  (pc[s] = "idle" /\ version[s] = "003") => Justified(sqlstate[s], req[s])

AnswerInv(s) ==
  /\ FreshWins(s) /\ VersionFits(s)
  /\ s \notin CallerTx => FreshCall(s) /\ SeedJustified(s) /\ RefusalJustified(s)

AnswersInv == \A s \in Sessions : AnswerInv(s)

LEMMA AnswersInit == Init => AnswersInv
  BY DEF Init, AnswersInv, AnswerInv, FreshWins, VersionFits, FreshCall,
         SeedJustified, RefusalJustified, Justified, ReserveSteps, AllocateSteps

-----------------------------------------------------------------------------
(* What the steps of others leave alone. *)

SessionStep(s) ==
  \/ \E row \in Reservations : CallReserve(s, row)
  \/ \E r \in Requests : CallAllocate(s, r)
  \/ Statement(s)
  \/ Confirm(s) \/ LoseReply(s) \/ LoseConnection(s) \/ RollBack(s)
  \/ AbortDeadlock(s)

KeepsCalls(s) ==
  \A t \in Sessions \ {s} : version'[t] = version[t] /\ sqlstate'[t] = sqlstate[t]

LEMMA MoveKeepsOthers ==
  ASSUME TypeInv, NEW s \in Sessions, pc[s] \in AllocateSteps,
         NEW row \in CounterRow, Move(s, row)
  PROVE  KeepsOthers(s) /\ KeepsCalls(s) /\ UNCHANGED tables
  <1>1. req[s].key \in Keys /\ Advanced(row) \in CounterRow
    BY SeedRow, AdvancedRow DEF TypeInv, StepsTyped
  <1>2. ReplacesRow(s, req[s].key, Advanced(row))
    BY DEF Move, ReplacesRow
  <1>3. \A t \in Sessions : t # s => newCounters'[t] = newCounters[t]
    BY <1>1, <1>2, ReplaceRow DEF TypeInv, TypeOK
  <1>4. QED
    BY <1>3 DEF Move, KeepsOthers, KeepsCalls, TypeInv, TypeOK

LEMMA BindKeepsOthers ==
  ASSUME TypeInv, NEW s \in Sessions, Bind(s)
  PROVE  KeepsOthers(s) /\ KeepsCalls(s) /\ UNCHANGED tables
  BY DEF Bind, Raise, Forget, tables, KeepsOthers, KeepsCalls, TypeInv, TypeOK

LEMMA StepKeepsOthers ==
  ASSUME IInv, NEW s \in Sessions, SessionStep(s)
  PROVE  /\ KeepsOthers(s) /\ KeepsCalls(s)
         /\ UNCHANGED tables \/ Publishes(s)
  <1>0. TypeInv
    BY InvariantParts
  <1>1. CASE \E row \in Reservations : CallReserve(s, row)
    BY <1>0, <1>1 DEF CallReserve, work, KeepsOthers, KeepsCalls, TypeInv, TypeOK
  <1>2. CASE \E r \in Requests : CallAllocate(s, r)
    BY <1>0, <1>2
       DEF CallAllocate, Forget, work, KeepsOthers, KeepsCalls, TypeInv, TypeOK
  <1>3. CASE InsertReference(s)
    BY <1>0, <1>3
       DEF InsertReference, Return, tables, KeepsOthers, KeepsCalls, TypeInv, TypeOK
  <1>4. CASE Replay(s)
    BY <1>0, <1>4
       DEF Replay, Goto, Return, Raise, Forget, work, KeepsOthers, KeepsCalls,
           TypeInv, TypeOK
  <1>5. CASE Seed(s)
    <2>1. req[s].key \in Keys
          /\ [prefix |-> req[s].prefix, width |-> req[s].width, last |-> 0] \in CounterRow
      BY <1>0, <1>5, SeedRow DEF Seed, TypeInv, StepsTyped, AllocateSteps
    <2>2. \A t \in Sessions : t # s => newCounters'[t] = newCounters[t]
      BY <1>0, <1>5, <2>1, ReplaceRow DEF Seed, ReplacesRow, TypeInv, TypeOK
    <2>3. QED
      BY <1>0, <1>5, <2>2 DEF Seed, KeepsOthers, KeepsCalls, TypeInv, TypeOK
  <1>6. CASE Lock(s)
    BY <1>0, <1>6
       DEF Lock, Raise, Forget, tables, KeepsOthers, KeepsCalls, TypeInv, TypeOK
  <1>7. CASE Recheck(s)
    BY <1>0, <1>7
       DEF Recheck, Goto, Return, work, KeepsOthers, KeepsCalls, TypeInv, TypeOK
  <1>8. CASE Advance(s)
    <2>1. CASE Raise(s, "22003")
      BY <1>0, <2>1 DEF Raise, Forget, KeepsOthers, KeepsCalls, TypeInv, TypeOK
    <2>2. CASE Move(s, seen[s])
      <3>1. seen[s] \in CounterRow
        BY <1>0, <1>8 DEF Advance, TypeInv, TypeOK, StepsTyped
      <3>2. QED
        BY <1>0, <1>8, <2>2, <3>1, MoveKeepsOthers DEF Advance, AllocateSteps
    <2>3. QED
      BY <1>8, <2>1, <2>2 DEF Advance
  <1>9. CASE Bump(s)
    <2>1. CASE Raise(s, "22003")
      BY <1>0, <2>1 DEF Raise, Forget, KeepsOthers, KeepsCalls, TypeInv, TypeOK
    <2>2. CASE Selects(CounterOf(s, req[s].key), req[s])
               /\ Move(s, CounterOf(s, req[s].key))
      <3>1. pc[s] \in AllocateSteps /\ req[s].key \in Keys
        BY <1>0, <1>9, SeedRow DEF Bump, TypeInv, StepsTyped, AllocateSteps
      <3>2. CounterOf(s, req[s].key) \in CounterRow
        BY <1>0, <2>2, <3>1, ViewTypes DEF TypeInv, Selects
      <3>3. QED
        BY <1>0, <2>2, <3>1, <3>2, MoveKeepsOthers
    <2>3. QED
      BY <1>9, <2>1, <2>2 DEF Bump
  <1>10. CASE Confirm(s) \/ LoseReply(s)
    BY <1>0, <1>10
       DEF Confirm, LoseReply, Commit, Forget, Publishes, KeepsOthers, KeepsCalls,
           TypeInv, TypeOK
  <1>11. CASE LoseConnection(s) \/ RollBack(s) \/ AbortDeadlock(s)
    BY <1>0, <1>11
       DEF LoseConnection, RollBack, AbortDeadlock, Raise, Forget, KeepsOthers,
           KeepsCalls, TypeInv, TypeOK
  <1>12. QED
    BY <1>0, <1>1, <1>2, <1>3, <1>4, <1>5, <1>6, <1>7, <1>8, <1>9, <1>10, <1>11,
       BindKeepsOthers
       DEF SessionStep, Statement

\* A prefix that is taken stays taken.
LEMMA PrefixStaysTaken ==
  ASSUME Grows, NEW r, PrefixIsTaken(r)
  PROVE  PrefixIsTaken(r)'
  <1>1. PICK k \in Keys : /\ counters[k] # NoRow /\ k # r.key
                          /\ ClashesOnPrefix(k, r, counters[k])
    BY DEF PrefixIsTaken
  <1>2. counters'[k] # NoRow /\ counters'[k].prefix = counters[k].prefix
    BY <1>1 DEF Grows, SamePolicy
  <1>3. QED
    BY <1>1, <1>2 DEF PrefixIsTaken, ClashesOnPrefix

\* A full counter stays full, and its numbers stay where they are.
LEMMA StaysJustified ==
  ASSUME IInv, IInv', Grows, NEW code, NEW r, Justified(code, r)
  PROVE  Justified(code, r)'
  <1>1. ASSUME code = "22003"
        PROVE  /\ counters'[r.key] # NoRow
               /\ SamePolicy(counters'[r.key], r)
               /\ counters'[r.key].last = Capacity[r.width]
               /\ \A b \in bindings' : b.key = r.key => b.mid # r.mid
    <2> DEFINE row == counters[r.key]
               new == counters'[r.key]
    <2>1. /\ r \in AllocationRequest /\ r.key \in Keys /\ row # NoRow
          /\ SamePolicy(row, r) /\ row.last = Capacity[r.width]
          /\ \A b \in bindings : b.key = r.key => b.mid # r.mid
      BY <1>1 DEF Justified, AllocationRequest
    <2>2. new # NoRow /\ SamePolicy(new, row) /\ row.last <= new.last
      BY <2>1 DEF Grows
    <2>3. SoundCounter(r.key, row, bindings) /\ SoundCounter(r.key, new, bindings')
      BY <2>1 DEF IInv, SoundViews
    <2>4. row \in CounterRow /\ new \in CounterRow
      BY <2>1, <2>2 DEF IInv, TypeOK
    <2>5. row.last \in Nat /\ new.last \in Nat
      BY <2>4 DEF CounterRow
    <2>6. new.last = row.last /\ SamePolicy(new, r)
      BY <2>1, <2>2, <2>3, <2>5 DEF SoundCounter, SamePolicy
    <2>7. ASSUME NEW b \in bindings', b.key = r.key PROVE b.mid # r.mid
      <3>1. b.seq \in 1..row.last
        BY <2>2, <2>3, <2>6, <2>7 DEF SoundCounter
      <3>2. PICK c \in bindings : c.key = r.key /\ c.seq = b.seq
        BY <2>1, <2>3, <3>1 DEF SoundCounter
      <3>3. c \in bindings'
        BY DEF Grows
      <3>4. b = c
        BY <2>2, <2>3, <2>7, <3>2, <3>3 DEF SoundCounter
      <3>5. QED
        BY <2>1, <3>2, <3>4
    <2>8. QED
      BY <2>1, <2>2, <2>6, <2>7
  <1>2. ASSUME code = "22023"
        PROVE  \/ r.width \notin ValidWidths
               \/ counters'[r.key] # NoRow /\ ~SamePolicy(counters'[r.key], r)
               \/ PrefixIsTaken(r)'
    <2>1. r.key \in Keys
      BY <1>2 DEF Justified, AllocationRequest
    <2>2. QED
      BY <1>2, <2>1, PrefixStaysTaken DEF Justified, Grows, SamePolicy
  <1>3. QED
    BY <1>1, <1>2 DEF Justified

\* The steps of s, whatever they commit, keep the invariant of the others.
LEMMA OthersAnswers ==
  ASSUME IInv, IInv', AnswersInv, Grows, NEW s \in Sessions,
         KeepsOthers(s), KeepsCalls(s), UNCHANGED tables \/ Publishes(s)
  PROVE  \A t \in Sessions \ {s} : AnswerInv(t)'
  <1> SUFFICES ASSUME NEW t \in Sessions \ {s} PROVE AnswerInv(t)'
    OBVIOUS
  <1>1. AnswerInv(t)
    BY DEF AnswersInv
  <1>2. /\ pc'[t] = pc[t] /\ req'[t] = req[t]
        /\ locks'[t] = locks[t] /\ results'[t] = results[t]
        /\ newRefs'[t] = newRefs[t] /\ newCounters'[t] = newCounters[t]
        /\ newBindings'[t] = newBindings[t]
        /\ version'[t] = version[t] /\ sqlstate'[t] = sqlstate[t]
    BY DEF KeepsOthers, KeepsCalls
  <1>3. FreshWins(t)'
    <2>1. ASSUME NEW row \in newRefs[t], NEW other \in refs' PROVE row.ref # other.ref
      <3>1. row \in ReferencesOf(t) /\ row \notin refs
        BY <1>1 DEF ReferencesOf, AnswerInv, FreshWins
      <3>2. CASE other \in refs
        BY <1>1, <3>2 DEF AnswerInv, FreshWins
      <3>3. CASE other \in newRefs[s]
        <4>1. other \in ReferencesOf(s)
          BY <3>3 DEF ReferencesOf
        <4>2. OneRowPerReference
          BY DEF IInv
        <4>3. QED
          BY <3>1, <4>1, <4>2 DEF OneRowPerReference
      <3>4. QED
        BY <3>2, <3>3 DEF Publishes, tables
    <2>2. QED
      BY <1>1, <1>2, <2>1 DEF AnswerInv, FreshWins
  <1>4. VersionFits(t)'
    BY <1>1, <1>2 DEF AnswerInv, VersionFits
  <1>5. ASSUME t \notin CallerTx
        PROVE  FreshCall(t)' /\ SeedJustified(t)' /\ RefusalJustified(t)'
    <2>1. FreshCall(t)'
      BY <1>1, <1>2, <1>5 DEF AnswerInv, FreshCall
    <2>2. SeedJustified(t)'
      <3> SUFFICES ASSUME pc[t] = "lock", CounterOf(t, req[t].key)' = NoRow
                   PROVE  PrefixIsTaken(req[t])'
        BY <1>2 DEF SeedJustified, PrefixIsTaken, ClashesOnPrefix
      <3>1. req[t].key \in Keys
        BY SeedRow DEF IInv, StepsTyped, AllocateSteps
      <3>2. CounterOf(t, req[t].key) = NoRow
        BY <1>2, <3>1 DEF CounterOf, Grows
      <3>3. PrefixIsTaken(req[t])
        BY <1>1, <1>5, <3>2 DEF AnswerInv, SeedJustified
      <3>4. PICK k \in Keys : /\ counters[k] # NoRow /\ k # req[t].key
                              /\ ClashesOnPrefix(k, req[t], counters[k])
        BY <3>3 DEF PrefixIsTaken
      <3>5. counters'[k] # NoRow /\ counters'[k].prefix = counters[k].prefix
        BY <3>4 DEF Grows, SamePolicy
      <3>6. QED
        BY <1>2, <3>4, <3>5 DEF PrefixIsTaken, ClashesOnPrefix
    <2>3. RefusalJustified(t)'
      <3> SUFFICES ASSUME pc[t] = "idle", version[t] = "003"
                   PROVE  Justified(sqlstate[t], req[t])'
        BY <1>2 DEF RefusalJustified, Justified, PrefixIsTaken, ClashesOnPrefix
      <3>1. PICK code, r : code = sqlstate[t] /\ r = req[t]
        OBVIOUS
      <3>2. Justified(code, r)
        BY <1>1, <1>5, <3>1 DEF AnswerInv, RefusalJustified
      <3>3. Justified(code, r)'
        BY <3>2, StaysJustified
      <3>4. QED
        BY <1>2, <3>1, <3>3 DEF Justified, PrefixIsTaken, ClashesOnPrefix
    <2>4. QED
      BY <2>1, <2>2, <2>3
  <1>6. QED
    BY <1>3, <1>4, <1>5 DEF AnswerInv

-----------------------------------------------------------------------------
(* The step of the session itself. *)

\* A transaction that is undone has won nothing; its error is the refusal.
LEMMA RaiseAnswers ==
  ASSUME IInv, AnswersInv, NEW s \in Sessions, NEW code, Raise(s, code),
         (s \notin CallerTx /\ version[s] = "003") => Justified(code, req[s])
  PROVE  AnswerInv(s)'
  <1>1. /\ pc'[s] = "idle" /\ sqlstate'[s] = code /\ newRefs'[s] = {}
        /\ results'[s] = {} /\ req' = req /\ version' = version
        /\ counters' = counters /\ bindings' = bindings
    BY DEF Raise, Forget, tables, IInv, TypeOK
  <1>2. FreshWins(s)' /\ VersionFits(s)' /\ FreshCall(s)' /\ SeedJustified(s)'
    BY <1>1 DEF FreshWins, VersionFits, FreshCall, SeedJustified, ReserveSteps,
                AllocateSteps
  <1>3. s \notin CallerTx => RefusalJustified(s)'
    BY <1>1 DEF RefusalJustified, Justified, PrefixIsTaken, ClashesOnPrefix
  <1>4. QED
    BY <1>2, <1>3 DEF AnswerInv

\* A session that returns has nothing more to keep than what it has won.
LEMMA ReturnedAnswers ==
  ASSUME IInv, AnswersInv, NEW s \in Sessions, pc'[s] = "returned", FreshWins(s)'
  PROVE  AnswerInv(s)'
  BY DEF AnswerInv, VersionFits, FreshCall, SeedJustified, RefusalJustified,
         ReserveSteps, AllocateSteps

LEMMA ReturnAnswers ==
  ASSUME IInv, AnswersInv, NEW s \in Sessions, NEW result,
         result.kind # "won", Return(s, result)
  PROVE  AnswerInv(s)'
  <1>1. /\ pc'[s] = "returned" /\ results'[s] = results[s] \cup {result}
        /\ newRefs' = newRefs /\ refs' = refs
    BY DEF Return, tables, IInv, TypeOK
  <1>2. FreshWins(s)'
    BY <1>1 DEF FreshWins, AnswersInv, AnswerInv
  <1>3. QED
    BY <1>1, <1>2, ReturnedAnswers

\* The number a counter has moved to, for a MID that has none in it, breaks no
\* constraint.
LEMMA NoViolation ==
  ASSUME IInv, NEW s \in Sessions, pc[s] = "bind", Replays(s) = {}
  PROVE  ~Violates(s, Allocated(req[s], Advanced(seen[s]).last).row)
  <1> DEFINE k == req[s].key
             new == Allocated(req[s], Advanced(seen[s]).last).row
  <1>1. /\ k \in Keys /\ seen[s] \in CounterRow /\ seen[s] # NoRow
        /\ SamePolicy(seen[s], req[s]) /\ newCounters[s][k] = Advanced(seen[s])
    BY SeedRow DEF IInv, StepsTyped, SeenIsCurrent, TypeOK, AllocateSteps
  <1>2. /\ Advanced(seen[s]) \in CounterRow /\ Advanced(seen[s]) # NoRow
        /\ Advanced(seen[s]).prefix = seen[s].prefix
        /\ Advanced(seen[s]).last = seen[s].last + 1 /\ seen[s].last \in Nat
    BY <1>1, AdvancedRow, NoRowAssumption DEF CounterRow
  <1>3. /\ new.key = k /\ new.mid = req[s].mid
        /\ new.prefix = seen[s].prefix /\ new.seq = seen[s].last + 1
    BY <1>1, <1>2 DEF Allocated, SamePolicy
  <1> HIDE DEF new
  <1>4. CounterOf(s, k) = Advanced(seen[s]) /\ BoundOf(s, k) = seen[s]
    BY <1>1, <1>2 DEF CounterOf, BoundOf
  <1>5. \A b \in BindingsOf(s) : b.key = k => b.seq # new.seq /\ b.mid # new.mid
    <2>1. SoundCounter(k, seen[s], BindingsOf(s))
      BY <1>1, <1>4 DEF IInv, SoundViews
    <2>2. QED
      BY <1>1, <1>2, <1>3, <2>1 DEF SoundCounter, Replays
  <1>6. ASSUME NEW b \in BindingsOf(s), b.prefix = new.prefix, b.key[2] = k[2]
        PROVE  b.key = k
    <2>1. b.key \in Keys
      BY ViewTypes DEF IInv, AllocationRow
    <2>2. SoundCounter(b.key, BoundOf(s, b.key), BindingsOf(s))
      BY <2>1 DEF IInv, SoundViews
    <2>3. BoundOf(s, b.key) # NoRow /\ BoundOf(s, b.key).prefix = b.prefix
      BY <2>2 DEF SoundCounter, SamePolicy
    <2>4. b.key # k =>
            CounterOf(s, b.key) # NoRow /\ CounterOf(s, b.key).prefix = b.prefix
      BY <2>3 DEF BoundOf
    <2>5. OnePrefix(b.key, CounterOf(s, b.key), k, CounterOf(s, k))
      BY <1>1, <2>1 DEF IInv, SoundPrefixes
    <2>6. QED
      BY <1>2, <1>3, <1>4, <1>6, <2>4, <2>5 DEF OnePrefix
  <1>7. ~Violates(s, new)
    BY <1>3, <1>5, <1>6 DEF Violates
  <1>8. QED
    BY <1>7 DEF new

\* A call that moves its counter keeps what it has won.
LEMMA MoveAnswers ==
  ASSUME IInv, AnswersInv, NEW s \in Sessions, pc[s] \in {"advance", "bump"},
         NEW row \in CounterRow, Move(s, row)
  PROVE  AnswerInv(s)'
  <1>1. /\ pc'[s] = "bind" /\ locks'[s] = locks[s] \cup {req[s].key}
        /\ UNCHANGED <<refs, newRefs, newBindings, results, req, version>>
    BY DEF Move, tables, IInv, TypeOK
  <1>2. FreshWins(s)' /\ VersionFits(s)'
    BY <1>1 DEF FreshWins, VersionFits, AnswersInv, AnswerInv
  <1>3. s \notin CallerTx => FreshCall(s)'
    <2>1. s \notin CallerTx =>
            /\ locks[s] \subseteq {req[s].key}
            /\ newRefs[s] = {} /\ newBindings[s] = {}
      BY DEF AnswersInv, AnswerInv, FreshCall, AllocateSteps
    <2>2. QED
      BY <1>1, <2>1 DEF FreshCall
  <1>4. QED
    BY <1>1, <1>2, <1>3 DEF AnswerInv, SeedJustified, RefusalJustified

\* A call binds a number, or hits a constraint, which is the 001 body's way out.
LEMMA BindAnswers ==
  ASSUME IInv, AnswersInv, NEW s \in Sessions, Bind(s)
  PROVE  AnswerInv(s)'
  <1> DEFINE result == Allocated(req[s], Advanced(seen[s]).last)
  <1>1. version[s] = "003" => ~Violates(s, result.row)
    <2>1. pc[s] = "bind" /\ (version[s] = "003" => Replays(s) = {})
      BY DEF Bind, IInv, SeenIsCurrent
    <2>2. QED
      BY <2>1, NoViolation
  <1>2. CASE Violates(s, result.row)
    BY <1>1, <1>2, RaiseAnswers DEF Bind
  <1>3. CASE ~Violates(s, result.row)
    <2>1. result.kind # "won"
      BY DEF Allocated
    <2> HIDE DEF result
    <2>2. /\ pc'[s] = "returned" /\ results'[s] = results[s] \cup {result}
          /\ newRefs' = newRefs /\ refs' = refs
      BY <1>3 DEF Bind, result, tables, IInv, TypeOK
    <2>3. FreshWins(s)'
      BY <2>1, <2>2 DEF FreshWins, AnswersInv, AnswerInv
    <2>4. QED
      BY <2>2, <2>3, ReturnedAnswers
  <1>4. QED
    BY <1>2, <1>3

\* What an autocommit call sees before it moves its counter is what is committed, but for a
\* row of its own counter, at 0.
LEMMA SeesCommitted ==
  ASSUME NEW s \in Sessions, FreshCall(s), pc[s] \in AllocateSteps \ {"bind"}
  PROVE  /\ BindingsOf(s) = bindings
         /\ \A k \in Keys : CounterOf(s, k) # NoRow =>
              \/ CounterOf(s, k) = counters[k]
              \/ CounterOf(s, k).last = 0 /\ SamePolicy(CounterOf(s, k), req[s])
  BY DEF FreshCall, BindingsOf, CounterOf

LEMMA CallAnswers ==
  ASSUME IInv, AnswersInv, NEW s \in Sessions,
         \/ \E row \in Reservations : CallReserve(s, row)
         \/ \E r \in Requests : CallAllocate(s, r)
  PROVE  AnswerInv(s)'
  <1>1. ASSUME UNCHANGED <<tables, work>>, Ready(s),
               \/ pc'[s] = "insert_reference"
               \/ pc'[s] = IF version'[s] = "003" THEN "replay" ELSE "seed"
        PROVE  AnswerInv(s)'
    <2>1. FreshWins(s)'
      BY <1>1 DEF FreshWins, tables, work, AnswersInv, AnswerInv
    <2>2. s \notin CallerTx => FreshCall(s)'
      <3> SUFFICES ASSUME pc[s] = "idle" PROVE FreshCall(s)'
        BY <1>1 DEF Ready
      <3>1. /\ newRefs[s] = {} /\ newBindings[s] = {} /\ locks[s] = {}
            /\ \A k \in Keys : newCounters[s][k] = NoRow
        BY DEF IInv, StepsTyped, NoCounters
      <3>2. QED
        BY <1>1, <3>1 DEF FreshCall, work
    <2>3. QED
      BY <1>1, <2>1, <2>2
         DEF AnswerInv, VersionFits, SeedJustified, RefusalJustified
  <1>2. ASSUME NEW row \in Reservations, CallReserve(s, row) PROVE AnswerInv(s)'
    BY <1>1, <1>2 DEF CallReserve, IInv, TypeOK
  <1>3. ASSUME NEW r \in Requests, CallAllocate(s, r) PROVE AnswerInv(s)'
    <2>1. CASE r.width \in ValidWidths
      BY <1>1, <1>3, <2>1 DEF CallAllocate, IInv, TypeOK
    <2>2. CASE r.width \notin ValidWidths
      <3>1. /\ pc'[s] = "idle" /\ sqlstate'[s] = "22023" /\ newRefs'[s] = {}
            /\ results'[s] = {} /\ req'[s] = r
        BY <1>3, <2>2 DEF CallAllocate, Forget, IInv, TypeOK
      <3>2. Justified(sqlstate[s], req[s])'
        BY <2>2, <3>1, CallsAssumption DEF Justified
      <3>3. QED
        BY <3>1, <3>2
           DEF AnswerInv, FreshWins, VersionFits, FreshCall, SeedJustified,
               RefusalJustified, ReserveSteps, AllocateSteps
    <2>3. QED
      BY <2>1, <2>2
  <1>4. QED
    BY <1>2, <1>3

LEMMA InsertAnswers ==
  ASSUME IInv, AnswersInv, NEW s \in Sessions, InsertReference(s)
  PROVE  AnswerInv(s)'
  <1>1. CASE \E row \in ReferencesOf(s) : row.ref = req[s].ref
    <2>1. Return(s, [kind |-> "refused", ref |-> req[s].ref])
      BY <1>1 DEF InsertReference
    <2>2. QED
      BY <2>1, ReturnAnswers
  <1>2. CASE \A row \in ReferencesOf(s) : row.ref # req[s].ref
    <2>1. /\ pc'[s] = "returned" /\ refs' = refs
          /\ newRefs'[s] = newRefs[s] \cup {req[s]}
          /\ results'[s] = results[s] \cup {[kind |-> "won", row |-> req[s]]}
      BY <1>2 DEF InsertReference, tables, IInv, TypeOK
    <2>2. \A row \in refs : row.ref # req[s].ref
      BY <1>2 DEF ReferencesOf
    <2>3. FreshWins(s)'
      BY <2>1, <2>2 DEF FreshWins, AnswersInv, AnswerInv
    <2>4. QED
      BY <2>1, <2>3, ReturnedAnswers
  <1>3. QED
    BY <1>1, <1>2

\* A step to the next statement that changes nothing but pc.
LEMMA GotoAnswers ==
  ASSUME IInv, AnswersInv, NEW s \in Sessions,
         \/ pc[s] = "replay" /\ Goto(s, "seed")
         \/ pc[s] = "recheck" /\ Goto(s, "advance")
  PROVE  AnswerInv(s)'
  <1>1. /\ \/ pc[s] = "replay" /\ pc'[s] = "seed"
           \/ pc[s] = "recheck" /\ pc'[s] = "advance"
        /\ UNCHANGED <<tables, work, req, version>>
    BY DEF Goto, IInv, TypeOK
  <1>2. FreshWins(s)' /\ VersionFits(s)'
    BY <1>1 DEF AnswersInv, AnswerInv, FreshWins, VersionFits, tables, work
  <1>3. s \notin CallerTx => FreshCall(s)'
    BY <1>1 DEF AnswersInv, AnswerInv, FreshCall, work, AllocateSteps
  <1>4. QED
    BY <1>1, <1>2, <1>3 DEF AnswerInv, SeedJustified, RefusalJustified

LEMMA ReplayAnswers ==
  ASSUME IInv, AnswersInv, NEW s \in Sessions, Replay(s)
  PROVE  AnswerInv(s)'
  <1>1. CASE Goto(s, "seed")
    BY <1>1, GotoAnswers DEF Replay
  <1>2. ASSUME NEW b \in Replays(s), Return(s, Allocated(req[s], b.seq))
        PROVE  AnswerInv(s)'
    BY <1>2, ReturnAnswers DEF Allocated
  <1>3. ASSUME NEW b \in Replays(s), ~SamePolicy(b, req[s]), Raise(s, "22023")
        PROVE  AnswerInv(s)'
    <2>1. req[s] \in AllocationRequest /\ req[s].key \in Keys
      BY SeedRow DEF Replay, IInv, StepsTyped, AllocateSteps
    <2>2. ASSUME s \notin CallerTx PROVE Justified("22023", req[s])
      <3>1. FreshCall(s) /\ pc[s] \in AllocateSteps \ {"bind"}
        BY <2>2 DEF AnswersInv, AnswerInv, Replay, AllocateSteps
      <3>2. b \in bindings /\ b.key = req[s].key
        BY <3>1, SeesCommitted DEF Replays
      <3>3. SoundCounter(req[s].key, counters[req[s].key], bindings)
        BY <2>1 DEF IInv, SoundViews
      <3>4. counters[req[s].key] # NoRow /\ SamePolicy(b, counters[req[s].key])
        BY <3>2, <3>3 DEF SoundCounter
      <3>5. QED
        BY <1>3, <2>1, <3>4 DEF Justified, SamePolicy
    <2>3. QED
      BY <1>3, <2>2, RaiseAnswers
  <1>4. QED
    BY <1>1, <1>2, <1>3 DEF Replay

LEMMA SeedAnswers ==
  ASSUME IInv, AnswersInv, NEW s \in Sessions, Seed(s)
  PROVE  AnswerInv(s)'
  <1> DEFINE k == req[s].key
             row == [prefix |-> req[s].prefix, width |-> req[s].width, last |-> 0]
  <1>1. /\ req[s] \in AllocationRequest /\ k \in Keys
        /\ row \in CounterRow /\ row # NoRow
        /\ row.last = 0 /\ SamePolicy(row, req[s])
    BY SeedRow, NoRowAssumption
       DEF Seed, IInv, StepsTyped, AllocateSteps, SamePolicy
  <1> HIDE DEF row
  <1>2. /\ pc'[s] = IF version[s] = "003" THEN "lock" ELSE "bump"
        /\ UNCHANGED <<tables, newRefs, newBindings, results, req, version>>
    BY DEF Seed, IInv, TypeOK
  <1>3. FreshWins(s)' /\ VersionFits(s)'
    BY <1>2 DEF FreshWins, VersionFits, tables, AnswersInv, AnswerInv
  <1>4. ASSUME s \notin CallerTx PROVE FreshCall(s)' /\ SeedJustified(s)'
    <2>1. /\ locks[s] = {} /\ newRefs[s] = {} /\ newBindings[s] = {}
      BY <1>4 DEF Seed, AnswersInv, AnswerInv, FreshCall, AllocateSteps
    <2>2. \A l \in Keys : newCounters[s][l] = NoRow /\ CounterOf(s, l) = counters[l]
      BY <2>1 DEF IInv, WritesUnderLock, CounterOf
    <2>3. CASE CounterOf(s, k) # NoRow \/ PrefixTaken(s)
      <3>1. UNCHANGED <<newCounters, locks>>
        BY <2>3 DEF Seed
      <3>2. FreshCall(s)'
        BY <1>2, <2>1, <2>2, <3>1 DEF FreshCall
      <3>3. CounterOf(s, k)' = counters[k]
        BY <1>1, <1>2, <2>2, <3>1 DEF CounterOf, tables
      <3>4. counters[k] = NoRow => PrefixIsTaken(req[s])
        BY <1>1, <2>2, <2>3 DEF PrefixTaken, PrefixIsTaken
      <3>5. SeedJustified(s)'
        BY <1>2, <3>3, <3>4 DEF SeedJustified, PrefixIsTaken, tables
      <3>6. QED
        BY <3>2, <3>5
    <2>4. CASE ~(CounterOf(s, k) # NoRow \/ PrefixTaken(s))
      <3>1. ReplacesRow(s, k, row) /\ locks'[s] = {k}
        BY <2>1, <2>4 DEF Seed, ReplacesRow, row, IInv, TypeOK
      <3>2. /\ newCounters'[s][k] = row
            /\ \A l \in Keys : l # k => newCounters'[s][l] = NoRow
        BY <1>1, <2>2, <3>1, ReplaceRow DEF IInv, TypeOK
      <3>3. FreshCall(s)'
        BY <1>1, <1>2, <2>1, <3>1, <3>2 DEF FreshCall, SamePolicy
      <3>4. SeedJustified(s)'
        BY <1>1, <1>2, <3>2 DEF SeedJustified, CounterOf
      <3>5. QED
        BY <3>3, <3>4
    <2>5. QED
      BY <2>3, <2>4
  <1>5. QED
    BY <1>2, <1>3, <1>4 DEF AnswerInv, RefusalJustified

LEMMA LockAnswers ==
  ASSUME IInv, AnswersInv, NEW s \in Sessions, Lock(s)
  PROVE  AnswerInv(s)'
  <1> DEFINE k == req[s].key
             row == CounterOf(s, k)
  <1>1. /\ req[s] \in AllocationRequest /\ k \in Keys
        /\ pc[s] \in AllocateSteps \ {"bind"}
    BY SeedRow DEF Lock, IInv, StepsTyped, AllocateSteps
  <1>2. CASE Raise(s, "22023") /\ (row = NoRow \/ ~SamePolicy(row, req[s]))
    <2>1. ASSUME s \notin CallerTx PROVE Justified("22023", req[s])
      <3>1. FreshCall(s) /\ SeedJustified(s)
        BY <2>1 DEF AnswersInv, AnswerInv
      <3>2. CASE row = NoRow
        BY <1>1, <3>1, <3>2 DEF Lock, SeedJustified, Justified
      <3>3. CASE row # NoRow /\ ~SamePolicy(row, req[s])
        <4>1. row = counters[k]
          BY <1>1, <3>1, <3>3, SeesCommitted
        <4>2. QED
          BY <1>1, <3>3, <4>1 DEF Justified
      <3>4. QED
        BY <1>2, <3>2, <3>3
    <2>2. QED
      BY <1>2, <2>1, RaiseAnswers
  <1>3. CASE /\ pc'[s] = "recheck" /\ locks'[s] = locks[s] \cup {k}
             /\ UNCHANGED <<tables, newRefs, newCounters, newBindings, results,
                            req, version>>
    <2>1. FreshWins(s)' /\ VersionFits(s)'
      BY <1>3 DEF Lock, FreshWins, VersionFits, tables, AnswersInv, AnswerInv
    <2>2. s \notin CallerTx => FreshCall(s)'
      <3>1. s \notin CallerTx => FreshCall(s) /\ locks[s] \subseteq {k}
        BY DEF Lock, FreshCall, AnswersInv, AnswerInv
      <3>2. QED
        BY <1>1, <1>3, <3>1 DEF FreshCall
    <2>3. QED
      BY <1>3, <2>1, <2>2 DEF AnswerInv, SeedJustified, RefusalJustified
  <1>4. QED
    BY <1>2, <1>3 DEF Lock, IInv, TypeOK

LEMMA RecheckAnswers ==
  ASSUME IInv, AnswersInv, NEW s \in Sessions, Recheck(s)
  PROVE  AnswerInv(s)'
  <1>1. CASE Goto(s, "advance")
    BY <1>1, GotoAnswers DEF Recheck
  <1>2. ASSUME NEW b \in Replays(s), Return(s, Allocated(req[s], b.seq))
        PROVE  AnswerInv(s)'
    BY <1>2, ReturnAnswers DEF Allocated
  <1>3. QED
    BY <1>1, <1>2 DEF Recheck

LEMMA AdvanceAnswers ==
  ASSUME IInv, AnswersInv, NEW s \in Sessions, Advance(s)
  PROVE  AnswerInv(s)'
  <1> DEFINE k == req[s].key
             row == CounterOf(s, k)
  <1>1. /\ req[s] \in AllocationRequest /\ req[s].width \in ValidWidths
        /\ k \in Keys /\ pc[s] \in AllocateSteps \ {"bind"}
    BY SeedRow DEF Advance, IInv, StepsTyped, AllocateSteps
  <1>2. /\ seen[s] = row /\ row \in CounterRow /\ row # NoRow /\ row.last \in Nat
        /\ SamePolicy(row, req[s]) /\ Replays(s) = {}
    <2>1. seen[s] = row /\ SamePolicy(row, req[s]) /\ Replays(s) = {} /\ row # NoRow
      BY DEF Advance, IInv, SeenIsCurrent, StepsTyped
    <2>2. row \in CounterRow
      BY <1>1, <2>1, ViewTypes DEF IInv
    <2>3. QED
      BY <2>1, <2>2 DEF CounterRow
  <1>3. CASE row.last >= Capacity[req[s].width] /\ Raise(s, "22003")
    <2>1. ASSUME s \notin CallerTx PROVE Justified("22003", req[s])
      <3>1. FreshCall(s)
        BY <2>1 DEF AnswersInv, AnswerInv
      <3>2. Capacity[req[s].width] \in Nat \ {0}
        BY <1>1, WidthsAssumption
      <3>3. row = counters[k] /\ BindingsOf(s) = bindings
        BY <1>1, <1>2, <1>3, <3>1, <3>2, SeesCommitted
      <3>4. SoundCounter(k, counters[k], bindings)
        BY <1>1 DEF IInv, SoundViews
      <3>5. row.last = Capacity[req[s].width]
        BY <1>2, <1>3, <3>2, <3>3, <3>4 DEF SoundCounter, SamePolicy
      <3>6. QED
        BY <1>1, <1>2, <3>3, <3>5 DEF Justified, Replays
    <2>2. QED
      BY <1>3, <2>1, RaiseAnswers
  <1>4. CASE Move(s, row)
    BY <1>2, <1>4, MoveAnswers DEF Advance
  <1>5. QED
    BY <1>2, <1>3, <1>4 DEF Advance

LEMMA BumpAnswers ==
  ASSUME IInv, AnswersInv, NEW s \in Sessions, Bump(s)
  PROVE  AnswerInv(s)'
  <1> DEFINE row == CounterOf(s, req[s].key)
  <1>1. version[s] # "003"
    BY DEF Bump, AnswersInv, AnswerInv, VersionFits
  <1>2. pc[s] \in AllocateSteps /\ req[s].key \in Keys
    BY SeedRow DEF Bump, IInv, StepsTyped, AllocateSteps
  <1>3. CASE Raise(s, "22003")
    BY <1>1, <1>3, RaiseAnswers
  <1>4. CASE row # NoRow /\ Move(s, row)
    BY <1>2, <1>4, ViewTypes, MoveAnswers DEF Bump, IInv
  <1>5. QED
    BY <1>3, <1>4 DEF Bump, Selects

LEMMA EndAnswers ==
  ASSUME IInv, AnswersInv, NEW s \in Sessions,
         \/ Confirm(s) \/ LoseReply(s) \/ LoseConnection(s) \/ RollBack(s)
         \/ AbortDeadlock(s)
  PROVE  AnswerInv(s)'
  <1>1. \A code \in {"00000", "08006", "40P01"} : Justified(code, req[s])
    BY DEF Justified
  <1>2. CASE Confirm(s) \/ LoseReply(s)
    <2>1. /\ pc'[s] = "idle" /\ newRefs'[s] = {} /\ results'[s] = {}
          /\ sqlstate'[s] \in {"00000", "08006"}
      BY <1>2 DEF Confirm, LoseReply, Commit, Forget, IInv, TypeOK
    <2>2. QED
      BY <2>1
         DEF AnswerInv, FreshWins, VersionFits, FreshCall, SeedJustified,
             RefusalJustified, Justified, ReserveSteps, AllocateSteps
  <1>3. CASE LoseConnection(s)
    BY <1>1, <1>3, RaiseAnswers DEF LoseConnection
  <1>4. CASE RollBack(s)
    BY <1>1, <1>4, RaiseAnswers DEF RollBack
  <1>5. CASE AbortDeadlock(s)
    BY <1>1, <1>5, RaiseAnswers DEF AbortDeadlock
  <1>6. QED
    BY <1>2, <1>3, <1>4, <1>5

-----------------------------------------------------------------------------
LEMMA AnswersStep == IInv /\ AnswersInv /\ [Next]_vars => AnswersInv'
  <1> SUFFICES ASSUME IInv, AnswersInv, [Next]_vars PROVE AnswersInv'
    OBVIOUS
  <1>0. IInv' /\ Grows
    BY IInvStep, StepGrows
  <1>1. ASSUME NEW s \in Sessions, SessionStep(s) PROVE AnswersInv'
    <2>1. AnswerInv(s)'
      BY <1>1, CallAnswers, InsertAnswers, ReplayAnswers, SeedAnswers, LockAnswers,
         RecheckAnswers, AdvanceAnswers, BumpAnswers, BindAnswers, EndAnswers
         DEF SessionStep, Statement
    <2>2. \A t \in Sessions \ {s} : AnswerInv(t)'
      BY <1>0, <1>1, StepKeepsOthers, OthersAnswers
    <2>3. QED
      BY <2>1, <2>2 DEF AnswersInv
  <1>2. CASE (\E v \in Versions : Deploy(v)) \/ UNCHANGED vars
    <2>1. UNCHANGED <<tables, work, pc, req, version, sqlstate>>
      BY <1>2 DEF Deploy, vars, tables, work
    <2>2. QED
      BY <2>1
         DEF AnswersInv, AnswerInv, FreshWins, VersionFits, FreshCall, SeedJustified,
             RefusalJustified, Justified, PrefixIsTaken, ClashesOnPrefix, CounterOf,
             tables, work
  <1>3. QED
    BY <1>1, <1>2 DEF Next, SessionStep

\* Every reachable state satisfies the invariant.
THEOREM AnswersInvariant == Spec => [](IInv /\ AnswersInv)
  <1>1. Init => AnswersInv
    BY AnswersInit
  <1>2. QED
    BY <1>1, AnswersStep, IInvInit, IInvStep, PTL DEF Spec

\* One caller at most is told that it has won a reference, counting the answers
\* still waiting for a commit, for any number of callers.
THEOREM OneWinnerHolds == Spec => []OneWinner
  <1>1. IInv /\ AnswersInv => OneWinner
    <2> SUFFICES ASSUME IInv, AnswersInv,
                        NEW s \in Sessions, NEW t \in Sessions,
                        NEW a \in results[s], NEW b \in results[t] \cup acked,
                        a.kind = "won", b.kind = "won", a.row.ref = b.row.ref
                 PROVE  a = b /\ s = t /\ b \notin acked
      BY DEF OneWinner
    <2>1. a.row \in newRefs[s] /\ \A other \in refs : a.row.ref # other.ref
      BY DEF AnswersInv, AnswerInv, FreshWins
    <2>2. b \notin acked
      BY <2>1 DEF IInv, AckedIsStored
    <2>3. b \in results[t] /\ b.row \in newRefs[t]
      BY <2>2 DEF AnswersInv, AnswerInv, FreshWins
    <2>4. a.row = b.row /\ (s # t => a.row \in refs)
      BY <2>1, <2>3 DEF IInv, OneRowPerReference, ReferencesOf
    <2>5. s = t
      BY <2>1, <2>4
    <2>6. a = b
      <3>1. a \in Results /\ b \in Results
        BY <2>3 DEF IInv, TypeOK
      <3>2. QED
        BY <2>4, <3>1 DEF Results
    <2>7. QED
      BY <2>2, <2>5, <2>6
  <1>2. QED
    BY <1>1, AnswersInvariant, PTL

\* What an autocommit call of the current function refuses stays refused: the
\* counter is full without the MID, or its policy or prefix is another's, and no
\* constraint fails.
THEOREM RefusalIsFinalHolds == Spec => []RefusalIsFinal
  <1>1. IInv /\ AnswersInv => RefusalIsFinal
    <2> SUFFICES ASSUME AnswersInv, NEW s \in Sessions \ CallerTx,
                        pc[s] = "idle", version[s] = "003"
                 PROVE  LET r == req[s] IN
                        /\ sqlstate[s] # "23505"
                        /\ Answer(s) = "sequence_overflow" =>
                             /\ counters[r.key] # NoRow
                             /\ SamePolicy(counters[r.key], r)
                             /\ counters[r.key].last = Capacity[r.width]
                             /\ \A b \in bindings : b.key = r.key => b.mid # r.mid
                        /\ Answer(s) = "invalid_allocation_policy" =>
                             \/ r.width \notin ValidWidths
                             \/ \E k \in Keys :
                                  /\ counters[k] # NoRow
                                  /\ \/ k = r.key /\ ~SamePolicy(counters[k], r)
                                     \/ k # r.key /\ ClashesOnPrefix(k, r, counters[k])
      BY DEF RefusalIsFinal
    <2>1. Justified(sqlstate[s], req[s])
      BY DEF AnswersInv, AnswerInv, RefusalJustified
    <2>2. /\ Answer(s) = "sequence_overflow" => sqlstate[s] = "22003"
          /\ Answer(s) = "invalid_allocation_policy" => sqlstate[s] = "22023"
      BY DEF Answer, MapDatabaseError
    <2>3. sqlstate[s] = "22023" => req[s].key \in Keys
      BY <2>1 DEF Justified, AllocationRequest
    <2>4. QED
      BY <2>1, <2>2, <2>3 DEF Justified, PrefixIsTaken
  <1>2. QED
    BY <1>1, AnswersInvariant, PTL

\* No two transactions hold one counter, and an autocommit call is on no cycle of
\* waits: when it waits, nobody waits for it.
THEOREM LocksAreExclusiveHolds == Spec => []LocksAreExclusive
  <1>1. IInv /\ AnswersInv => LocksAreExclusive
    <2> SUFFICES ASSUME IInv, AnswersInv, NEW s \in Sessions, s \notin CallerTx,
                        NEW t \in Sessions, NEW u \in Sessions,
                        WaitsFor(s, t), WaitsFor(u, s)
                 PROVE  FALSE
      BY DEF LocksAreExclusive, ExclusiveLocks, Deadlocked, IInv
    <2>1. FreshCall(s)
      BY DEF AnswersInv, AnswerInv
    <2>2. pc[s] \in {"insert_reference", "seed", "lock", "bump"}
      BY DEF WaitsFor, WaitsToReserve, WaitsToSeed, WaitsToLock, WaitsToBump
    <2>3. newRefs[s] = {}
      BY <2>1, <2>2 DEF FreshCall, ReserveSteps, AllocateSteps
    <2>4. locks[s] # {}
      <3>1. locks[s] = {} => Inserted(s) = {}
        BY DEF Inserted, IInv, WritesUnderLock
      <3>2. QED
        BY <2>3, <3>1 DEF WaitsFor, WaitsToReserve, WaitsToSeed, WaitsToLock, WaitsToBump
    <2>5. pc[s] \in {"lock", "bump"} /\ req[s].key \in locks[s]
      BY <2>1, <2>2, <2>4 DEF FreshCall
    <2>6. req[s].key \in locks[t] /\ s # t
      BY <2>5 DEF WaitsFor, WaitsToReserve, WaitsToSeed, WaitsToLock, WaitsToBump
    <2>7. QED
      BY <2>5, <2>6 DEF IInv, ExclusiveLocks
  <1>2. QED
    BY <1>1, AnswersInvariant, PTL

-----------------------------------------------------------------------------
(* The tables as a contract store. *)

Now == [refs |-> refs, counters |-> counters, bindings |-> bindings]

ReferencesUnique == \A a, b \in refs : a.ref = b.ref => a = b

LEMMA ReferencesStayUnique ==
  IInv' /\ ReferencesUnique /\ [Next]_vars => ReferencesUnique'
  <1> SUFFICES ASSUME IInv', ReferencesUnique, [Next]_vars PROVE ReferencesUnique'
    OBVIOUS
  <1>1. CASE Sessions # {}
    <2>1. PICK s \in Sessions : TRUE
      BY <1>1
    <2>2. refs' \subseteq ReferencesOf(s)' /\ OneRowPerReference'
      BY DEF ReferencesOf, IInv
    <2>3. QED
      BY <2>2 DEF OneRowPerReference, ReferencesUnique
  <1>2. CASE Sessions = {}
    <2>1. refs' = refs
      BY <1>2 DEF Next, Deploy, tables, vars
    <2>2. QED
      BY <2>1 DEF ReferencesUnique
  <1>3. QED
    BY <1>1, <1>2

\* The tables in a state of the invariant.
LEMMA NowIsNumbered ==
  ASSUME IInv, ReferencesUnique
  PROVE  Numbered(Now, Keys, MachineIds, NoRow)
  <1>1. /\ Now.refs = refs /\ Now.counters = counters /\ Now.bindings = bindings
    BY DEF Now
  <1>2. /\ \A b \in bindings : b.key \in Keys /\ b.mid \in MachineIds
        /\ \A k \in Keys : SoundCounter(k, counters[k], bindings)
        /\ \A k \in Keys : counters[k] # NoRow => counters[k].last \in Nat
    BY DEF IInv, TypeOK, AllocationRow, CounterRow, SoundViews
  <1>3. ASSUME NEW k \in Keys
        PROVE  /\ CountIn(Now, NoRow, k) \in Nat
               /\ \A b \in bindings : b.key = k => b.seq \in 1..CountIn(Now, NoRow, k)
               /\ \A n \in 1..CountIn(Now, NoRow, k) :
                    \E b \in bindings : b.key = k /\ b.seq = n
    BY <1>1, <1>2 DEF CountIn, SoundCounter
  <1>4. ASSUME NEW a \in bindings, NEW b \in bindings, a.key = b.key,
               a.seq = b.seq \/ a.mid = b.mid
        PROVE  a = b
    <2>1. a.key \in Keys /\ SoundCounter(a.key, counters[a.key], bindings)
      BY <1>2
    <2>2. QED
      BY <1>4, <2>1 DEF SoundCounter
  <1> HIDE DEF Now
  <1>5. QED
    BY <1>1, <1>2, <1>3, <1>4 DEF Numbered, ReferencesUnique

LEMMA ContractViews ==
  /\ \A r : Owner(r) = OwnerIn(Now, NoRow, r)
  /\ \A k : Policy(k) = PolicyIn(Now, NoRow, k) /\ Issued(k) = IssuedIn(Now, NoRow, k)
  /\ \A r : Owner(r)' = OwnerIn(Now', NoRow, r)
  /\ \A k : Policy(k)' = PolicyIn(Now', NoRow, k)
            /\ Issued(k)' = IssuedIn(Now', NoRow, k)
  BY DEF Owner, Policy, Issued, OwnerIn, PolicyIn, IssuedIn, CountIn, Now

LEMMA ContractInit == Init => Store!Init
  <1> SUFFICES ASSUME Init PROVE Store!Init
    OBVIOUS
  <1>1. refs = {} /\ \A k \in Keys : counters[k] = NoRow
    BY DEF Init, NoCounters
  <1>2. \A r : Owner(r) = NoRow
    BY <1>1 DEF Owner
  <1>3. \A k \in Keys : Policy(k) = NoRow
    BY <1>1 DEF Policy
  <1>4. \A k \in Keys : Issued(k) = << >>
    <2>1. ReferencesUnique
      BY <1>1 DEF ReferencesUnique
    <2>2. Numbered(Now, Keys, MachineIds, NoRow)
      BY <2>1, IInvInit, NowIsNumbered
    <2>3. \A k \in Keys : CountIn(Now, NoRow, k) = 0
      BY <1>1 DEF CountIn, Now
    <2>4. \A k \in Keys : IssuedIn(Now, NoRow, k) \in Seq(MachineIds)
                          /\ Len(IssuedIn(Now, NoRow, k)) = 0
      BY <2>2, <2>3, IssuedIsLog
    <2>5. QED
      BY <2>4, ContractViews, EmptySeq
  <1>5. QED
    BY <1>2, <1>3, <1>4 DEF Store!Init

\* Whatever a step commits, it commits together.
LEMMA ImplementsTransaction ==
  ASSUME IInv, IInv', ReferencesUnique, ReferencesUnique', Grows
  PROVE  Store!Transaction
  <1>1. PICK t, u : t = Now /\ u = Now'
    OBVIOUS
  <1>2. /\ t.refs = refs /\ t.counters = counters /\ t.bindings = bindings
        /\ u.refs = refs' /\ u.counters = counters' /\ u.bindings = bindings'
    BY <1>1 DEF Now
  <1>3. Numbered(t, Keys, MachineIds, NoRow) /\ Numbered(u, Keys, MachineIds, NoRow)
    <2>1. (IInv /\ ReferencesUnique => Numbered(Now, Keys, MachineIds, NoRow))'
      BY NowIsNumbered, PTL
    <2>2. QED
      BY <1>1, <2>1, NowIsNumbered
  <1>4. /\ counters \in [Keys -> CounterRow \cup {NoRow}]
        /\ counters' \in [Keys -> CounterRow \cup {NoRow}]
        /\ refs' \subseteq ReferenceRow
        /\ \A k \in Keys : SoundCounter(k, counters[k], bindings)'
        /\ \A k, l \in Keys : OnePrefix(k, counters'[k], l, counters'[l])
    BY DEF IInv, TypeOK, SoundViews, SoundPrefixes, OnePrefix
  <1>5. Extends(t, u, Keys, NoRow)
    BY <1>2 DEF Grows, Extends, PolicyIn, CountIn, SamePolicy
  <1>6. Batched(t, u, Keys, NoRow)
    BY <1>3, <1>5, BatchIs
  <1>7. ASSUME NEW r \in References
        PROVE  /\ Owner(r) # NoRow => Owner(r)' = Owner(r)
               /\ Owner(r)' \in (Namespaces \X MachineIds) \cup {NoRow}
    <2>1. OwnerIn(u, NoRow, r) \in (Namespaces \X MachineIds) \cup {NoRow}
      BY <1>2, <1>4 DEF OwnerIn, ReferenceRow
    <2>2. QED
      BY <1>1, <1>6, <2>1, ContractViews DEF Batched
  <1>8. ASSUME NEW k \in Keys
        PROVE  /\ Policy(k) # NoRow => Policy(k)' = Policy(k)
               /\ Policy(k)' = NoRow => Issued(k)' = << >>
               /\ Len(Issued(k)) <= Len(Issued(k)')
               /\ Issued(k) = SubSeq(Issued(k)', 1, Len(Issued(k)))
               /\ \A i, j \in 1..Len(Issued(k)') : Issued(k)'[i] = Issued(k)'[j] => i = j
               /\ Policy(k)' # NoRow =>
                    /\ Policy(k)' \in Prefixes \X ValidWidths
                    /\ Len(Issued(k)') <= Capacity[Policy(k)'[2]]
    <2> DEFINE row == u.counters[k]
    <2>1. /\ PolicyIn(t, NoRow, k) # NoRow => PolicyIn(u, NoRow, k) = PolicyIn(t, NoRow, k)
          /\ row = NoRow => IssuedIn(u, NoRow, k) = << >>
          /\ Len(IssuedIn(t, NoRow, k)) <= Len(IssuedIn(u, NoRow, k))
          /\ IssuedIn(t, NoRow, k) =
               SubSeq(IssuedIn(u, NoRow, k), 1, Len(IssuedIn(t, NoRow, k)))
          /\ \A i, j \in 1..Len(IssuedIn(u, NoRow, k)) :
               IssuedIn(u, NoRow, k)[i] = IssuedIn(u, NoRow, k)[j] => i = j
          /\ Len(IssuedIn(u, NoRow, k)) = CountIn(u, NoRow, k)
      BY <1>6 DEF Batched
    <2>2. row # NoRow =>
            /\ row.last <= Capacity[row.width]
            /\ <<row.prefix, row.width>> \in Prefixes \X ValidWidths
      BY <1>2, <1>4 DEF SoundCounter, CounterRow
    <2>3. row # NoRow => PolicyIn(u, NoRow, k) # NoRow
      BY <2>2, NoRowAssumption DEF PolicyIn
    <2>4. PolicyIn(u, NoRow, k) # NoRow =>
            /\ PolicyIn(u, NoRow, k) \in Prefixes \X ValidWidths
            /\ CountIn(u, NoRow, k) <= Capacity[PolicyIn(u, NoRow, k)[2]]
      BY <2>2 DEF PolicyIn, CountIn
    <2> HIDE DEF row
    <2>5. QED
      BY <1>1, <2>1, <2>3, <2>4, ContractViews
  <1>9. ASSUME NEW k \in Keys, NEW l \in Keys, k # l,
               Policy(k)' # NoRow, Policy(l)' # NoRow
        PROVE  ~(k[2] = l[2] /\ Policy(k)'[1] = Policy(l)'[1])
    <2>1. /\ counters'[k] # NoRow /\ Policy(k)'[1] = counters'[k].prefix
          /\ counters'[l] # NoRow /\ Policy(l)'[1] = counters'[l].prefix
      BY <1>9 DEF Policy
    <2>2. QED
      BY <1>4, <1>9, <2>1 DEF OnePrefix
  <1>10. QED
    BY <1>7, <1>8, <1>9 DEF Store!Transaction

\* Every commit of every caller, of one call or of many, is a batch of the
\* contract's steps, and no other step changes what the tables say.
THEOREM ImplementsBatchesHolds == Spec => ImplementsBatches
  <1>1. Init => ReferencesUnique
    BY DEF Init, ReferencesUnique
  <1>2. ASSUME IInv, IInv', ReferencesUnique, ReferencesUnique', [Next]_vars
        PROVE  [Store!Transaction]_(Store!vars)
    BY <1>2, StepGrows, ImplementsTransaction
  <1>3. QED
    BY <1>1, <1>2, ContractInit, ReferencesStayUnique, Invariant, PTL
       DEF Spec, ImplementsBatches, Store!BatchSpec

-----------------------------------------------------------------------------
(* One call in each transaction. *)

\* What a transaction of one call has written when the call returns: nothing, a
\* reservation, or a number and the counter that gave it.
OneCall(s) ==
  pc[s] = "returned" =>
    \/ /\ newBindings[s] = {}
       /\ \A k \in Keys : newCounters[s][k] = NoRow
       /\ newRefs[s] = {} \/ \E row \in newRefs[s] : newRefs[s] = {row}
    \/ /\ newRefs[s] = {}
       /\ \E new \in newBindings[s] :
            /\ newBindings[s] = {new}
            /\ newCounters[s][new.key] =
                 [prefix |-> new.prefix, width |-> new.width, last |-> new.seq]
            /\ \A k \in Keys : k # new.key => newCounters[s][k] = NoRow

CallsInv == \A s \in Sessions \ CallerTx : OneCall(s)

\* Before it returns, a call has written at most the row of its own counter.
LEMMA WritesItsCounter ==
  ASSUME IInv, AnswersInv, NEW s \in Sessions \ CallerTx,
         pc[s] \in ReserveSteps \cup AllocateSteps
  PROVE  /\ newRefs[s] = {} /\ newBindings[s] = {}
         /\ pc[s] \in {"insert_reference", "replay", "seed"} =>
              \A k \in Keys : newCounters[s][k] = NoRow
         /\ pc[s] \in {"lock", "recheck", "advance", "bump", "bind"} =>
              \A k \in Keys : k # req[s].key => newCounters[s][k] = NoRow
  <1>1. FreshCall(s)
    BY DEF AnswersInv, AnswerInv
  <1>2. \A k \in Keys : newCounters[s][k] # NoRow => k \in locks[s]
    BY DEF IInv, WritesUnderLock
  <1>3. QED
    BY <1>1, <1>2 DEF FreshCall

\* A call that answers without binding a number has written no counter.
LEMMA ReturnIsOneCall ==
  ASSUME IInv, AnswersInv, NEW s \in Sessions \ CallerTx, NEW result,
         Return(s, result),
         \/ pc[s] \in {"insert_reference", "replay"}
         \/ pc[s] = "recheck" /\ Replays(s) # {}
  PROVE  OneCall(s)'
  <1>1. UNCHANGED <<newRefs, newCounters, newBindings>>
    BY DEF Return
  <1>2. newRefs[s] = {} /\ newBindings[s] = {}
    BY WritesItsCounter DEF ReserveSteps, AllocateSteps
  <1>3. \A k \in Keys : newCounters[s][k] = NoRow
    <2>1. CASE pc[s] \in {"insert_reference", "replay"}
      BY <2>1, WritesItsCounter DEF ReserveSteps, AllocateSteps
    <2>2. CASE pc[s] = "recheck" /\ Replays(s) # {}
      <3> DEFINE key == req[s].key
      <3>1. key \in Keys
        BY <2>2, SeedRow DEF IInv, StepsTyped, AllocateSteps
      <3>2. PICK b \in BindingsOf(s) : b.key = key
        BY <2>2 DEF Replays
      <3>3. SoundCounter(key, CounterOf(s, key), BindingsOf(s))
        BY <2>2, <3>1 DEF IInv, SoundViews, BoundOf
      <3>4. newCounters[s][key] # NoRow => newCounters[s][key].last = 0
        BY <2>2, <3>1 DEF AnswersInv, AnswerInv, FreshCall, AllocateSteps
      <3>5. newCounters[s][key] = NoRow
        BY <3>2, <3>3, <3>4 DEF SoundCounter, CounterOf
      <3>6. \A k \in Keys : k # key => newCounters[s][k] = NoRow
        BY <2>2, WritesItsCounter DEF ReserveSteps, AllocateSteps
      <3>7. QED
        BY <3>5, <3>6
    <2>3. QED
      BY <2>1, <2>2
  <1>4. QED
    BY <1>1, <1>2, <1>3 DEF OneCall

\* An error ends the call.
LEMMA RaiseIsOneCall ==
  ASSUME IInv, NEW s \in Sessions, NEW code, Raise(s, code)
  PROVE  OneCall(s)'
  BY DEF Raise, OneCall, IInv, TypeOK

LEMMA BindIsOneCall ==
  ASSUME IInv, AnswersInv, NEW s \in Sessions \ CallerTx, Bind(s)
  PROVE  OneCall(s)'
  <1> DEFINE row == Advanced(seen[s])
             result == Allocated(req[s], row.last)
             key == req[s].key
  <1>1. CASE Violates(s, result.row)
    BY <1>1, RaiseIsOneCall DEF Bind
  <1>2. CASE ~Violates(s, result.row)
    <2>1. /\ req[s] \in AllocationRequest /\ req[s].width \in ValidWidths
          /\ key \in Keys /\ pc[s] = "bind" /\ seen[s] \in CounterRow
      BY SeedRow DEF Bind, IInv, TypeOK, StepsTyped, AllocateSteps
    <2>2. /\ newRefs[s] = {} /\ newBindings[s] = {}
          /\ \A k \in Keys : k # key => newCounters[s][k] = NoRow
      BY <2>1, WritesItsCounter DEF ReserveSteps, AllocateSteps
    <2>3. /\ newCounters[s][key] = row /\ SamePolicy(seen[s], req[s])
      BY <2>1 DEF IInv, SeenIsCurrent
    <2>4. row \in CounterRow /\ SamePolicy(row, req[s])
      BY <2>1, <2>3, AdvancedRow DEF SamePolicy
    <2> HIDE DEF row
    <2>5. result.row.key = key
          /\ row = [prefix |-> result.row.prefix, width |-> result.row.width,
                    last |-> result.row.seq]
      <3>1. row.last \in Nat
        BY <2>4 DEF CounterRow
      <3>2. row = [prefix |-> row.prefix, width |-> row.width, last |-> row.last]
        BY <2>4 DEF CounterRow
      <3>3. QED
        BY <2>1, <2>4, <3>1, <3>2, AllocatedRow DEF Allocated, SamePolicy
    <2> HIDE DEF result
    <2>6. /\ newBindings'[s] = {result.row} /\ newRefs'[s] = {}
          /\ newCounters' = newCounters
      BY <1>2, <2>2 DEF Bind, row, result, IInv, TypeOK
    <2>7. QED
      BY <2>2, <2>3, <2>5, <2>6 DEF OneCall
  <1>3. QED
    BY <1>1, <1>2

LEMMA StepIsOneCall ==
  ASSUME IInv, AnswersInv, NEW s \in Sessions \ CallerTx, SessionStep(s)
  PROVE  OneCall(s)'
  <1>0. pc \in [Sessions -> {"idle", "returned"} \cup ReserveSteps \cup AllocateSteps]
    BY DEF IInv, TypeOK
  <1>1. ASSUME pc'[s] # "returned" PROVE OneCall(s)'
    BY <1>1 DEF OneCall
  <1>2. CASE \/ \E row \in Reservations : CallReserve(s, row)
             \/ \E r \in Requests : CallAllocate(s, r)
    BY <1>0, <1>1, <1>2 DEF CallReserve, CallAllocate
  <1>3. CASE InsertReference(s)
    <2>1. CASE \E row \in ReferencesOf(s) : row.ref = req[s].ref
      BY <1>3, <2>1, ReturnIsOneCall DEF InsertReference
    <2>2. CASE ~\E row \in ReferencesOf(s) : row.ref = req[s].ref
      <3>1. /\ newRefs[s] = {} /\ newBindings[s] = {}
            /\ \A k \in Keys : newCounters[s][k] = NoRow
        BY <1>3, WritesItsCounter DEF InsertReference, ReserveSteps
      <3>2. /\ newRefs'[s] = {req[s]} /\ req[s] \in ReferenceRow
            /\ UNCHANGED <<newCounters, newBindings>>
        BY <1>3, <2>2, <3>1
           DEF InsertReference, IInv, TypeOK, StepsTyped, ReserveSteps
      <3>3. QED
        BY <3>1, <3>2 DEF OneCall
    <2>3. QED
      BY <2>1, <2>2
  <1>4. CASE Replay(s)
    <2>1. CASE Goto(s, "seed")
      BY <1>0, <1>1, <2>1 DEF Goto
    <2>2. QED
      BY <1>4, <2>1, ReturnIsOneCall, RaiseIsOneCall DEF Replay
  <1>5. CASE Seed(s)
    BY <1>0, <1>1, <1>5 DEF Seed
  <1>6. CASE Lock(s)
    BY <1>0, <1>1, <1>6 DEF Lock, Raise
  <1>7. CASE Recheck(s)
    <2>1. CASE Goto(s, "advance")
      BY <1>0, <1>1, <2>1 DEF Goto
    <2>2. ASSUME NEW b \in Replays(s), Return(s, Allocated(req[s], b.seq))
          PROVE  OneCall(s)'
      BY <1>7, <2>2, ReturnIsOneCall DEF Recheck
    <2>3. QED
      BY <1>7, <2>1, <2>2 DEF Recheck
  <1>8. CASE Advance(s)
    <2>1. CASE Raise(s, "22003")
      BY <2>1, RaiseIsOneCall
    <2>2. CASE Move(s, seen[s])
      BY <1>0, <1>1, <2>2 DEF Move
    <2>3. QED
      BY <1>8, <2>1, <2>2 DEF Advance
  <1>9. CASE Bump(s)
    <2> DEFINE row == CounterOf(s, req[s].key)
    <2>1. CASE Raise(s, "22003")
      BY <2>1, RaiseIsOneCall
    <2>2. CASE Move(s, row)
      BY <1>0, <1>1, <2>2 DEF Move
    <2>3. QED
      BY <1>9, <2>1, <2>2 DEF Bump
  <1>10. CASE Confirm(s) \/ LoseReply(s)
    BY <1>0, <1>1, <1>10 DEF Confirm, LoseReply, Commit
  <1>11. CASE LoseConnection(s) \/ RollBack(s) \/ AbortDeadlock(s)
    BY <1>11, RaiseIsOneCall DEF LoseConnection, RollBack, AbortDeadlock
  <1>12. QED
    BY <1>2, <1>3, <1>4, <1>5, <1>6, <1>7, <1>8, <1>9, <1>10, <1>11,
       BindIsOneCall
       DEF SessionStep, Statement

LEMMA CallsStep == IInv /\ AnswersInv /\ CallsInv /\ [Next]_vars => CallsInv'
  <1> SUFFICES ASSUME IInv, AnswersInv, CallsInv, [Next]_vars PROVE CallsInv'
    OBVIOUS
  <1>1. ASSUME NEW s \in Sessions, SessionStep(s) PROVE CallsInv'
    <2>1. KeepsOthers(s)
      BY <1>1, StepKeepsOthers
    <2>2. \A t \in Sessions \ CallerTx : t # s => OneCall(t)'
      <3> SUFFICES ASSUME NEW t \in Sessions \ CallerTx, t # s PROVE OneCall(t)'
        OBVIOUS
      <3>1. OneCall(t)
        BY DEF CallsInv
      <3>2. /\ pc'[t] = pc[t] /\ newRefs'[t] = newRefs[t]
            /\ newCounters'[t] = newCounters[t] /\ newBindings'[t] = newBindings[t]
        BY <2>1 DEF KeepsOthers
      <3>3. QED
        BY <3>1, <3>2 DEF OneCall
    <2>3. s \notin CallerTx => OneCall(s)'
      BY <1>1, StepIsOneCall
    <2>4. QED
      BY <2>2, <2>3 DEF CallsInv
  <1>2. CASE (\E v \in Versions : Deploy(v)) \/ UNCHANGED vars
    <2>1. UNCHANGED <<pc, newRefs, newCounters, newBindings>>
      BY <1>2 DEF Deploy, vars, work
    <2>2. QED
      BY <2>1 DEF CallsInv, OneCall
  <1>3. QED
    BY <1>1, <1>2 DEF Next, SessionStep

-----------------------------------------------------------------------------
(* One call's step of the contract. *)

\* A reference is reserved.
LEMMA ImplementsReserve ==
  ASSUME ReferencesUnique, NEW row \in ReferenceRow,
         counters' = counters, bindings' = bindings,
         refs' = refs \cup {row}, \A other \in refs : other.ref # row.ref
  PROVE  Store!Next
  <1>1. row.ref \in References /\ <<row.ns, row.mid>> \in Namespaces \X MachineIds
    BY DEF ReferenceRow
  <1>2. PICK t, u : t = Now /\ u = Now'
    OBVIOUS
  <1>3. /\ Reserves(t, u, row)
        /\ \A a, b \in t.refs : a.ref = b.ref => a = b
    BY <1>2 DEF Reserves, Now, ReferencesUnique
  <1>4. Reserved(t, u, Keys, NoRow, row)
    BY <1>3, ReserveIs
  <1>5. /\ Owner(row.ref) = NoRow
        /\ \A r : Owner(r)' = IF r = row.ref THEN <<row.ns, row.mid>> ELSE Owner(r)
        /\ \A k \in Keys : Policy(k)' = Policy(k) /\ Issued(k)' = Issued(k)
    BY <1>2, <1>4, ContractViews DEF Reserved
  <1>6. Store!Reserve(row.ref, <<row.ns, row.mid>>)
    BY <1>1, <1>5 DEF Store!Reserve
  <1>7. QED
    BY <1>1, <1>6 DEF Store!Next

\* A counter gives out its next number.
LEMMA ImplementsAllocate ==
  ASSUME IInv, IInv', ReferencesUnique, ReferencesUnique',
         NEW new \in AllocationRow, refs' = refs,
         bindings' = bindings \cup {new},
         counters' = [counters EXCEPT ![new.key] =
           [prefix |-> new.prefix, width |-> new.width, last |-> new.seq]],
         new.seq = CountIn(Now, NoRow, new.key) + 1,
         PolicyIn(Now, NoRow, new.key) \in {NoRow, <<new.prefix, new.width>>}
  PROVE  Store!Next
  <1> DEFINE p == <<new.prefix, new.width>>
             k == new.key
             row == [prefix |-> new.prefix, width |-> new.width, last |-> new.seq]
  <1>1. /\ k \in Keys /\ new.mid \in MachineIds /\ new.seq \in Nat
        /\ new.prefix \in Prefixes /\ new.width \in ValidWidths
        /\ p \in Prefixes \X ValidWidths
    BY DEF AllocationRow
  <1>2. /\ counters \in [Keys -> CounterRow \cup {NoRow}]
        /\ \A l \in Keys : SoundCounter(l, counters[l], bindings)'
        /\ \A l, m \in Keys : OnePrefix(l, counters'[l], m, counters'[m])
    BY DEF IInv, TypeOK, SoundViews, SoundPrefixes, OnePrefix
  <1>3. counters'[k] = row /\ \A l \in Keys : l # k => counters'[l] = counters[l]
    BY <1>1, <1>2
  <1>4. row # NoRow
    BY <1>1, NoRowAssumption DEF CounterRow
  <1>5. PICK t, u : t = Now /\ u = Now'
    OBVIOUS
  <1>6. /\ Numbered(t, Keys, MachineIds, NoRow) /\ DOMAIN t.counters = Keys
        /\ new.key \in Keys
    BY <1>1, <1>2, <1>5, NowIsNumbered DEF Now
  <1>7. Numbered(u, Keys, MachineIds, NoRow)
    <2>1. (IInv /\ ReferencesUnique => Numbered(Now, Keys, MachineIds, NoRow))'
      BY NowIsNumbered, PTL
    <2>2. QED
      BY <1>5, <2>1
  <1>8. Allocates(t, u, NoRow, new)
    BY <1>3, <1>4, <1>5 DEF Allocates, Now
  <1>9. Appended(t, u, Keys, NoRow, new)
    BY <1>6, <1>7, <1>8, AllocateIs
  <1>10. /\ Policy(k) \in {NoRow, p}
         /\ \A n \in 1..Len(Issued(k)) : Issued(k)[n] # new.mid
         /\ Len(Issued(k)) + 1 = new.seq
         /\ \A l \in Keys : Policy(l)' = IF l = k THEN p ELSE Policy(l)
         /\ \A l \in Keys :
              Issued(l)' = IF l = k THEN Append(Issued(l), new.mid) ELSE Issued(l)
         /\ \A r : Owner(r)' = Owner(r)
    BY <1>1, <1>5, <1>9, ContractViews DEF Appended
  <1>11. Len(Issued(k)) \in Nat
    BY <1>5, <1>6, IssuedIsLog, ContractViews
  <1>12. new.seq <= Capacity[new.width]
    BY <1>1, <1>2, <1>3, <1>4 DEF SoundCounter
  <1>13. Len(Issued(k)) < Capacity[new.width]
    BY <1>1, <1>10, <1>11, <1>12, WidthsAssumption
  <1>14. ASSUME NEW l \in Keys, l # k, Policy(l) # NoRow,
                k[2] = l[2], p[1] = Policy(l)[1]
         PROVE  FALSE
    <2>1. counters[l] # NoRow /\ counters[l].prefix = new.prefix
      BY <1>14 DEF Policy
    <2>2. /\ counters'[l] # NoRow /\ counters'[l].prefix = new.prefix
          /\ counters'[k] # NoRow /\ counters'[k].prefix = new.prefix
      BY <1>3, <1>4, <1>14, <2>1
    <2>3. QED
      BY <1>1, <1>2, <1>14, <2>2 DEF OnePrefix
  <1> HIDE DEF p, k
  <1>15. Store!Allocate(k, new.mid, p)
    <2>1. [q \in Prefixes \X ValidWidths |-> Capacity[q[2]]][p] = Capacity[new.width]
      BY <1>1 DEF p
    <2>2. [l \in Keys |-> Policy(l)'] = [[l \in Keys |-> Policy(l)] EXCEPT ![k] = p]
      BY <1>1, <1>10
    <2>3. [l \in Keys |-> Issued(l)'] =
            [[l \in Keys |-> Issued(l)] EXCEPT ![k] = Append(@, new.mid)]
      BY <1>1, <1>10
    <2>4. ~Store!Numbered(new.mid, k)
      BY <1>1, <1>10 DEF Store!Numbered
    <2>5. QED
      BY <1>1, <1>10, <1>13, <1>14, <2>1, <2>2, <2>3, <2>4 DEF Store!Allocate
  <1>16. QED
    BY <1>1, <1>15 DEF Store!Next

\* A committed number is the next one of its counter, or was committed before.
LEMMA NextNumber ==
  ASSUME IInv, ReferencesUnique, NEW s \in Sessions, NEW new \in AllocationRow,
         pc[s] = "returned", newBindings[s] = {new}, new \notin bindings,
         newCounters[s][new.key] =
           [prefix |-> new.prefix, width |-> new.width, last |-> new.seq]
  PROVE  /\ new.seq = CountIn(Now, NoRow, new.key) + 1
         /\ PolicyIn(Now, NoRow, new.key) \in {NoRow, <<new.prefix, new.width>>}
  <1> DEFINE k == new.key
             row == newCounters[s][k]
             count == CountIn(Now, NoRow, k)
  <1>1. k \in Keys /\ new.seq \in Nat /\ row.last = new.seq /\ row # NoRow
    <2>1. /\ new.key \in Keys /\ new.seq \in Nat
          /\ new.prefix \in Prefixes /\ new.width \in ValidWidths
      BY DEF AllocationRow
    <2>2. row \in CounterRow
      BY <2>1 DEF CounterRow
    <2>3. QED
      BY <2>1, <2>2, NoRowAssumption
  <1>2. /\ count \in Nat
        /\ \A b \in bindings : b.key = k => b.seq \in 1..count
        /\ \A n \in 1..count : \E b \in bindings : b.key = k /\ b.seq = n
    BY <1>1, NowIsNumbered DEF Numbered, Now
  <1>3. SoundCounter(k, row, bindings \cup {new})
    BY <1>1 DEF IInv, SoundViews, BoundOf, CounterOf, BindingsOf
  <1>4. PolicyIn(Now, NoRow, k) \in {NoRow, <<new.prefix, new.width>>}
    BY <1>1 DEF IInv, WritesUnderLock, PolicyIn, Now, SamePolicy
  <1> HIDE DEF count, k, row
  <1>5. new.key = k
    BY DEF k
  <1>6. /\ new.seq \in 1..new.seq
        /\ \A n \in 1..new.seq :
             \E b \in bindings \cup {new} : b.key = k /\ b.seq = n
        /\ \A b \in bindings : b.key = k => b.seq # new.seq
    BY <1>1, <1>3, <1>5 DEF SoundCounter
  <1>7. new.seq \notin 1..count
    BY <1>2, <1>6
  <1>8. count + 1 \notin 1..new.seq \/ count + 1 = new.seq
    BY <1>2, <1>6
  <1>9. new.seq = count + 1
    BY <1>1, <1>2, <1>6, <1>7, <1>8
  <1>10. QED
    BY <1>4, <1>9 DEF count, k

\* A commit of one call is a step of the contract, or changes nothing.
LEMMA CommitIsOneStep ==
  ASSUME IInv, IInv', AnswersInv, CallsInv, ReferencesUnique, ReferencesUnique',
         NEW s \in Sessions \ CallerTx, pc[s] = "returned", Publishes(s)
  PROVE  Store!Next \/ UNCHANGED tables
  <1>1. counters \in [Keys -> CounterRow \cup {NoRow}]
    BY DEF IInv, TypeOK
  <1>2. OneCall(s)
    BY DEF CallsInv
  <1>3. CASE /\ newBindings[s] = {} /\ \A k \in Keys : newCounters[s][k] = NoRow
             /\ newRefs[s] = {} \/ \E row \in newRefs[s] : newRefs[s] = {row}
    <2>1. counters' = counters /\ bindings' = bindings
      BY <1>1, <1>3 DEF Publishes, CounterOf
    <2>2. CASE newRefs[s] = {}
      BY <2>1, <2>2 DEF Publishes, tables
    <2>3. ASSUME NEW row \in newRefs[s], newRefs[s] = {row} PROVE Store!Next
      <3>1. row \in ReferenceRow /\ \A other \in refs : other.ref # row.ref
        BY <2>3 DEF AnswersInv, AnswerInv, FreshWins, IInv, TypeOK
      <3>2. QED
        BY <2>1, <2>3, <3>1, ImplementsReserve DEF Publishes
    <2>4. QED
      BY <1>3, <2>2, <2>3
  <1>4. ASSUME newRefs[s] = {}, NEW new \in newBindings[s], newBindings[s] = {new},
               newCounters[s][new.key] =
                 [prefix |-> new.prefix, width |-> new.width, last |-> new.seq],
               \A k \in Keys : k # new.key => newCounters[s][k] = NoRow
        PROVE  Store!Next \/ UNCHANGED tables
    <2> DEFINE row == [prefix |-> new.prefix, width |-> new.width, last |-> new.seq]
    <2>0. new \in AllocationRow
      BY DEF IInv, TypeOK
    <2>1. /\ new.key \in Keys /\ new.seq \in Nat /\ row \in CounterRow
          /\ row # NoRow /\ row.last = new.seq /\ SamePolicy(row, new)
      BY <2>0, NoRowAssumption DEF AllocationRow, CounterRow, SamePolicy
    <2>2. newCounters[s][new.key] = row
      BY <1>4
    <2> HIDE DEF row
    <2>3. counters' = [counters EXCEPT ![new.key] = row]
      BY <1>1, <1>4, <2>1, <2>2 DEF Publishes, CounterOf
    <2>4. refs' = refs /\ bindings' = bindings \cup {new}
      BY <1>4 DEF Publishes
    <2>5. CASE new \notin bindings
      <3>1. /\ new.seq = CountIn(Now, NoRow, new.key) + 1
            /\ PolicyIn(Now, NoRow, new.key) \in {NoRow, <<new.prefix, new.width>>}
        BY <1>4, <2>0, <2>5, NextNumber
      <3>2. QED
        BY <2>0, <2>3, <2>4, <3>1, ImplementsAllocate DEF row
    <2>6. CASE new \in bindings
      <3> DEFINE k == new.key
      <3>1. SoundCounter(k, counters[k], bindings)
        BY <2>1 DEF IInv, SoundViews
      <3>2. counters[k] # NoRow
        BY <2>6, <3>1 DEF SoundCounter
      <3>3. counters[k] \in CounterRow
        BY <1>1, <2>1, <3>2
      <3>4. SamePolicy(row, counters[k]) /\ counters[k].last <= row.last
        BY <2>1, <2>2, <3>2 DEF IInv, WritesUnderLock
      <3>5. new.seq \in 1..counters[k].last
        BY <2>6, <3>1, <3>2 DEF SoundCounter
      <3>6. counters[k].last = row.last
        BY <2>1, <3>3, <3>4, <3>5 DEF CounterRow
      <3>7. counters[k] = row
        BY <2>1, <3>3, <3>4, <3>6 DEF CounterRow, SamePolicy
      <3>8. QED
        BY <1>1, <2>1, <2>3, <2>4, <2>6, <3>7 DEF tables
    <2>7. QED
      BY <2>5, <2>6
  <1>5. QED
    BY <1>2, <1>3, <1>4 DEF OneCall

LEMMA OnlyCommitsMove ==
  ASSUME [Next]_vars, ~UNCHANGED tables
  PROVE  \E s \in Sessions : pc[s] = "returned" /\ Publishes(s)
  <1>1. ASSUME NEW s \in Sessions, Statement(s) PROVE UNCHANGED tables
    BY <1>1
       DEF Statement, InsertReference, Replay, Seed, Lock, Recheck, Advance,
           Bump, Bind, Move, Return, Raise, Goto
  <1>2. ASSUME NEW s \in Sessions,
               LoseConnection(s) \/ RollBack(s) \/ AbortDeadlock(s)
        PROVE  UNCHANGED tables
    BY <1>2 DEF LoseConnection, RollBack, AbortDeadlock, Raise
  <1>3. ASSUME NEW s \in Sessions, Confirm(s) \/ LoseReply(s)
        PROVE  pc[s] = "returned" /\ Publishes(s)
    BY <1>3 DEF Confirm, LoseReply, Commit, Publishes
  <1>4. ~UNCHANGED vars
    BY DEF vars, tables
  <1>5. QED
    BY <1>1, <1>2, <1>3, <1>4 DEF Next, CallReserve, CallAllocate, Deploy

\* When no caller keeps a transaction open, every step of every interleaving
\* reserves one free reference, gives one new MID the next number of one
\* counter, or changes nothing.
THEOREM ImplementsContractHolds ==
  ASSUME CallerTx = {}
  PROVE  Spec => ImplementsContract
  <1>1. Init => ReferencesUnique /\ CallsInv
    BY DEF Init, ReferencesUnique, CallsInv, OneCall
  <1>2. ASSUME IInv, IInv', AnswersInv, CallsInv, ReferencesUnique, ReferencesUnique',
               [Next]_vars
        PROVE  [Store!Next]_(Store!vars)
    <2>1. CASE UNCHANGED tables
      BY <2>1 DEF tables, Store!vars, Owner, Policy, Issued
    <2>2. CASE ~UNCHANGED tables
      <3>1. PICK s \in Sessions : pc[s] = "returned" /\ Publishes(s)
        BY <1>2, <2>2, OnlyCommitsMove
      <3>2. QED
        BY <1>2, <2>2, <3>1, CommitIsOneStep
    <2>3. QED
      BY <2>1, <2>2
  <1>3. QED
    BY <1>1, <1>2, ContractInit, ReferencesStayUnique, CallsStep, AnswersInvariant, PTL
       DEF Spec, ImplementsContract, Store!Spec
=============================================================================
