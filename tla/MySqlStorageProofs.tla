-------------------------- MODULE MySqlStorageProofs --------------------------
(***************************************************************************)
(* What MySqlStorage guarantees for every number of connections, with any  *)
(* mix of ports, and for every number of counters, MIDs, references and    *)
(* widths.                                                                 *)
(***************************************************************************)
EXTENDS MySqlStorage, ContractLemmas

-----------------------------------------------------------------------------
(* The inductive invariant. *)

\* Calls that have found no binding, and those that have locked their counter.
Looked == {"seed", "advance", "bind", "commit"}
Locking == {"advance", "bind", "commit"}

CounterRows == UNION {[D -> CounterRow \cup {NoRow}] : D \in SUBSET Keys}

Rows == [refs : SUBSET ReferenceRow, counters : CounterRows,
         bindings : SUBSET AllocationRow]

\* A call in progress was asked for something valid, and so was a refusal.
CallTyped(c) ==
  /\ pc[c] # "idle" => req[c] \in AllocationRequest /\ req[c].width \in ValidWidths
  /\ answer[c] \in Codes => req[c] \in AllocationRequest

TypeInv ==
  /\ refs \subseteq ReferenceRow /\ bindings \subseteq AllocationRow
  /\ counters \in [Keys -> CounterRow \cup {NoRow}]
  /\ written \in [Connections -> Rows]
  /\ pc \in [Connections -> Steps \cup {"idle"}]
  /\ req \in [Connections -> AllocationRequest \cup {NoRow}]
  /\ attempt \in [Connections -> 1..MaxAttempts]
  /\ answer \in [Connections -> Codes \cup {"ok", "lost"}]
  /\ results \in [Connections -> SUBSET Results]
  /\ begun \subseteq CallerTx
  /\ acked \subseteq Results
  /\ \A c \in Connections : CallTyped(c)

\* A call runs in its own transaction; answers are held back only in a caller's.
TransactionsInv ==
  \A c \in Connections :
    /\ pc[c] # "idle" => c \notin begun
    /\ results[c] # {} => c \in begun

\* Two requests lock the same counter, or the same prefix.
Overlap(r, s) ==
  r.key = s.key \/ (r.key[2] = s.key[2] /\ r.prefix = s.prefix)

LocksInv ==
  \A c, d \in Connections : c # d =>
    /\ pc[c] \in Locking /\ pc[d] \in Locking => ~Overlap(req[c], req[d])
    /\ pc[c] = "commit" /\ pc[d] \in Looked =>
         req[c].key # req[d].key \/ req[c].mid # req[d].mid

\* References are unique, committed or not.
RefsInv ==
  /\ \A a, b \in refs : a.ref = b.ref => a = b
  /\ \A c \in Connections :
       /\ \A a, b \in written[c].refs : a.ref = b.ref => a = b
       /\ \A a \in written[c].refs, b \in refs : a.ref # b.ref
       /\ \A d \in Connections : c # d =>
            \A a \in written[c].refs, b \in written[d].refs : a.ref # b.ref

\* No other counter has the prefix and scope of a request.
Alone(r) ==
  \A k \in Keys :
    (counters[k] # NoRow /\ k # r.key /\ k[2] = r.key[2]) => counters[k].prefix # r.prefix

CounterWith(r, n) == [prefix |-> r.prefix, width |-> r.width, last |-> n]

\* The number a request is given.
NextOf(k) == IF counters[k] = NoRow THEN 1 ELSE counters[k].last + 1

NoCounters == Nothing.counters

\* What a call has written, relative to the committed tables.
CallFits(c) ==
  LET r == req[c]
      w == written[c]
  IN
  /\ pc[c] \notin Locking => w.counters = NoCounters
  /\ pc[c] # "commit" => w.bindings = {}
  /\ pc[c] \in Looked => Replays(r) = {}
  /\ pc[c] = "advance" =>
       IF counters[r.key] = NoRow
       THEN w.counters = Row(r.key, CounterWith(r, 0)) /\ Alone(r)
       ELSE w.counters = NoCounters
  /\ pc[c] \in {"bind", "commit"} =>
       /\ IF counters[r.key] = NoRow THEN Alone(r) ELSE SamePolicy(counters[r.key], r)
       /\ NextOf(r.key) <= Capacity[r.width]
       /\ w.counters = Row(r.key, CounterWith(r, NextOf(r.key)))
  /\ pc[c] = "commit" => w.bindings = {Binding(r, NextOf(r.key))}

\* A committed counter has counted at least one number.
TablesInv ==
  /\ StoreIsSound
  /\ \A k \in Keys : counters[k] # NoRow => counters[k].last >= 1
  /\ \A c \in Connections : CallFits(c)

IInv ==
  /\ TypeInv /\ TransactionsInv /\ LocksInv /\ RefsInv /\ TablesInv
  /\ RefusalIsFinal

\* What was answered in a transaction is in its tables.
Held(c, a) ==
  \/ Stored(a)
  \/ a.kind = "won" /\ a.row \in written[c].refs
  \/ a.kind = "refused" /\ \E row \in written[c].refs : row.ref = a.ref

AnswersInv ==
  /\ AckedIsStored
  /\ \A c \in Connections :
       /\ \A a \in results[c] : Held(c, a)
       /\ c \notin begun => written[c].refs = {}

-----------------------------------------------------------------------------
(* Lemmas about rows. *)

LEMMA NoCountersIs == NoCounters = [k \in {} |-> NoRow]
  BY DEF NoCounters, Nothing

LEMMA CounterRowsAre ==
  ASSUME NEW f
  PROVE  f \in CounterRows <=>
           \E D \in SUBSET Keys : f \in [D -> CounterRow \cup {NoRow}]
  BY DEF CounterRows

LEMMA NothingIsRows == Nothing \in Rows
  <1>1. NoCounters \in CounterRows
    <2>1. NoCounters \in [{} -> CounterRow \cup {NoRow}]
      BY NoCountersIs
    <2>2. QED
      BY <2>1, CounterRowsAre
  <1>2. QED
    BY <1>1 DEF Rows, NoCounters, Nothing

LEMMA RowIsRows ==
  ASSUME NEW k \in Keys, NEW row \in CounterRow
  PROVE  Row(k, row) \in CounterRows
  <1>1. {k} \in SUBSET Keys /\ Row(k, row) \in [{k} -> CounterRow \cup {NoRow}]
    BY DEF Row
  <1>2. QED
    BY <1>1, CounterRowsAre

\* No rows change nothing.
LEMMA OverNothing ==
  ASSUME NEW D, NEW S, NEW g \in [D -> S]
  PROVE  Over(NoCounters, g) = g
  BY NoCountersIs DEF Over

\* One row over no other, itself, or all counters.
LEMMA RowOverNothing ==
  ASSUME NEW k, NEW row
  PROVE  Over(Row(k, row), NoCounters) = Row(k, row)
  BY NoCountersIs DEF Over, Row

LEMMA RowOverRow ==
  ASSUME NEW k, NEW row, NEW other
  PROVE  Over(Row(k, row), Row(k, other)) = Row(k, row)
  BY DEF Over, Row

LEMMA RowOverCounters ==
  ASSUME NEW S, NEW g \in [Keys -> S], NEW k \in Keys, NEW row
  PROVE  Over(Row(k, row), g) = [g EXCEPT ![k] = row]
  BY DEF Over, Row

\* What a connection sees of its counter.
LEMMA SeesCommitted ==
  ASSUME NEW c, written[c].counters = NoCounters
  PROVE  \A k : CounterOf(c, k) = counters[k]
  BY NoCountersIs DEF CounterOf

LEMMA SeesItsOwn ==
  ASSUME NEW c, NEW k, NEW row, written[c].counters = Row(k, row)
  PROVE  CounterOf(c, k) = row
  BY DEF CounterOf, Row

-----------------------------------------------------------------------------
(* The kinds of steps: what the actions of a connection come to. *)

\* Nothing of another connection changes.
Elsewhere(c) ==
  \A d \in Connections \ {c} :
    /\ pc'[d] = pc[d] /\ req'[d] = req[d] /\ written'[d] = written[d]
    /\ attempt'[d] = attempt[d] /\ answer'[d] = answer[d]
    /\ results'[d] = results[d] /\ (d \in begun' <=> d \in begun)

\* A transaction ends, or none is open; its references are committed or not.
Ends(c) ==
  /\ UNCHANGED <<counters, bindings>>
  /\ pc'[c] \in {"idle", "replay"}
  /\ \/ written'[c] = Nothing /\ refs' \in {refs, refs \cup written[c].refs}
     \/ pc[c] = "idle" /\ written'[c] = written[c] /\ refs' = refs

\* A reference nobody has is inserted, or nothing is.
Inserts(c) ==
  /\ UNCHANGED <<counters, bindings, pc, req>>
  /\ \/ UNCHANGED <<refs, written>>
     \/ \E row \in ReferenceRow :
          /\ \A other \in refs \cup written[c].refs : other.ref # row.ref
          /\ \A d \in Others(c) : \A other \in written[d].refs : other.ref # row.ref
          /\ \/ /\ written'[c] = [written[c] EXCEPT !.refs = @ \cup {row}]
                /\ refs' = refs
             \/ written' = written /\ refs' = refs \cup {row}

\* The four statements of an allocation that find what they need.
Looks(c) ==
  /\ pc[c] = "replay" /\ pc'[c] = "seed" /\ ~WaitsToReplay(c)
  /\ Replays(req[c]) = {}
  /\ written'[c] = written[c] /\ UNCHANGED <<tables, req>>

Locks(c) ==
  LET r == req[c] IN
  /\ pc[c] = "seed" /\ pc'[c] = "advance" /\ ~WaitsToSeed(c)
  /\ IF counters[r.key] = NoRow
     THEN /\ Alone(r)
          /\ written'[c] = [written[c] EXCEPT !.counters = Row(r.key, CounterWith(r, 0))]
     ELSE written'[c] = written[c]
  /\ UNCHANGED <<tables, req>>

Counts(c) ==
  LET r == req[c] IN
  /\ pc[c] = "advance" /\ pc'[c] = "bind"
  /\ counters[r.key] # NoRow => SamePolicy(counters[r.key], r)
  /\ NextOf(r.key) <= Capacity[r.width]
  /\ written'[c] =
       [written[c] EXCEPT !.counters = Row(r.key, CounterWith(r, NextOf(r.key)))]
  /\ UNCHANGED <<tables, req>>

Binds(c) ==
  LET r == req[c] IN
  /\ pc[c] = "bind" /\ pc'[c] = "commit" /\ ~WaitsToBind(c)
  /\ written'[c] = [written[c] EXCEPT !.bindings = {Binding(r, NextOf(r.key))}]
  /\ UNCHANGED <<tables, req>>

\* A number is committed.
Finishes(c) ==
  LET r == req[c] IN
  /\ pc[c] = "commit" /\ pc'[c] = "idle" /\ req'[c] = r
  /\ counters' = [counters EXCEPT ![r.key] = CounterWith(r, NextOf(r.key))]
  /\ bindings' = bindings \cup {Binding(r, NextOf(r.key))}
  /\ refs' = refs \cup written[c].refs
  /\ written'[c] = Nothing

Moves(c) ==
  /\ Elsewhere(c)
  /\ \/ Ends(c) \/ Inserts(c)
     \/ Looks(c) \/ Locks(c) \/ Counts(c) \/ Binds(c) \/ Finishes(c)

LEMMA Typed ==
  ASSUME TypeInv, NEW c \in Connections
  PROVE  /\ written[c] \in Rows
         /\ written[c].refs \subseteq ReferenceRow
         /\ written[c].bindings \subseteq AllocationRow
         /\ DOMAIN pc = Connections /\ DOMAIN written = Connections
         /\ pc[c] \in Steps \cup {"idle"}
         /\ req[c] \in AllocationRequest \cup {NoRow}
         /\ attempt[c] \in 1..MaxAttempts
         /\ answer[c] \in Codes \cup {"ok", "lost"}
         /\ results[c] \subseteq Results
         /\ CallTyped(c)
  BY DEF TypeInv, Rows

LEMMA GotoMoves ==
  ASSUME TypeInv, NEW c \in Connections, NEW step, Goto(c, step)
  PROVE  pc'[c] = step /\ \A d \in Connections \ {c} : pc'[d] = pc[d]
  BY DEF Goto, TypeInv

\* The rows of a transaction that allocates nothing.
LEMMA CommitNothing ==
  ASSUME TypeInv, NEW c \in Connections, Commit(c),
         written[c].counters = NoCounters, written[c].bindings = {}
  PROVE  /\ UNCHANGED <<counters, bindings>>
         /\ refs' = refs \cup written[c].refs
         /\ written'[c] = Nothing
  <1>1. counters \in [Keys -> CounterRow \cup {NoRow}] /\ DOMAIN written = Connections
    BY DEF TypeInv
  <1>2. counters' = Over(NoCounters, counters)
    BY DEF Commit
  <1>3. counters' = counters
    BY <1>1, <1>2, OverNothing
  <1>4. QED
    BY <1>1, <1>3 DEF Commit

LEMMA OthersKeep ==
  ASSUME TypeInv, NEW c \in Connections, Commit(c) \/ Rollback(c)
  PROVE  /\ \A d \in Connections \ {c} :
              /\ written'[d] = written[d] /\ results'[d] = results[d]
              /\ d \in begun' <=> d \in begun
         /\ written'[c] = Nothing /\ results'[c] = {} /\ c \notin begun'
  BY DEF Commit, Rollback, TypeInv

\* Whatever a call fails with, its transaction ends.
LEMMA FailMoves ==
  ASSUME TypeInv, NEW c \in Connections, NEW code, Fail(c, code)
  PROVE  Moves(c)
  <1>1. /\ Rollback(c) /\ UNCHANGED <<req, attempt>> /\ Goto(c, "idle")
        /\ answer' = [answer EXCEPT ![c] = code]
    BY DEF Fail, End
  <1>2. \A d \in Connections \ {c} : answer'[d] = answer[d]
    BY <1>1 DEF TypeInv
  <1>3. Elsewhere(c)
    BY <1>1, <1>2, GotoMoves, OthersKeep DEF Elsewhere
  <1>4. Ends(c)
    BY <1>1, GotoMoves, OthersKeep DEF Ends, Rollback, tables
  <1>5. QED
    BY <1>3, <1>4 DEF Moves

LEMMA ProceedMoves ==
  ASSUME TypeInv, NEW c \in Connections, NEW step, NEW rows, Proceed(c, step, rows)
  PROVE  /\ Elsewhere(c) /\ UNCHANGED <<tables, refs, counters, bindings, req>>
         /\ pc'[c] = step /\ written'[c] = rows
  BY GotoMoves DEF Proceed, Elsewhere, TypeInv, tables
\* The application's own steps, and lost connections.
LEMMA CallerMoves ==
  ASSUME IInv, NEW c \in Connections,
         CallerBegin(c) \/ CallerCommit(c) \/ CallerRollback(c) \/ Disconnect(c)
  PROVE  Moves(c)
  <1>1. TypeInv /\ CallFits(c)
    BY DEF IInv, TablesInv
  <1>2. CASE CallerBegin(c)
    <2>1. /\ Elsewhere(c) /\ pc'[c] = "idle"
          /\ UNCHANGED <<refs, counters, bindings, written>>
      BY <1>2 DEF CallerBegin, Elsewhere, call, tables
    <2>2. QED
      BY <1>2, <2>1 DEF Moves, Ends, CallerBegin
  <1>3. CASE CallerCommit(c)
    <2>1. pc[c] = "idle" /\ Commit(c) /\ UNCHANGED <<pc, req, attempt, answer>>
      BY <1>3 DEF CallerCommit, call
    <2>2. written[c].counters = NoCounters /\ written[c].bindings = {}
      BY <1>1, <2>1 DEF CallFits, Locking
    <2>3. Elsewhere(c)
      BY <1>1, <2>1, OthersKeep DEF Elsewhere
    <2>4. Ends(c)
      BY <1>1, <2>1, <2>2, CommitNothing DEF Ends
    <2>5. QED
      BY <2>3, <2>4 DEF Moves
  <1>4. CASE CallerRollback(c)
    <2>1. pc[c] = "idle" /\ Rollback(c) /\ UNCHANGED <<pc, req, attempt, answer>>
      BY <1>4 DEF CallerRollback, call
    <2>2. Elsewhere(c)
      BY <1>1, <2>1, OthersKeep DEF Elsewhere
    <2>3. Ends(c)
      BY <1>1, <2>1, OthersKeep DEF Ends, Rollback, tables
    <2>4. QED
      BY <2>2, <2>3 DEF Moves
  <1>5. CASE Disconnect(c)
    BY <1>1, <1>5, FailMoves DEF Disconnect
  <1>6. QED
    BY <1>2, <1>3, <1>4, <1>5

LEMMA ReserveMoves ==
  ASSUME IInv, NEW c \in Connections, NEW row \in Reservations, Reserve(c, row)
  PROVE  Moves(c)
  <1> DEFINE won == \A other \in refs \cup written[c].refs : other.ref # row.ref
             new == IF won THEN {row} ELSE {}
  <1>1. TypeInv /\ row \in ReferenceRow
    BY CallsAssumption DEF IInv
  <1>2. /\ IF InTransaction(c)
           THEN written' = [written EXCEPT ![c].refs = @ \cup new] /\ UNCHANGED refs
           ELSE refs' = refs \cup new /\ UNCHANGED written
        /\ UNCHANGED <<counters, bindings, begun, pc, req, attempt, answer>>
        /\ ~WaitsToReserve(c, row)
    BY DEF Reserve, call
  <1>3. \A d \in Connections \ {c} : results'[d] = results[d]
    BY <1>1 DEF Reserve, Told, TypeInv
  <1>4. \A d \in Connections \ {c} : written'[d] = written[d]
    BY <1>1, <1>2 DEF TypeInv
  <1>5. Elsewhere(c)
    BY <1>2, <1>3, <1>4 DEF Elsewhere
  <1>6. Inserts(c)
    <2>1. CASE ~won
      <3>1. new = {}
        BY <2>1
      <3>2. written' = written
        <4>1. written \in [Connections -> Rows] /\ written[c] \in Rows
          BY <1>1 DEF TypeInv
        <4>2. [written[c] EXCEPT !.refs = @ \cup {}] = written[c]
          BY <4>1 DEF Rows
        <4>3. QED
          BY <1>2, <3>1, <4>1, <4>2
      <3>3. refs' = refs
        BY <1>2, <3>1
      <3>4. QED
        BY <1>2, <3>2, <3>3 DEF Inserts
    <2>2. CASE won
      <3>1. new = {row}
        BY <2>2
      <3>2. CASE InTransaction(c)
        <4>1. written'[c] = [written[c] EXCEPT !.refs = @ \cup {row}] /\ refs' = refs
          BY <1>1, <1>2, <3>1, <3>2 DEF TypeInv
        <4>2. QED
          BY <1>1, <1>2, <2>2, <4>1 DEF Inserts, WaitsToReserve
      <3>3. CASE ~InTransaction(c)
        <4>1. written' = written /\ refs' = refs \cup {row}
          BY <1>2, <3>1, <3>3
        <4>2. QED
          BY <1>1, <1>2, <2>2, <4>1 DEF Inserts, WaitsToReserve
      <3>4. QED
        BY <3>2, <3>3
    <2>3. QED
      BY <2>1, <2>2
  <1>7. QED
    BY <1>5, <1>6 DEF Moves

LEMMA CallAllocateMoves ==
  ASSUME IInv, NEW c \in Connections, NEW r \in Requests, CallAllocate(c, r)
  PROVE  Moves(c)
  <1>1. TypeInv /\ CallFits(c)
    BY DEF IInv, TablesInv
  <1>2. /\ pc[c] = "idle" /\ req' = [req EXCEPT ![c] = r]
        /\ attempt' = [attempt EXCEPT ![c] = 1]
    BY DEF CallAllocate
  <1>3. \A d \in Connections \ {c} : req'[d] = req[d] /\ attempt'[d] = attempt[d]
    BY <1>1, <1>2 DEF TypeInv
  <1>4. written[c].counters = NoCounters /\ written[c].bindings = {}
    BY <1>1, <1>2 DEF CallFits, Locking
  <1>5. CASE Commit(c) /\ Goto(c, "replay") /\ answer' = [answer EXCEPT ![c] = "ok"]
    <2>1. \A d \in Connections \ {c} : answer'[d] = answer[d]
      BY <1>1, <1>5 DEF TypeInv
    <2>2. Elsewhere(c)
      BY <1>1, <1>3, <1>5, <2>1, GotoMoves, OthersKeep DEF Elsewhere
    <2>3. Ends(c)
      BY <1>1, <1>4, <1>5, GotoMoves, CommitNothing DEF Ends
    <2>4. QED
      BY <2>2, <2>3 DEF Moves
  <1>6. CASE /\ End(c, "invalid_allocation_policy")
             /\ UNCHANGED <<tables, written, begun, results>>
    <2>1. \A d \in Connections \ {c} : answer'[d] = answer[d]
      BY <1>1, <1>6 DEF End, TypeInv
    <2>2. Elsewhere(c)
      BY <1>1, <1>3, <1>6, <2>1, GotoMoves DEF End, Elsewhere
    <2>3. Ends(c)
      BY <1>1, <1>2, <1>6, GotoMoves DEF End, Ends, tables
    <2>4. QED
      BY <2>2, <2>3 DEF Moves
  <1>7. CASE Rollback(c) /\ End(c, "invalid_allocation_policy")
    <2>1. \A d \in Connections \ {c} : answer'[d] = answer[d]
      BY <1>1, <1>7 DEF End, TypeInv
    <2>2. Elsewhere(c)
      BY <1>1, <1>3, <1>7, <2>1, GotoMoves, OthersKeep DEF End, Elsewhere
    <2>3. Ends(c)
      BY <1>1, <1>7, GotoMoves, OthersKeep DEF End, Ends, Rollback, tables
    <2>4. QED
      BY <2>2, <2>3 DEF Moves
  <1>8. QED
    BY <1>5, <1>6, <1>7 DEF CallAllocate
LEMMA ReturnKeeps ==
  ASSUME TypeInv, NEW c \in Connections, NEW row, Return(c, row)
  PROVE  Elsewhere(c) /\ pc'[c] = "idle" /\ req' = req /\ Commit(c)
  <1>1. /\ Commit(c) /\ UNCHANGED <<req, attempt>> /\ Goto(c, "idle")
        /\ \E code : answer' = [answer EXCEPT ![c] = code]
    BY DEF Return, End
  <1>2. \A d \in Connections \ {c} : answer'[d] = answer[d]
    BY <1>1 DEF TypeInv
  <1>3. QED
    BY <1>1, <1>2, GotoMoves, OthersKeep DEF Elsewhere

LEMMA ReplayMoves ==
  ASSUME IInv, NEW c \in Connections, Replay(c)
  PROVE  Moves(c)
  <1>1. TypeInv /\ CallFits(c) /\ pc[c] = "replay" /\ ~WaitsToReplay(c)
    BY DEF IInv, TablesInv, Replay
  <1>2. CASE Replays(req[c]) = {} /\ Proceed(c, "seed", written[c])
    <2>1. Looks(c) /\ Elsewhere(c)
      BY <1>1, <1>2, ProceedMoves DEF Looks, tables
    <2>2. QED
      BY <2>1 DEF Moves
  <1>3. ASSUME NEW b, Return(c, b) PROVE Moves(c)
    <2>1. Elsewhere(c) /\ pc'[c] = "idle" /\ Commit(c)
      BY <1>1, <1>3, ReturnKeeps
    <2>2. written[c].counters = NoCounters /\ written[c].bindings = {}
      BY <1>1 DEF CallFits, Locking
    <2>3. Ends(c)
      BY <1>1, <2>1, <2>2, CommitNothing DEF Ends
    <2>4. QED
      BY <2>1, <2>3 DEF Moves
  <1>4. ASSUME NEW code, Fail(c, code) PROVE Moves(c)
    BY <1>1, <1>4, FailMoves
  <1>5. QED
    BY <1>2, <1>3, <1>4 DEF Replay

\* A committed counter has a binding, whose foreign key keeps the counter.
LEMMA CountersAreReferenced ==
  ASSUME TablesInv, TypeInv, NEW k \in Keys, counters[k] # NoRow
  PROVE  Referenced(k)
  <1>1. {b.seq : b \in {x \in bindings : x.key = k}} = 1..counters[k].last
    BY DEF TablesInv, StoreIsSound
  <1>2. counters[k].last >= 1 /\ counters[k].last \in Nat
    BY DEF TablesInv, TypeInv, CounterRow
  <1>3. 1 \in {b.seq : b \in {x \in bindings : x.key = k}}
    BY <1>1, <1>2
  <1>4. QED
    BY <1>3 DEF Referenced

LEMMA SeedMoves ==
  ASSUME IInv, NEW c \in Connections, Seed(c)
  PROVE  Moves(c)
  <1> DEFINE r == req[c]
             new == [prefix |-> r.prefix, width |-> r.width, last |-> 0]
             with(rows) == [written[c] EXCEPT !.counters = Over(rows, @)]
  <1>1. /\ TypeInv /\ TablesInv /\ CallFits(c) /\ pc[c] = "seed" /\ ~WaitsToSeed(c)
        /\ r \in AllocationRequest /\ r.key \in Keys
    BY DEF IInv, TablesInv, Seed, TypeInv, CallTyped, AllocationRequest
  <1>2. written[c].counters = NoCounters
    BY <1>1 DEF CallFits, Locking
  <1>3. \A k : CounterOf(c, k) = counters[k]
    BY <1>2, SeesCommitted
  <1>4. CASE CounterOf(c, r.key) # NoRow /\ Proceed(c, "advance", written[c])
    <2>1. Locks(c) /\ Elsewhere(c)
      BY <1>1, <1>3, <1>4, ProceedMoves DEF Locks, tables
    <2>2. QED
      BY <2>1 DEF Moves
  <1>5. CASE /\ CounterOf(c, r.key) = NoRow /\ Namesakes(c, r) = {}
             /\ Proceed(c, "advance", with(Row(r.key, new)))
    <2>1. with(Row(r.key, new)) = [written[c] EXCEPT !.counters = Row(r.key, new)]
      BY <1>2, RowOverNothing
    <2>2. new = CounterWith(r, 0)
      BY DEF CounterWith
    <2>3. Alone(r)
      BY <1>3, <1>5 DEF Namesakes, Alone
    <2>4. counters[r.key] = NoRow
      BY <1>3, <1>5
    <2>5. /\ Elsewhere(c) /\ UNCHANGED <<tables, req>> /\ pc'[c] = "advance"
          /\ written'[c] = [written[c] EXCEPT !.counters = Row(r.key, CounterWith(r, 0))]
      BY <1>1, <1>5, <2>1, <2>2, ProceedMoves DEF tables
    <2>6. Locks(c)
      BY <1>1, <2>3, <2>4, <2>5 DEF Locks
    <2>7. QED
      BY <2>5, <2>6 DEF Moves
  <1>6. ASSUME NEW k \in Namesakes(c, r) PROVE Referenced(k)
    <2>1. k \in Keys /\ counters[k] # NoRow
      BY <1>3, <1>6 DEF Namesakes
    <2>2. QED
      BY <1>1, <2>1, CountersAreReferenced
  <1>7. ASSUME Fail(c, "allocation_conflict") PROVE Moves(c)
    BY <1>1, <1>7, FailMoves
  <1>8. QED
    BY <1>4, <1>5, <1>6, <1>7 DEF Seed

LEMMA AdvanceMoves ==
  ASSUME IInv, NEW c \in Connections, Advance(c)
  PROVE  Moves(c)
  <1> DEFINE r == req[c]
             row == CounterOf(c, r.key)
             next == [row EXCEPT !.last = @ + 1]
             n == NextOf(r.key)
  <1>1. /\ TypeInv /\ CallFits(c) /\ pc[c] = "advance"
        /\ r \in AllocationRequest /\ r.key \in Keys /\ r.width \in ValidWidths
        /\ counters[r.key] \in CounterRow \cup {NoRow}
        /\ Capacity[r.width] \in Nat \ {0}
    BY WidthsAssumption
       DEF IInv, TablesInv, Advance, TypeInv, CallTyped, AllocationRequest
  <1>2. CASE \E code : Fail(c, code)
    BY <1>1, <1>2, FailMoves
  <1>3. CASE /\ SamePolicy(row, r) /\ ~(row.last >= Capacity[r.width])
             /\ Proceed(c, "bind",
                  [written[c] EXCEPT !.counters = Over(Row(r.key, next), @)])
    <2>1. /\ Over(Row(r.key, next), written[c].counters) = Row(r.key, CounterWith(r, n))
          /\ n <= Capacity[r.width]
          /\ counters[r.key] # NoRow => SamePolicy(counters[r.key], r)
      <3>1. CASE counters[r.key] = NoRow
        <4>1. written[c].counters = Row(r.key, CounterWith(r, 0))
          BY <1>1, <3>1 DEF CallFits
        <4>2. row = CounterWith(r, 0)
          BY <4>1, SeesItsOwn
        <4>3. n = 1 /\ next = CounterWith(r, 1)
          BY <3>1, <4>2 DEF NextOf, CounterWith
        <4>4. Over(Row(r.key, next), written[c].counters) = Row(r.key, next)
          BY <4>1, RowOverRow
        <4>5. QED
          BY <1>1, <3>1, <4>3, <4>4
      <3>2. CASE counters[r.key] # NoRow
        <4>1. written[c].counters = NoCounters
          BY <1>1, <3>2 DEF CallFits
        <4>2. row = counters[r.key] /\ row \in CounterRow
          BY <1>1, <3>2, <4>1, SeesCommitted
        <4>3. n = row.last + 1 /\ next = CounterWith(r, n)
          BY <1>3, <3>2, <4>2 DEF NextOf, CounterWith, SamePolicy, CounterRow
        <4>4. Over(Row(r.key, next), written[c].counters) = Row(r.key, next)
          BY <4>1, RowOverNothing
        <4>5. n <= Capacity[r.width]
          BY <1>1, <1>3, <4>2, <4>3 DEF CounterRow
        <4>6. QED
          BY <1>3, <4>2, <4>3, <4>4, <4>5
      <3>3. QED
        BY <3>1, <3>2
    <2>2. /\ Elsewhere(c) /\ UNCHANGED <<tables, req>> /\ pc'[c] = "bind"
          /\ written'[c] =
               [written[c] EXCEPT !.counters = Over(Row(r.key, next), @)]
      BY <1>1, <1>3, ProceedMoves DEF tables
    <2>3. Counts(c)
      BY <1>1, <2>1, <2>2 DEF Counts
    <2>4. QED
      BY <2>2, <2>3 DEF Moves
  <1>4. QED
    BY <1>2, <1>3 DEF Advance

LEMMA BindMoves ==
  ASSUME IInv, NEW c \in Connections, Bind(c)
  PROVE  Moves(c)
  <1> DEFINE r == req[c]
             n == NextOf(r.key)
             new == Binding(r, CounterOf(c, r.key).last)
  <1>1. TypeInv /\ CallFits(c) /\ pc[c] = "bind" /\ ~WaitsToBind(c)
    BY DEF IInv, TablesInv, Bind
  <1>2. new = Binding(r, n)
    <2>1. written[c].counters = Row(r.key, CounterWith(r, n))
      BY <1>1 DEF CallFits
    <2>2. CounterOf(c, r.key) = CounterWith(r, n)
      BY <2>1, SeesItsOwn
    <2>3. QED
      BY <2>2 DEF CounterWith
  <1>3. CASE Fail(c, "allocation_conflict")
    BY <1>1, <1>3, FailMoves
  <1>4. CASE Proceed(c, "commit", [written[c] EXCEPT !.bindings = {new}])
    <2>1. /\ Elsewhere(c) /\ UNCHANGED <<tables, req>> /\ pc'[c] = "commit"
          /\ written'[c] = [written[c] EXCEPT !.bindings = {Binding(r, n)}]
      BY <1>1, <1>2, <1>4, ProceedMoves DEF tables
    <2>2. Binds(c)
      BY <1>1, <2>1 DEF Binds
    <2>3. QED
      BY <2>1, <2>2 DEF Moves
  <1>5. QED
    BY <1>3, <1>4 DEF Bind

LEMMA FinishMoves ==
  ASSUME IInv, NEW c \in Connections, Finish(c)
  PROVE  Moves(c) /\ Finishes(c)
  <1> DEFINE r == req[c]
             n == NextOf(r.key)
  <1>1. /\ TypeInv /\ CallFits(c) /\ pc[c] = "commit" /\ r.key \in Keys
        /\ counters \in [Keys -> CounterRow \cup {NoRow}]
    BY DEF IInv, TablesInv, Finish, TypeInv, CallTyped, AllocationRequest
  <1>2. PICK row \in written[c].bindings : Return(c, row)
    BY DEF Finish
  <1>3. Elsewhere(c) /\ pc'[c] = "idle" /\ req' = req /\ Commit(c)
    BY <1>1, <1>2, ReturnKeeps
  <1>4. /\ written[c].counters = Row(r.key, CounterWith(r, n))
        /\ written[c].bindings = {Binding(r, n)}
    BY <1>1 DEF CallFits
  <1>5. Over(written[c].counters, counters) = [counters EXCEPT ![r.key] = CounterWith(r, n)]
    BY <1>1, <1>4, RowOverCounters
  <1>6. Finishes(c)
    BY <1>1, <1>3, <1>4, <1>5, OthersKeep DEF Finishes, Commit
  <1>7. QED
    BY <1>3, <1>6 DEF Moves

LEMMA VictimMoves ==
  ASSUME IInv, NEW c \in Connections, Victim(c)
  PROVE  Moves(c)
  <1>1. /\ TypeInv /\ Rollback(c) /\ req' = req
        /\ \E step \in {"idle", "replay"} : Goto(c, step)
        /\ \/ \E code : answer' = [answer EXCEPT ![c] = code]
           \/ answer' = answer
        /\ attempt' = [attempt EXCEPT ![c] = @ + 1] \/ attempt' = attempt
    BY DEF IInv, Victim, Retry, End
  <1>2. \A d \in Connections \ {c} : answer'[d] = answer[d] /\ attempt'[d] = attempt[d]
    BY <1>1 DEF TypeInv
  <1>3. Elsewhere(c)
    BY <1>1, <1>2, GotoMoves, OthersKeep DEF Elsewhere
  <1>4. Ends(c)
    BY <1>1, GotoMoves, OthersKeep DEF Ends, Rollback, tables
  <1>5. QED
    BY <1>3, <1>4 DEF Moves

LEMMA NextMoves ==
  ASSUME IInv, Next
  PROVE  \E c \in Connections : Moves(c)
  BY CallerMoves, ReserveMoves, CallAllocateMoves, ReplayMoves, SeedMoves,
     AdvanceMoves, BindMoves, FinishMoves, VictimMoves DEF Next, Allocation

-----------------------------------------------------------------------------
(* The initial states, and the types. *)

LEMMA InvInit == Init => IInv
  <1> SUFFICES ASSUME Init PROVE IInv
    OBVIOUS
  <1>1. \A k \in Keys : counters[k] = NoRow
    BY DEF Init
  <1>2. \A c \in Connections :
          /\ written[c] = Nothing /\ pc[c] = "idle" /\ results[c] = {}
          /\ answer[c] = "ok" /\ attempt[c] = 1
    BY DEF Init
  <1>3. TypeInv
    BY <1>2, NothingIsRows, AttemptsAssumption
       DEF Init, TypeInv, Steps, Codes, CallTyped
  <1>4. TransactionsInv /\ LocksInv
    BY <1>2 DEF TransactionsInv, LocksInv, Locking
  <1>5. RefsInv
    BY <1>2 DEF Init, RefsInv, Nothing
  <1>6. TablesInv
    <2>1. StoreIsSound
      BY <1>1 DEF Init, StoreIsSound
    <2>2. \A c \in Connections : CallFits(c)
      <3>1. \A c \in Connections :
              written[c].counters = NoCounters /\ written[c].bindings = {}
        <4>1. Nothing.bindings = {}
          BY DEF Nothing
        <4>2. QED
          BY <1>2, <4>1 DEF NoCounters
      <3>2. QED
        BY <1>2, <3>1 DEF CallFits, Locking, Looked
    <2>3. QED
      BY <1>1, <2>1, <2>2 DEF TablesInv
  <1>7. RefusalIsFinal
    BY <1>2 DEF RefusalIsFinal
  <1>8. QED
    BY <1>3, <1>4, <1>5, <1>6, <1>7 DEF IInv

\* What every connection has stays a function.
Shaped ==
  /\ written = [c \in Connections |-> written[c]]
  /\ pc = [c \in Connections |-> pc[c]]
  /\ req = [c \in Connections |-> req[c]]
  /\ attempt = [c \in Connections |-> attempt[c]]
  /\ answer = [c \in Connections |-> answer[c]]
  /\ results = [c \in Connections |-> results[c]]

\* What a step of c does to the type of what belongs to its call.
CallKept(c) ==
  /\ Shaped'
  /\ pc'[c] \in Steps \cup {"idle"}
  /\ req'[c] \in AllocationRequest \cup {NoRow}
  /\ attempt'[c] \in 1..MaxAttempts
  /\ answer'[c] \in Codes \cup {"ok", "lost"}
  /\ results'[c] \subseteq Results
  /\ begun' \subseteq CallerTx
  /\ acked' \subseteq Results
  /\ CallTyped(c)'

LEMMA Shape == TypeInv => Shaped
  BY DEF TypeInv, Shaped

LEMMA FailKept ==
  ASSUME TypeInv, NEW c \in Connections, Fail(c, "lost")
           \/ (pc[c] # "idle" /\ \E code \in Codes : Fail(c, code))
  PROVE  CallKept(c)
  <1>1. PICK code \in Codes \cup {"lost"} :
          Fail(c, code) /\ (pc[c] = "idle" => code = "lost")
    OBVIOUS
  <1>2. /\ written' = [written EXCEPT ![c] = Nothing] /\ begun' = begun \ {c}
        /\ results' = [results EXCEPT ![c] = {}] /\ pc' = [pc EXCEPT ![c] = "idle"]
        /\ answer' = [answer EXCEPT ![c] = code]
        /\ UNCHANGED <<req, attempt, acked>>
    BY <1>1 DEF Fail, Rollback, End, Goto
  <1>3. Shaped' /\ answer'[c] = code /\ results'[c] = {} /\ pc'[c] = "idle"
    BY <1>2 DEF TypeInv, Shaped
  <1>4. CallTyped(c)'
    BY <1>1, <1>2, <1>3, Typed DEF CallTyped, Codes
  <1>5. QED
    BY <1>1, <1>2, <1>3, <1>4, Typed DEF CallKept, TypeInv

LEMMA ProceedKept ==
  ASSUME TypeInv, NEW c \in Connections, NEW step \in Steps, NEW rows,
         pc[c] # "idle", Proceed(c, step, rows)
  PROVE  CallKept(c)
  <1>1. /\ written' = [written EXCEPT ![c] = rows]
        /\ pc' = [pc EXCEPT ![c] = step]
        /\ UNCHANGED <<begun, req, attempt, answer, results, acked>>
    BY DEF Proceed, Goto
  <1>2. Shaped' /\ pc'[c] = step
    BY <1>1 DEF TypeInv, Shaped
  <1>3. CallTyped(c)'
    BY <1>1, <1>2, Typed DEF CallTyped
  <1>4. QED
    BY <1>1, <1>2, <1>3, Typed DEF CallKept, TypeInv

LEMMA ReturnKept ==
  ASSUME TypeInv, NEW c \in Connections, pc[c] # "idle",
         NEW row \in AllocationRow, Return(c, row)
  PROVE  CallKept(c)
  <1>1. /\ written' = [written EXCEPT ![c] = Nothing] /\ begun' = begun \ {c}
        /\ results' = [results EXCEPT ![c] = {}] /\ pc' = [pc EXCEPT ![c] = "idle"]
        /\ \/ answer' = [answer EXCEPT ![c] = "ok"]
           \/ answer' = [answer EXCEPT ![c] = "lost"]
        /\ UNCHANGED <<req, attempt>>
    BY DEF Return, Commit, End, Goto
  <1>2. acked' \in {acked, acked \cup {[kind |-> "allocated", row |-> row]}}
    BY DEF Return
  <1>3. [kind |-> "allocated", row |-> row] \in Results
    BY DEF Results
  <1>4. /\ Shaped' /\ answer'[c] \in {"ok", "lost"} /\ results'[c] = {}
        /\ pc'[c] = "idle"
    BY <1>1 DEF TypeInv, Shaped
  <1>5. CallTyped(c)'
    BY <1>4 DEF CallTyped, Codes
  <1>6. QED
    BY <1>1, <1>2, <1>3, <1>4, <1>5, Typed DEF CallKept, TypeInv

LEMMA CallerKept ==
  ASSUME TypeInv, NEW c \in Connections,
         CallerBegin(c) \/ CallerCommit(c) \/ CallerRollback(c) \/ Disconnect(c)
  PROVE  CallKept(c)
  <1>1. CASE Disconnect(c)
    BY <1>1, FailKept DEF Disconnect
  <1>2. CASE CallerBegin(c)
    <2>1. /\ begun' = begun \cup {c} /\ c \in CallerTx
          /\ UNCHANGED <<written, pc, req, attempt, answer, results, acked>>
      BY <1>2 DEF CallerBegin, call
    <2>2. Shaped' /\ CallTyped(c)'
      BY <2>1, Typed, Shape DEF Shaped, CallTyped
    <2>3. QED
      BY <2>1, <2>2, Typed DEF CallKept, TypeInv
  <1>3. CASE CallerCommit(c) \/ CallerRollback(c)
    <2>1. /\ written' = [written EXCEPT ![c] = Nothing] /\ begun' = begun \ {c}
          /\ results' = [results EXCEPT ![c] = {}]
          /\ acked' \in {acked, acked \cup results[c]}
          /\ UNCHANGED <<pc, req, attempt, answer>>
      BY <1>3 DEF CallerCommit, CallerRollback, Commit, Rollback, call
    <2>2. Shaped' /\ results'[c] = {}
      BY <2>1 DEF TypeInv, Shaped
    <2>3. CallTyped(c)'
      BY <2>1, Typed DEF CallTyped
    <2>4. QED
      BY <2>1, <2>2, <2>3, Typed DEF CallKept, TypeInv
  <1>4. QED
    BY <1>1, <1>2, <1>3

LEMMA ReserveKept ==
  ASSUME TypeInv, NEW c \in Connections, NEW row \in Reservations, Reserve(c, row)
  PROVE  CallKept(c)
  <1> DEFINE won == \A other \in refs \cup written[c].refs : other.ref # row.ref
             new == IF won THEN {row} ELSE {}
             result == IF won THEN [kind |-> "won", row |-> row]
                              ELSE [kind |-> "refused", ref |-> row.ref]
  <1>1. result \in Results
    BY CallsAssumption DEF Results, ReferenceRow
  <1>2. /\ \/ written' = [written EXCEPT ![c].refs = @ \cup new]
           \/ written' = written
        /\ UNCHANGED <<begun, pc, req, attempt, answer>>
    BY DEF Reserve, call
  <1>3. \/ results' = [results EXCEPT ![c] = @ \cup {result}] /\ acked' = acked
        \/ results' = results /\ acked' \in {acked, acked \cup {result}}
    <2> HIDE DEF result
    <2>1. Told(c, result) \/ UNCHANGED <<results, acked>>
      BY DEF Reserve, result, won
    <2>2. QED
      BY <2>1 DEF Told
  <1> HIDE DEF result, new
  <1>4. Shaped'
    BY <1>2, <1>3, Shape DEF TypeInv, Shaped
  <1>5. results'[c] \subseteq Results /\ acked' \subseteq Results
    BY <1>1, <1>3 DEF TypeInv
  <1>6. CallTyped(c)'
    BY <1>2, Typed DEF CallTyped
  <1>7. QED
    BY <1>2, <1>4, <1>5, <1>6, Typed DEF CallKept, TypeInv

LEMMA CallAllocateKept ==
  ASSUME TypeInv, NEW c \in Connections, NEW r \in Requests, CallAllocate(c, r)
  PROVE  CallKept(c)
  <1>1. /\ req' = [req EXCEPT ![c] = r] /\ attempt' = [attempt EXCEPT ![c] = 1]
        /\ pc[c] = "idle" /\ r \in AllocationRequest
    BY CallsAssumption DEF CallAllocate
  <1>2. /\ \/ written' = [written EXCEPT ![c] = Nothing]
           \/ written' = written
        /\ results' = [results EXCEPT ![c] = {}] \/ results' = results
        /\ begun' \in {begun, begun \ {c}}
        /\ acked' \in {acked, acked \cup results[c]}
        /\ \/ /\ pc' = [pc EXCEPT ![c] = "replay"] /\ r.width \in ValidWidths
              /\ answer' = [answer EXCEPT ![c] = "ok"]
           \/ /\ pc' = [pc EXCEPT ![c] = "idle"]
              /\ answer' = [answer EXCEPT ![c] = "invalid_allocation_policy"]
    BY DEF CallAllocate, Commit, Rollback, End, Goto
  <1>3. Shaped'
    BY <1>1, <1>2 DEF TypeInv, Shaped
  <1>4. /\ req'[c] = r /\ attempt'[c] = 1
        /\ \/ pc'[c] = "replay" /\ r.width \in ValidWidths /\ answer'[c] = "ok"
           \/ pc'[c] = "idle" /\ answer'[c] = "invalid_allocation_policy"
        /\ results'[c] \in {{}, results[c]}
    BY <1>1, <1>2 DEF TypeInv
  <1>5. CallTyped(c)'
    BY <1>1, <1>4 DEF CallTyped, Codes
  <1>6. begun' \subseteq CallerTx /\ acked' \subseteq Results /\ results'[c] \subseteq Results
    BY <1>2, <1>4, Typed DEF TypeInv
  <1>7. attempt'[c] \in 1..MaxAttempts
    BY <1>4, AttemptsAssumption
  <1>8. QED
    BY <1>1, <1>3, <1>4, <1>5, <1>6, <1>7 DEF CallKept, Steps, Codes

LEMMA VictimKept ==
  ASSUME TypeInv, NEW c \in Connections, Victim(c)
  PROVE  CallKept(c)
  <1>1. /\ written' = [written EXCEPT ![c] = Nothing] /\ begun' = begun \ {c}
        /\ results' = [results EXCEPT ![c] = {}]
        /\ \/ /\ pc' = [pc EXCEPT ![c] = "replay"] /\ answer' = answer
              /\ attempt[c] < MaxAttempts /\ attempt' = [attempt EXCEPT ![c] = @ + 1]
           \/ /\ pc' = [pc EXCEPT ![c] = "idle"] /\ attempt' = attempt
              /\ answer' = [answer EXCEPT ![c] = "allocation_conflict"]
        /\ UNCHANGED <<req, acked>>
        /\ pc[c] # "idle"
    BY DEF Victim, Retry, Rollback, End, Goto
  <1>2. /\ Shaped' /\ results'[c] = {}
        /\ \/ /\ pc'[c] = "replay" /\ answer'[c] = answer[c]
              /\ attempt'[c] = attempt[c] + 1 /\ attempt[c] < MaxAttempts
           \/ /\ pc'[c] = "idle" /\ answer'[c] = "allocation_conflict"
              /\ attempt'[c] = attempt[c]
    BY <1>1, Shape DEF TypeInv, Shaped
  <1>3. CallTyped(c)'
    BY <1>1, <1>2, Typed DEF CallTyped
  <1>4. attempt'[c] \in 1..MaxAttempts
    BY <1>2, Typed, AttemptsAssumption
  <1>5. QED
    BY <1>1, <1>2, <1>3, <1>4, Typed DEF CallKept, TypeInv, Steps, Codes

LEMMA AllocationKept ==
  ASSUME TypeInv, NEW c \in Connections, Allocation(c)
  PROVE  CallKept(c)
  <1> USE DEF Steps, Codes
  <1>1. CASE Replay(c)
    <2>1. pc[c] = "replay" /\ \A b \in Replays(req[c]) : b \in AllocationRow
      BY <1>1 DEF Replay, Replays, TypeInv
    <2>2. \/ Proceed(c, "seed", written[c])
          \/ \E b \in Replays(req[c]) :
               Return(c, b) \/ Fail(c, "invalid_allocation_policy")
      BY <1>1 DEF Replay
    <2>3. QED
      BY <2>1, <2>2, ProceedKept, ReturnKept, FailKept
  <1>2. CASE Seed(c)
    <2>1. pc[c] = "seed"
          /\ (Fail(c, "allocation_conflict") \/ \E rows : Proceed(c, "advance", rows))
      BY <1>2 DEF Seed
    <2>2. QED
      BY <2>1, ProceedKept, FailKept
  <1>3. CASE Advance(c)
    <2>1. pc[c] = "advance"
          /\ \/ Fail(c, "invalid_allocation_policy") \/ Fail(c, "sequence_overflow")
             \/ \E rows : Proceed(c, "bind", rows)
      BY <1>3 DEF Advance
    <2>2. QED
      BY <2>1, ProceedKept, FailKept
  <1>4. CASE Bind(c)
    <2>1. pc[c] = "bind"
          /\ (Fail(c, "allocation_conflict") \/ \E rows : Proceed(c, "commit", rows))
      BY <1>4 DEF Bind
    <2>2. QED
      BY <2>1, ProceedKept, FailKept
  <1>5. CASE Finish(c)
    BY <1>5, Typed, ReturnKept DEF Finish
  <1>6. CASE Victim(c)
    BY <1>6, VictimKept
  <1>7. QED
    BY <1>1, <1>2, <1>3, <1>4, <1>5, <1>6 DEF Allocation
LEMMA NextKept ==
  ASSUME IInv, Next
  PROVE  \E c \in Connections : Moves(c) /\ CallKept(c)
  BY CallerMoves, ReserveMoves, CallAllocateMoves, ReplayMoves, SeedMoves,
     AdvanceMoves, BindMoves, FinishMoves, VictimMoves,
     CallerKept, ReserveKept, CallAllocateKept, AllocationKept
     DEF IInv, Next, Allocation

\* The counter a call has, its binding and its number.
LEMMA CallHas ==
  ASSUME TypeInv, NEW c \in Connections, pc[c] # "idle"
  PROVE  /\ req[c] \in AllocationRequest /\ req[c].key \in Keys
         /\ req[c].width \in ValidWidths
         /\ NextOf(req[c].key) \in Nat \ {0}
         /\ \A n \in Nat : CounterWith(req[c], n) \in CounterRow
         /\ \A n \in Nat : Binding(req[c], n) \in AllocationRow
  <1>1. req[c] \in AllocationRequest /\ req[c].key \in Keys /\ req[c].width \in ValidWidths
    BY DEF TypeInv, CallTyped, AllocationRequest
  <1>2. NextOf(req[c].key) \in Nat \ {0}
    BY <1>1 DEF NextOf, TypeInv, CounterRow
  <1>3. \A n \in Nat : CounterWith(req[c], n) \in CounterRow
    BY <1>1 DEF CounterWith, CounterRow, AllocationRequest
  <1>4. \A n \in Nat : Binding(req[c], n) \in AllocationRow
    BY <1>1 DEF Binding, AllocationRow, AllocationRequest
  <1>5. QED
    BY <1>1, <1>2, <1>3, <1>4

LEMMA MovesTyped ==
  ASSUME TypeInv, NEW c \in Connections, Moves(c)
  PROVE  /\ refs' \subseteq ReferenceRow /\ bindings' \subseteq AllocationRow
         /\ counters' \in [Keys -> CounterRow \cup {NoRow}]
         /\ written'[c] \in Rows
  <1> DEFINE r == req[c]
  <1>1. /\ refs \subseteq ReferenceRow /\ bindings \subseteq AllocationRow
        /\ counters \in [Keys -> CounterRow \cup {NoRow}]
        /\ written[c] \in Rows /\ written[c].refs \subseteq ReferenceRow
    BY Typed DEF TypeInv
  <1>2. \A rows \in CounterRows : [written[c] EXCEPT !.counters = rows] \in Rows
    BY <1>1 DEF Rows
  <1>3. CASE Ends(c)
    BY <1>1, <1>3, NothingIsRows DEF Ends
  <1>4. CASE Inserts(c)
    <2>1. \A row \in ReferenceRow : [written[c] EXCEPT !.refs = @ \cup {row}] \in Rows
      BY <1>1 DEF Rows
    <2>2. QED
      BY <1>1, <1>4, <2>1 DEF Inserts
  <1>5. CASE Looks(c)
    BY <1>1, <1>5 DEF Looks, tables
  <1>6. CASE Locks(c)
    <2>1. r.key \in Keys /\ CounterWith(r, 0) \in CounterRow
      BY <1>6, CallHas DEF Locks
    <2>2. Row(r.key, CounterWith(r, 0)) \in CounterRows
      BY <2>1, RowIsRows
    <2>3. QED
      BY <1>1, <1>2, <1>6, <2>2 DEF Locks, tables
  <1>7. CASE Counts(c)
    <2>1. r.key \in Keys /\ CounterWith(r, NextOf(r.key)) \in CounterRow
      BY <1>7, CallHas DEF Counts
    <2>2. Row(r.key, CounterWith(r, NextOf(r.key))) \in CounterRows
      BY <2>1, RowIsRows
    <2>3. QED
      BY <1>1, <1>2, <1>7, <2>2 DEF Counts, tables
  <1>8. CASE Binds(c)
    <2>1. Binding(r, NextOf(r.key)) \in AllocationRow
      BY <1>8, CallHas DEF Binds
    <2>2. [written[c] EXCEPT !.bindings = {Binding(r, NextOf(r.key))}] \in Rows
      BY <1>1, <2>1 DEF Rows
    <2>3. QED
      BY <1>1, <1>8, <2>2 DEF Binds, tables
  <1>9. CASE Finishes(c)
    <2>1. /\ r.key \in Keys /\ CounterWith(r, NextOf(r.key)) \in CounterRow
          /\ Binding(r, NextOf(r.key)) \in AllocationRow
      BY <1>9, CallHas DEF Finishes
    <2>2. QED
      BY <1>1, <1>9, <2>1, NothingIsRows DEF Finishes
  <1>10. QED
    BY <1>3, <1>4, <1>5, <1>6, <1>7, <1>8, <1>9 DEF Moves

LEMMA TypeStep ==
  ASSUME IInv, Next
  PROVE  TypeInv'
  <1>1. PICK c \in Connections : Moves(c) /\ CallKept(c)
    BY NextKept
  <1>2. TypeInv /\ Elsewhere(c)
    BY <1>1 DEF IInv, Moves
  <1>3. \A d \in Connections :
          /\ written'[d] \in Rows /\ pc'[d] \in Steps \cup {"idle"}
          /\ req'[d] \in AllocationRequest \cup {NoRow}
          /\ attempt'[d] \in 1..MaxAttempts
          /\ answer'[d] \in Codes \cup {"ok", "lost"}
          /\ results'[d] \subseteq Results
    BY <1>1, <1>2, MovesTyped, Typed DEF CallKept, Elsewhere
  <1>4. \A d \in Connections : CallTyped(d)'
    BY <1>1, <1>2, Typed DEF CallKept, Elsewhere, CallTyped
  <1>5. /\ refs' \subseteq ReferenceRow /\ bindings' \subseteq AllocationRow
        /\ counters' \in [Keys -> CounterRow \cup {NoRow}]
    BY <1>1, <1>2, MovesTyped
  <1>6. Shaped' /\ begun' \subseteq CallerTx /\ acked' \subseteq Results
    BY <1>1 DEF CallKept
  <1>7. /\ written' \in [Connections -> Rows]
        /\ pc' \in [Connections -> Steps \cup {"idle"}]
        /\ req' \in [Connections -> AllocationRequest \cup {NoRow}]
        /\ attempt' \in [Connections -> 1..MaxAttempts]
        /\ answer' \in [Connections -> Codes \cup {"ok", "lost"}]
        /\ results' \in [Connections -> SUBSET Results]
    BY <1>3, <1>6 DEF Shaped
  <1>8. QED
    BY <1>4, <1>5, <1>6, <1>7 DEF TypeInv

-----------------------------------------------------------------------------
(* Transactions, locks and references. *)

\* A call's own transaction is none of the caller's, and has no answers.
LEMMA TransactionsStep ==
  ASSUME IInv, Next
  PROVE  TransactionsInv'
  <1> DEFINE Apart(d) == /\ pc[d] # "idle" => d \notin begun
                         /\ results[d] # {} => d \in begun
  <1>1. TypeInv /\ \A d \in Connections : Apart(d)
    BY DEF IInv, TransactionsInv
  <1>2. ASSUME NEW c \in Connections, Elsewhere(c), Apart(c)'
        PROVE  TransactionsInv'
    <2>1. \A d \in Connections \ {c} : Apart(d)'
      BY <1>1, <1>2 DEF Elsewhere
    <2>2. QED
      BY <1>2, <2>1 DEF TransactionsInv
  <1>3. PICK c \in Connections :
          \/ CallerBegin(c) \/ CallerCommit(c) \/ CallerRollback(c) \/ Disconnect(c)
          \/ \E row \in Reservations : Reserve(c, row)
          \/ \E r \in Requests : CallAllocate(c, r)
          \/ Allocation(c)
    BY DEF Next
  <1>4. Elsewhere(c)
    BY <1>3, CallerMoves, ReserveMoves, CallAllocateMoves, ReplayMoves, SeedMoves,
       AdvanceMoves, BindMoves, FinishMoves, VictimMoves DEF Allocation, Moves
  <1>5. ASSUME Commit(c) \/ Rollback(c) PROVE Apart(c)'
    BY <1>1, <1>5, OthersKeep
  <1>6. ASSUME NEW step, NEW rows, pc[c] # "idle", Proceed(c, step, rows)
        PROVE  Apart(c)'
    BY <1>1, <1>6 DEF Proceed
  <1>7. Apart(c)'
    <2>1. CASE CallerBegin(c)
      BY <1>1, <2>1 DEF CallerBegin, call
    <2>2. CASE CallerCommit(c) \/ CallerRollback(c) \/ Disconnect(c)
      BY <1>5, <2>2 DEF CallerCommit, CallerRollback, Disconnect, Fail
    <2>3. ASSUME NEW row \in Reservations, Reserve(c, row) PROVE Apart(c)'
      BY <1>1, <2>3 DEF Reserve, Told, call, InTransaction
    <2>4. ASSUME NEW r \in Requests, CallAllocate(c, r) PROVE Apart(c)'
      <3>1. CASE Commit(c) \/ Rollback(c)
        BY <1>5, <3>1
      <3>2. CASE End(c, "invalid_allocation_policy") /\ UNCHANGED <<begun, results>>
        BY <1>1, <3>2, GotoMoves DEF End
      <3>3. QED
        BY <2>4, <3>1, <3>2 DEF CallAllocate
    <2>5. CASE Replay(c)
      BY <1>5, <1>6, <2>5 DEF Replay, Return, Fail
    <2>6. CASE Seed(c)
      BY <1>5, <1>6, <2>6 DEF Seed, Fail
    <2>7. CASE Advance(c)
      BY <1>5, <1>6, <2>7 DEF Advance, Fail
    <2>8. CASE Bind(c)
      BY <1>5, <1>6, <2>8 DEF Bind, Fail
    <2>9. CASE Finish(c) \/ Victim(c)
      BY <1>5, <2>9 DEF Finish, Return, Victim, Retry
    <2>10. QED
      BY <1>3, <2>1, <2>2, <2>3, <2>4, <2>5, <2>6, <2>7, <2>8, <2>9 DEF Allocation
  <1>8. QED
    BY <1>2, <1>4, <1>7

\* Whoever locks a counter or a prefix has waited for those who have it, and
\* whoever looks for a binding or inserts one, for those who have or sought it.
LEMMA LocksStep ==
  ASSUME IInv, Next
  PROVE  LocksInv'
  <1> DEFINE Excludes(d, e) ==
               /\ pc[d] \in Locking /\ pc[e] \in Locking => ~Overlap(req[d], req[e])
               /\ pc[d] = "commit" /\ pc[e] \in Looked =>
                    req[d].key # req[e].key \/ req[d].mid # req[e].mid
  <1>1. PICK c \in Connections : Moves(c)
    BY NextMoves
  <1>2. /\ TypeInv /\ Elsewhere(c)
        /\ \A d, e \in Connections : d # e => Excludes(d, e)
        /\ \A d \in Connections : CallFits(d)
    BY <1>1 DEF IInv, LocksInv, TablesInv, Moves
  <1>3. \A d \in Connections \ {c} : pc'[d] = pc[d] /\ req'[d] = req[d]
    BY <1>2 DEF Elsewhere
  <1>4. \A d, e \in Connections \ {c} : d # e => Excludes(d, e)'
    BY <1>2, <1>3
  <1>5. ASSUME NEW d \in Connections \ {c} PROVE Excludes(c, d)' /\ Excludes(d, c)'
    <2>1. Excludes(c, d) /\ Excludes(d, c) /\ pc'[d] = pc[d] /\ req'[d] = req[d]
      BY <1>2, <1>3
    <2>2. CASE pc'[c] \in {"idle", "replay"}
      BY <2>2 DEF Locking, Looked
    <2>3. CASE Inserts(c)
      BY <2>1, <2>3 DEF Inserts
    <2>4. CASE Looks(c)
      <3>1. pc[d] = "commit" =>
              req[d].key # req[c].key \/ req[d].mid # req[c].mid
        <4>1. pc[d] = "commit" => written[d].bindings = {Binding(req[d], NextOf(req[d].key))}
          BY <1>2 DEF CallFits
        <4>2. Binding(req[d], NextOf(req[d].key)) \in written[d].bindings =>
                req[d].key # req[c].key \/ req[d].mid # req[c].mid
          BY <2>4 DEF Looks, WaitsToReplay, Others, Binding
        <4>3. QED
          BY <4>1, <4>2
      <3>2. QED
        BY <2>1, <2>4, <3>1 DEF Looks, Locking, Looked
    <2>5. CASE Locks(c)
      <3>1. pc[d] \in Locking => ~Overlap(req[c], req[d]) /\ ~Overlap(req[d], req[c])
        BY <2>5 DEF Locks, WaitsToSeed, Others, Locking, Overlap
      <3>2. QED
        BY <2>1, <2>5, <3>1 DEF Locks, Locking, Looked
    <2>6. CASE Counts(c)
      BY <2>1, <2>6 DEF Counts, Locking, Looked
    <2>7. CASE Binds(c)
      <3>1. pc[d] \in Looked => req[d].key # req[c].key \/ req[d].mid # req[c].mid
        BY <2>7 DEF Binds, WaitsToBind, Others, Looked
      <3>2. QED
        BY <2>1, <2>7, <3>1 DEF Binds, Locking, Looked
    <2>8. QED
      BY <1>1, <2>2, <2>3, <2>4, <2>5, <2>6, <2>7 DEF Moves, Ends, Finishes
  <1>6. QED
    BY <1>4, <1>5 DEF LocksInv

LEMMA RefsStep ==
  ASSUME IInv, Next
  PROVE  RefsInv'
  <1>1. PICK c \in Connections : Moves(c)
    BY NextMoves
  <1>2. /\ TypeInv /\ RefsInv /\ written[c] \in Rows
        /\ \A d \in Connections \ {c} : written'[d] = written[d]
    BY <1>1, Typed DEF IInv, Moves, Elsewhere
  <1>3. CASE /\ refs' \in {refs, refs \cup written[c].refs}
             /\ written'[c] = Nothing
    <2>1. written'[c].refs = {}
      BY <1>3 DEF Nothing
    <2>2. QED
      BY <1>2, <1>3, <2>1 DEF RefsInv
  <1>4. CASE refs' = refs /\ written'[c].refs = written[c].refs
    BY <1>2, <1>4 DEF RefsInv
  <1>5. CASE Inserts(c)
    <2>1. CASE UNCHANGED <<refs, written>>
      BY <1>4, <2>1
    <2>2. ASSUME NEW row \in ReferenceRow,
                 \A other \in refs \cup written[c].refs : other.ref # row.ref,
                 \A d \in Others(c) : \A other \in written[d].refs : other.ref # row.ref,
                 \/ written'[c].refs = written[c].refs \cup {row} /\ refs' = refs
                 \/ written' = written /\ refs' = refs \cup {row}
          PROVE  RefsInv'
      <3>1. CASE written'[c].refs = written[c].refs \cup {row} /\ refs' = refs
        BY <1>2, <2>2, <3>1 DEF RefsInv, Others
      <3>2. CASE written' = written /\ refs' = refs \cup {row}
        BY <1>2, <2>2, <3>2 DEF RefsInv, Others
      <3>3. QED
        BY <2>2, <3>1, <3>2
    <2>3. \A row : [written[c] EXCEPT !.refs = @ \cup {row}].refs = written[c].refs \cup {row}
      BY <1>2 DEF Rows
    <2>4. QED
      BY <1>5, <2>1, <2>2, <2>3 DEF Inserts
  <1>6. \A rows : /\ [written[c] EXCEPT !.counters = rows].refs = written[c].refs
                  /\ [written[c] EXCEPT !.bindings = rows].refs = written[c].refs
    BY <1>2 DEF Rows
  <1>7. QED
    BY <1>1, <1>3, <1>4, <1>5, <1>6
       DEF Moves, Ends, Looks, Locks, Counts, Binds, Finishes, tables

-----------------------------------------------------------------------------
(* The tables. *)

\* What the invariant says of the bindings of one counter, by elements.
LEMMA BindingsOf ==
  ASSUME TypeInv, TablesInv, NEW b \in bindings
  PROVE  /\ b.key \in Keys /\ counters[b.key] # NoRow
         /\ b.seq \in 1..counters[b.key].last
         /\ SamePolicy(b, counters[b.key])
  <1>1. b.key \in Keys /\ b \in {x \in bindings : x.key = b.key}
    BY DEF TypeInv, AllocationRow
  <1>2. QED
    BY <1>1 DEF TablesInv, StoreIsSound

LEMMA NumbersOf ==
  ASSUME TypeInv, TablesInv, NEW k \in Keys, counters[k] # NoRow,
         NEW n \in 1..counters[k].last
  PROVE  \E b \in bindings : b.key = k /\ b.seq = n
  <1>1. n \in {b.seq : b \in {x \in bindings : x.key = k}}
    BY DEF TablesInv, StoreIsSound
  <1>2. QED
    BY <1>1

\* A number that a call is about to commit is the next one of its counter.
LEMMA SoundStep ==
  ASSUME IInv, NEW c \in Connections, Finishes(c)
  PROVE  /\ StoreIsSound'
         /\ \A k \in Keys : counters'[k] # NoRow => counters'[k].last >= 1
  <1> DEFINE r == req[c]
             n == NextOf(r.key)
             new == Binding(r, n)
             Of(k) == {b \in bindings : b.key = k}
  <1>1. /\ TypeInv /\ TablesInv /\ CallFits(c) /\ pc[c] = "commit"
        /\ counters \in [Keys -> CounterRow \cup {NoRow}]
        /\ bindings \subseteq AllocationRow
    BY DEF IInv, TablesInv, Finishes, TypeInv
  <1>2. /\ r.key \in Keys /\ r.width \in ValidWidths /\ n \in Nat \ {0}
        /\ CounterWith(r, n) \in CounterRow /\ n <= Capacity[r.width]
    BY <1>1, CallHas DEF CallFits
  <1>3. /\ counters'[r.key] = CounterWith(r, n) /\ counters'[r.key] # NoRow
        /\ \A k \in Keys \ {r.key} : counters'[k] = counters[k]
        /\ bindings' = bindings \cup {new}
    BY <1>1, <1>2, NoRowAssumption DEF Finishes
  <1>4. new.key = r.key /\ new.seq = n /\ new.mid = r.mid /\ SamePolicy(new, CounterWith(r, n))
    BY DEF Binding, SamePolicy, CounterWith
  <1>5. \A b \in Of(r.key) :
          b.seq \in 1..(n - 1) /\ b.mid # r.mid /\ SamePolicy(b, CounterWith(r, n))
    <2>1. Replays(r) = {}
      BY <1>1 DEF CallFits, Looked
    <2>2. \A b \in Of(r.key) : b.mid # r.mid
      BY <2>1 DEF Replays
    <2>3. SUFFICES ASSUME NEW b \in Of(r.key)
                   PROVE  b.seq \in 1..(n - 1) /\ SamePolicy(b, CounterWith(r, n))
      BY <2>2
    <2>4. counters[r.key] # NoRow /\ b.seq \in 1..counters[r.key].last
          /\ SamePolicy(b, counters[r.key])
      BY <1>1, BindingsOf
    <2>5. SamePolicy(counters[r.key], r) /\ n - 1 = counters[r.key].last
      BY <1>1, <1>2, <2>4 DEF CallFits, NextOf, CounterRow
    <2>6. QED
      BY <2>4, <2>5 DEF SamePolicy, CounterWith
  <1>6. \A i \in 1..(n - 1) : \E b \in Of(r.key) : b.seq = i
    <2>1. CASE counters[r.key] = NoRow
      BY <2>1 DEF NextOf
    <2>2. CASE counters[r.key] # NoRow
      <3>1. n - 1 = counters[r.key].last
        BY <1>1, <1>2, <2>2 DEF NextOf, CounterRow
      <3>2. QED
        BY <1>1, <1>2, <2>2, <3>1, NumbersOf
    <2>3. QED
      BY <2>1, <2>2
  <1> HIDE DEF r, n, new
  <1>7. ASSUME NEW k \in Keys
        PROVE  LET rows == {b \in bindings' : b.key = k} IN
               IF counters'[k] = NoRow THEN rows = {}
               ELSE /\ {b.seq : b \in rows} = 1..counters'[k].last
                    /\ counters'[k].last <= Capacity[counters'[k].width]
                    /\ \A b \in rows : SamePolicy(b, counters'[k])
                    /\ \A a, b \in rows : (a.mid = b.mid \/ a.seq = b.seq) => a = b
    <2>1. CASE k # r.key
      <3>1. {b \in bindings' : b.key = k} = Of(k) /\ counters'[k] = counters[k]
        BY <1>3, <1>4, <2>1
      <3>2. QED
        BY <1>1, <3>1 DEF TablesInv, StoreIsSound
    <2>2. CASE k = r.key
      <3> DEFINE rows == {b \in bindings' : b.key = k}
      <3>1. rows = Of(r.key) \cup {new}
        BY <1>3, <1>4, <2>2
      <3> HIDE DEF rows
      <3>2. counters'[k].last = n /\ counters'[k].width = r.width
        BY <1>3, <2>2 DEF CounterWith
      <3>3. {b.seq : b \in rows} = 1..n
        <4>1. \A b \in rows : b.seq \in 1..n
          BY <1>2, <1>4, <1>5, <3>1
        <4>2. \A i \in 1..n : \E b \in rows : b.seq = i
          BY <1>2, <1>4, <1>6, <3>1
        <4>3. QED
          BY <4>1, <4>2
      <3>4. \A b \in rows : SamePolicy(b, counters'[k])
        BY <1>3, <1>4, <1>5, <2>2, <3>1
      <3>5. \A a, b \in rows : (a.mid = b.mid \/ a.seq = b.seq) => a = b
        <4>1. \A a, b \in Of(r.key) : (a.mid = b.mid \/ a.seq = b.seq) => a = b
          <5>1. CASE counters[r.key] = NoRow
            BY <1>1, <5>1, BindingsOf
          <5>2. CASE counters[r.key] # NoRow
            BY <1>1, <1>2, <5>2 DEF TablesInv, StoreIsSound
          <5>3. QED
            BY <5>1, <5>2
        <4>2. \A b \in Of(r.key) : b.mid # new.mid /\ b.seq # new.seq
          BY <1>2, <1>4, <1>5
        <4>3. QED
          BY <3>1, <4>1, <4>2
      <3>6. QED
        BY <1>2, <1>3, <2>2, <3>2, <3>3, <3>4, <3>5 DEF rows
    <2>3. QED
      BY <2>1, <2>2
  <1>8. ASSUME NEW k \in Keys, NEW l \in Keys, k # l,
               counters'[k] # NoRow, counters'[l] # NoRow, k[2] = l[2],
               counters'[k].prefix = counters'[l].prefix
        PROVE  FALSE
    <2>1. \A x, y \in Keys :
            (counters[x] # NoRow /\ counters[y] # NoRow /\ x[2] = y[2]
               /\ counters[x].prefix = counters[y].prefix) => x = y
      BY <1>1 DEF TablesInv, StoreIsSound
    <2>2. IF counters[r.key] = NoRow THEN Alone(r) ELSE SamePolicy(counters[r.key], r)
      BY <1>1 DEF CallFits, r
    <2>3. counters'[r.key].prefix = r.prefix
      BY <1>3 DEF CounterWith
    <2>4. \A x \in Keys \ {r.key} :
            (counters[x] # NoRow /\ x[2] = r.key[2]) => counters[x].prefix # r.prefix
      BY <1>2, <2>1, <2>2 DEF Alone, SamePolicy
    <2>5. QED
      BY <1>3, <1>8, <2>1, <2>3, <2>4
  <1>9. StoreIsSound'
    BY <1>7, <1>8 DEF StoreIsSound, SamePolicy
  <1>10. \A k \in Keys : counters'[k] # NoRow => counters'[k].last >= 1
    <2>1. counters'[r.key].last = n
      BY <1>3 DEF CounterWith
    <2>2. QED
      BY <1>1, <1>2, <1>3, <2>1 DEF TablesInv
  <1>11. QED
    BY <1>9, <1>10

\* What another call has written still fits after c's number is committed.
LEMMA OthersFit ==
  ASSUME IInv, NEW c \in Connections, NEW d \in Connections \ {c},
         Elsewhere(c), Finishes(c)
  PROVE  CallFits(d)'
  <1> DEFINE r == req[c]
             s == req[d]
  <1>1. /\ TypeInv /\ CallFits(d) /\ pc[c] = "commit" /\ r.key \in Keys
        /\ counters \in [Keys -> CounterRow \cup {NoRow}]
        /\ pc'[d] = pc[d] /\ req'[d] = s /\ written'[d] = written[d]
    BY DEF IInv, TablesInv, Finishes, Elsewhere, TypeInv, CallTyped, AllocationRequest
  <1>2. CASE pc[d] \notin Looked
    BY <1>1, <1>2 DEF CallFits, Looked, Locking
  <1>3. CASE pc[d] \in Looked
    <2>1. Replays(s)' = {}
      <3>1. r.key # s.key \/ r.mid # s.mid
        BY <1>1, <1>3 DEF IInv, LocksInv
      <3>2. Replays(s) = {}
        BY <1>1, <1>3 DEF CallFits
      <3>3. bindings' = bindings \cup {Binding(r, NextOf(r.key))}
        BY DEF Finishes
      <3>4. QED
        BY <1>1, <3>1, <3>2, <3>3 DEF Replays, Binding
    <2>2. CASE pc[d] \in Locking
      <3>1. ~Overlap(r, s)
        BY <1>1, <2>2 DEF IInv, LocksInv, Locking
      <3>2. s.key \in Keys
        BY <1>1, <2>2, CallHas DEF Locking
      <3>3. /\ counters'[r.key] = CounterWith(r, NextOf(r.key))
            /\ \A k \in Keys \ {r.key} : counters'[k] = counters[k]
        BY <1>1 DEF Finishes
      <3>4. counters'[s.key] = counters[s.key] /\ NextOf(s.key)' = NextOf(s.key)
        BY <1>1, <3>1, <3>2, <3>3 DEF Overlap, NextOf
      <3>5. Alone(s) => Alone(s)'
        BY <1>1, <3>1, <3>3 DEF Alone, Overlap, CounterWith
      <3>6. QED
        BY <1>1, <2>1, <2>2, <3>4, <3>5 DEF CallFits, Locking, Looked
    <2>3. CASE pc[d] = "seed"
      BY <1>1, <2>1, <2>3 DEF CallFits, Locking, Looked
    <2>4. QED
      BY <1>3, <2>2, <2>3 DEF Looked, Locking
  <1>4. QED
    BY <1>2, <1>3

\* And so does what c has written.
LEMMA OwnFits ==
  ASSUME IInv, NEW c \in Connections, Moves(c)
  PROVE  CallFits(c)'
  <1> DEFINE r == req[c]
             n == NextOf(r.key)
             w == written[c]
  <1>1. TypeInv /\ CallFits(c) /\ w \in Rows
    BY Typed DEF IInv, TablesInv
  <1>2. /\ \A rows : LET v == [w EXCEPT !.counters = rows] IN
             v.counters = rows /\ v.bindings = w.bindings
        /\ \A rows : LET v == [w EXCEPT !.bindings = rows] IN
             v.counters = w.counters /\ v.bindings = rows
    BY <1>1 DEF Rows
  <1>3. CASE Ends(c) \/ Finishes(c)
    <2>1. written'[c].counters = NoCounters /\ written'[c].bindings = {}
      <3>1. Nothing.counters = NoCounters /\ Nothing.bindings = {}
        <4>1. Nothing.bindings = {}
          BY DEF Nothing
        <4>2. QED
          BY <4>1 DEF NoCounters
      <3>2. QED
        BY <1>1, <1>3, <3>1 DEF Ends, Finishes, CallFits, Locking
    <2>2. pc'[c] \in {"idle", "replay"}
      BY <1>3 DEF Ends, Finishes
    <2>3. NoCounters' = NoCounters
      BY DEF NoCounters, Nothing
    <2>4. QED
      BY <2>1, <2>2, <2>3 DEF CallFits, Locking, Looked
  <1>4. CASE Inserts(c)
    <2>1. /\ written'[c].counters = w.counters /\ written'[c].bindings = w.bindings
          /\ UNCHANGED <<counters, bindings, pc, req>>
      <3>1. \/ written' = written
            \/ \E rows : written'[c] = [w EXCEPT !.refs = rows]
        BY <1>4 DEF Inserts
      <3>2. written'[c].counters = w.counters /\ written'[c].bindings = w.bindings
        <4>1. CASE written' = written
          BY <4>1
        <4>2. ASSUME NEW rows, written'[c] = [w EXCEPT !.refs = rows]
              PROVE  written'[c].counters = w.counters /\ written'[c].bindings = w.bindings
          BY <1>1, <4>2 DEF Rows
        <4>3. QED
          BY <3>1, <4>1, <4>2
      <3>3. QED
        BY <1>4, <3>2 DEF Inserts
    <2>2. QED
      BY <1>1, <2>1 DEF CallFits, Replays, Alone, NextOf
  <1>5. CASE Looks(c)
    BY <1>1, <1>5 DEF Looks, tables, CallFits, Replays, Locking, Looked
  <1>6. CASE Locks(c)
    <2>1. /\ pc[c] = "seed" /\ pc'[c] = "advance" /\ UNCHANGED <<counters, bindings, req>>
          /\ w.counters = NoCounters /\ w.bindings = {} /\ Replays(r) = {}
      BY <1>1, <1>6 DEF Locks, tables, CallFits, Locking, Looked
    <2>2. /\ written'[c].bindings = {}
          /\ IF counters[r.key] = NoRow
             THEN written'[c].counters = Row(r.key, CounterWith(r, 0)) /\ Alone(r)
             ELSE written'[c].counters = NoCounters
      <3>1. CASE counters[r.key] = NoRow
        <4>1. written'[c] = [w EXCEPT !.counters = Row(r.key, CounterWith(r, 0))] /\ Alone(r)
          BY <1>6, <3>1 DEF Locks
        <4>2. QED
          BY <1>2, <2>1, <3>1, <4>1
      <3>2. CASE counters[r.key] # NoRow
        BY <1>6, <2>1, <3>2 DEF Locks
      <3>3. QED
        BY <3>1, <3>2
    <2>3. QED
      BY <2>1, <2>2 DEF CallFits, Replays, Alone, Locking, Looked
  <1>7. CASE Counts(c)
    <2>1. /\ pc[c] = "advance" /\ pc'[c] = "bind" /\ UNCHANGED <<counters, bindings, req>>
          /\ w.bindings = {} /\ Replays(r) = {} /\ n <= Capacity[r.width]
          /\ IF counters[r.key] = NoRow THEN Alone(r) ELSE SamePolicy(counters[r.key], r)
      BY <1>1, <1>7 DEF Counts, tables, CallFits, Looked
    <2>2. written'[c].bindings = {} /\ written'[c].counters = Row(r.key, CounterWith(r, n))
      BY <1>2, <1>7, <2>1 DEF Counts
    <2>3. QED
      BY <2>1, <2>2 DEF CallFits, Replays, Alone, NextOf, Locking, Looked
  <1>8. CASE Binds(c)
    <2>1. /\ pc[c] = "bind" /\ pc'[c] = "commit" /\ UNCHANGED <<counters, bindings, req>>
          /\ Replays(r) = {} /\ n <= Capacity[r.width]
          /\ IF counters[r.key] = NoRow THEN Alone(r) ELSE SamePolicy(counters[r.key], r)
          /\ w.counters = Row(r.key, CounterWith(r, n))
      BY <1>1, <1>8 DEF Binds, tables, CallFits, Looked
    <2>2. /\ written'[c].bindings = {Binding(r, n)}
          /\ written'[c].counters = Row(r.key, CounterWith(r, n))
      BY <1>2, <1>8, <2>1 DEF Binds
    <2>3. QED
      BY <2>1, <2>2 DEF CallFits, Replays, Alone, NextOf, Locking, Looked
  <1>9. QED
    BY <1>3, <1>4, <1>5, <1>6, <1>7, <1>8 DEF Moves

LEMMA TablesStep ==
  ASSUME IInv, Next
  PROVE  TablesInv'
  <1>1. PICK c \in Connections : Moves(c)
    BY NextMoves
  <1>2. TablesInv /\ Elsewhere(c) /\ CallFits(c)'
    BY <1>1, OwnFits DEF IInv, Moves
  <1>3. CASE Finishes(c)
    BY <1>2, <1>3, SoundStep, OthersFit DEF TablesInv
  <1>4. CASE UNCHANGED <<counters, bindings>>
    <2>1. StoreIsSound'
      BY <1>2, <1>4 DEF TablesInv, StoreIsSound
    <2>2. \A d \in Connections \ {c} : CallFits(d)'
      BY <1>2, <1>4 DEF TablesInv, Elsewhere, CallFits, Replays, Alone, NextOf
    <2>3. QED
      BY <1>2, <1>4, <2>1, <2>2 DEF TablesInv
  <1>5. QED
    BY <1>1, <1>3, <1>4
       DEF Moves, Ends, Inserts, Looks, Locks, Counts, Binds, tables

-----------------------------------------------------------------------------
(* Refusals. *)

\* What a code says of the committed tables.
Refused(r, code) ==
  /\ code = "sequence_overflow" =>
       /\ counters[r.key] # NoRow /\ SamePolicy(counters[r.key], r)
       /\ counters[r.key].last = Capacity[r.width]
       /\ Replays(r) = {}
  /\ (code = "invalid_allocation_policy" /\ r.width \in ValidWidths) =>
       counters[r.key] # NoRow /\ ~SamePolicy(counters[r.key], r)

LEMMA RefusalsAre ==
  RefusalIsFinal <=> \A c \in Connections : Refused(req[c], answer[c])
  BY DEF RefusalIsFinal, Refused

\* Nobody changes the policy of a counter, or a full counter.
LEMMA RefusalStays ==
  ASSUME IInv, NEW c \in Connections, Moves(c),
         NEW r \in AllocationRequest, NEW code, Refused(r, code)
  PROVE  Refused(r, code)'
  <1> DEFINE s == req[c]
             n == NextOf(s.key)
  <1>1. CASE UNCHANGED <<counters, bindings>>
    BY <1>1 DEF Refused, Replays
  <1>2. CASE Finishes(c)
    <2>1. /\ TypeInv /\ CallFits(c) /\ pc[c] = "commit"
          /\ counters \in [Keys -> CounterRow \cup {NoRow}]
          /\ s.key \in Keys /\ n \in Nat \ {0} /\ CounterWith(s, n) \in CounterRow
          /\ Capacity[s.width] \in Nat \ {0} /\ r.key \in Keys
      BY <1>2, CallHas, WidthsAssumption
         DEF IInv, TablesInv, Finishes, TypeInv, AllocationRequest
    <2>2. /\ n <= Capacity[s.width]
          /\ counters[s.key] # NoRow => SamePolicy(counters[s.key], s)
      BY <2>1 DEF CallFits
    <2>3. /\ counters'[s.key] = CounterWith(s, n) /\ counters'[s.key] # NoRow
          /\ \A k \in Keys \ {s.key} : counters'[k] = counters[k]
          /\ bindings' = bindings \cup {Binding(s, n)}
      BY <1>2, <2>1, NoRowAssumption DEF Finishes
    <2>4. CASE r.key # s.key
      <3>1. Replays(r)' = Replays(r)
        BY <2>3, <2>4 DEF Replays, Binding
      <3>2. QED
        BY <2>1, <2>3, <2>4, <3>1 DEF Refused
    <2>5. CASE r.key = s.key /\ counters[r.key] # NoRow
      <3>1. n = counters[s.key].last + 1 /\ counters[s.key].last \in Nat
        BY <2>1, <2>5 DEF NextOf, CounterRow
      <3>2. code # "sequence_overflow"
        BY <2>1, <2>2, <2>5, <3>1 DEF Refused, SamePolicy
      <3>3. SamePolicy(counters'[r.key], r) <=> SamePolicy(counters[r.key], r)
        BY <2>2, <2>3, <2>5 DEF SamePolicy, CounterWith
      <3>4. QED
        BY <2>3, <2>5, <3>2, <3>3 DEF Refused
    <2>6. CASE r.key = s.key /\ counters[r.key] = NoRow
      BY <2>3, <2>6 DEF Refused
    <2>7. QED
      BY <2>4, <2>5, <2>6
  <1>3. QED
    BY <1>1, <1>2 DEF Moves, Ends, Inserts, Looks, Locks, Counts, Binds, tables

\* A code that no refusal has.
Harmless(code) == code \notin {"sequence_overflow", "invalid_allocation_policy"}

\* What an action leaves of the last answer of its call.
AnswerLeft(c) ==
  \/ req'[c] = req[c] /\ answer'[c] = answer[c]
  \/ Harmless(answer'[c])
  \/ req'[c].width \notin ValidWidths /\ answer'[c] # "sequence_overflow"
  \/ req'[c] = req[c] /\ req[c] \in AllocationRequest /\ Refused(req[c], answer'[c])

LEMMA FailAnswers ==
  ASSUME TypeInv, NEW c \in Connections, NEW code, Fail(c, code)
  PROVE  answer'[c] = code /\ req'[c] = req[c]
  BY DEF Fail, End, TypeInv

LEMMA AllocationAnswers ==
  ASSUME IInv, NEW c \in Connections, Allocation(c)
  PROVE  AnswerLeft(c)
  <1> DEFINE r == req[c]
  <1>1. /\ TypeInv /\ TablesInv /\ CallFits(c)
        /\ answer \in [Connections -> Codes \cup {"ok", "lost"}]
    BY DEF IInv, TablesInv, TypeInv
  <1>2. ASSUME NEW step, NEW rows, Proceed(c, step, rows) PROVE AnswerLeft(c)
    BY <1>2 DEF Proceed, AnswerLeft
  <1>3. ASSUME NEW row, Return(c, row) PROVE AnswerLeft(c)
    BY <1>1, <1>3 DEF Return, End, AnswerLeft, Harmless
  <1>4. CASE Replay(c)
    <2>1. ASSUME NEW b \in Replays(r), ~SamePolicy(b, r),
                 Fail(c, "invalid_allocation_policy")
          PROVE  AnswerLeft(c)
      <3>1. b \in bindings /\ b.key = r.key
        BY <2>1 DEF Replays
      <3>2. counters[r.key] # NoRow /\ SamePolicy(b, counters[r.key])
        BY <1>1, <3>1, BindingsOf
      <3>3. Refused(r, "invalid_allocation_policy")
        BY <2>1, <3>2 DEF Refused, SamePolicy
      <3>4. r \in AllocationRequest
        BY <1>1, <1>4, CallHas DEF Replay
      <3>5. QED
        BY <1>1, <2>1, <3>3, <3>4, FailAnswers DEF AnswerLeft
    <2>2. QED
      BY <1>2, <1>3, <1>4, <2>1 DEF Replay
  <1>5. CASE Seed(c)
    <2>1. Fail(c, "allocation_conflict") \/ \E rows : Proceed(c, "advance", rows)
      BY <1>5 DEF Seed
    <2>2. QED
      BY <1>1, <1>2, <2>1, FailAnswers DEF AnswerLeft, Harmless
  <1>6. CASE Advance(c)
    <2> DEFINE row == CounterOf(c, r.key)
    <2>1. /\ pc[c] = "advance" /\ r \in AllocationRequest /\ r.key \in Keys
          /\ counters[r.key] \in CounterRow \cup {NoRow}
          /\ Capacity[r.width] \in Nat \ {0} /\ Replays(r) = {}
      BY <1>1, <1>6, CallHas, WidthsAssumption DEF Advance, TypeInv, CallFits, Looked
    <2>2. CASE counters[r.key] = NoRow
      <3>1. written[c].counters = Row(r.key, CounterWith(r, 0))
        BY <1>1, <2>1, <2>2 DEF CallFits
      <3>2. row = CounterWith(r, 0)
        BY <3>1, SeesItsOwn
      <3>3. SamePolicy(row, r) /\ ~(row.last >= Capacity[r.width])
        BY <2>1, <3>2 DEF SamePolicy, CounterWith
      <3>4. QED
        BY <1>2, <1>6, <3>3 DEF Advance
    <2>3. CASE counters[r.key] # NoRow
      <3>1. written[c].counters = NoCounters
        BY <1>1, <2>1, <2>3 DEF CallFits
      <3>2. row = counters[r.key] /\ row \in CounterRow
        BY <2>1, <2>3, <3>1, SeesCommitted
      <3>3. CASE ~SamePolicy(row, r) /\ Fail(c, "invalid_allocation_policy")
        <4>1. Refused(r, "invalid_allocation_policy")
          BY <2>3, <3>2, <3>3 DEF Refused
        <4>2. QED
          BY <1>1, <2>1, <3>3, <4>1, FailAnswers DEF AnswerLeft
      <3>4. CASE /\ SamePolicy(row, r) /\ row.last >= Capacity[r.width]
                 /\ Fail(c, "sequence_overflow")
        <4>1. row.last <= Capacity[r.width]
          BY <1>1, <2>1, <2>3, <3>2, <3>4 DEF TablesInv, StoreIsSound, SamePolicy
        <4>2. row.last = Capacity[r.width]
          BY <2>1, <3>2, <3>4, <4>1 DEF CounterRow
        <4>3. Refused(r, "sequence_overflow")
          BY <2>1, <2>3, <3>2, <3>4, <4>2 DEF Refused
        <4>4. QED
          BY <1>1, <2>1, <3>4, <4>3, FailAnswers DEF AnswerLeft
      <3>5. QED
        BY <1>2, <1>6, <3>3, <3>4 DEF Advance
    <2>4. QED
      BY <2>2, <2>3
  <1>7. CASE Bind(c)
    <2>1. Fail(c, "allocation_conflict") \/ \E rows : Proceed(c, "commit", rows)
      BY <1>7 DEF Bind
    <2>2. QED
      BY <1>1, <1>2, <2>1, FailAnswers DEF AnswerLeft, Harmless
  <1>8. CASE Finish(c)
    BY <1>3, <1>8 DEF Finish
  <1>9. CASE Victim(c)
    BY <1>1, <1>9 DEF Victim, Retry, End, AnswerLeft, Harmless
  <1>10. QED
    BY <1>4, <1>5, <1>6, <1>7, <1>8, <1>9 DEF Allocation

LEMMA NextAnswers ==
  ASSUME IInv, Next
  PROVE  \E c \in Connections : Moves(c) /\ AnswerLeft(c)
  <1>1. TypeInv
    BY DEF IInv
  <1>2. PICK c \in Connections :
          \/ CallerBegin(c) \/ CallerCommit(c) \/ CallerRollback(c) \/ Disconnect(c)
          \/ \E row \in Reservations : Reserve(c, row)
          \/ \E r \in Requests : CallAllocate(c, r)
          \/ Allocation(c)
    BY DEF Next
  <1>3. CASE \/ CallerBegin(c) \/ CallerCommit(c) \/ CallerRollback(c)
             \/ \E row \in Reservations : Reserve(c, row)
    <2>1. UNCHANGED <<req, answer>>
      BY <1>3 DEF CallerBegin, CallerCommit, CallerRollback, Reserve, call
    <2>2. QED
      BY <1>3, <2>1, CallerMoves, ReserveMoves DEF AnswerLeft
  <1>4. CASE Disconnect(c)
    BY <1>1, <1>4, FailAnswers, CallerMoves DEF Disconnect, AnswerLeft, Harmless
  <1>5. ASSUME NEW r \in Requests, CallAllocate(c, r) PROVE AnswerLeft(c)
    <2>1. /\ req' = [req EXCEPT ![c] = r]
          /\ \/ answer' = [answer EXCEPT ![c] = "ok"]
             \/ /\ r.width \notin ValidWidths
                /\ answer' = [answer EXCEPT ![c] = "invalid_allocation_policy"]
      BY <1>5 DEF CallAllocate, End
    <2>2. req'[c] = r /\ (answer'[c] = "ok" \/
            (r.width \notin ValidWidths /\ answer'[c] = "invalid_allocation_policy"))
      BY <1>1, <2>1 DEF TypeInv
    <2>3. QED
      BY <2>2 DEF AnswerLeft, Harmless
  <1>6. QED
    BY <1>2, <1>3, <1>4, <1>5, AllocationAnswers, CallAllocateMoves, ReplayMoves,
       SeedMoves, AdvanceMoves, BindMoves, FinishMoves, VictimMoves DEF Allocation

LEMMA RefusalStep ==
  ASSUME IInv, Next
  PROVE  RefusalIsFinal'
  <1>1. PICK c \in Connections : Moves(c) /\ AnswerLeft(c)
    BY NextAnswers
  <1>2. TypeInv /\ RefusalIsFinal /\ Elsewhere(c)
    BY <1>1 DEF IInv, Moves
  <1>3. ASSUME NEW d \in Connections,
               req'[d] = req[d], answer'[d] = answer[d]
        PROVE  Refused(req[d], answer[d])'
    <2>1. Refused(req[d], answer[d])
      BY <1>2, RefusalsAre
    <2>2. CASE answer[d] \in Codes
      <3> DEFINE r == req[d]
                 code == answer[d]
      <3>1. r \in AllocationRequest
        BY <1>2, <2>2, Typed DEF CallTyped
      <3>2. \A s \in AllocationRequest : \A any :
              Refused(s, any) => Refused(s, any)'
        BY <1>1, RefusalStays
      <3>3. QED
        BY <1>3, <2>1, <3>1, <3>2 DEF Refused
    <2>3. CASE answer[d] \notin Codes
      BY <1>3, <2>3 DEF Refused, Codes
    <2>4. QED
      BY <2>2, <2>3
  <1>4. Refused(req[c], answer[c])'
    <2>1. CASE req'[c] = req[c] /\ answer'[c] = answer[c]
      BY <1>3, <2>1
    <2>2. CASE Harmless(answer'[c])
      BY <2>2 DEF Refused, Harmless
    <2>3. CASE req'[c].width \notin ValidWidths /\ answer'[c] # "sequence_overflow"
      BY <2>3 DEF Refused
    <2>4. CASE /\ req'[c] = req[c] /\ req[c] \in AllocationRequest
               /\ Refused(req[c], answer'[c])
      BY <1>1, <2>4, RefusalStays DEF Refused
    <2>5. QED
      BY <1>1, <2>1, <2>2, <2>3, <2>4 DEF AnswerLeft
  <1>5. \A d \in Connections \ {c} : Refused(req[d], answer[d])'
    BY <1>2, <1>3 DEF Elsewhere
  <1>6. QED
    BY <1>4, <1>5 DEF RefusalIsFinal, Refused

-----------------------------------------------------------------------------
(* Theorems of the specification. *)

\* The inductive invariant: every state of every execution satisfies it.
THEOREM Invariant == Spec => []IInv
  <1>1. Init => IInv
    BY InvInit
  <1>2. IInv /\ [Next]_vars => IInv'
    <2>1. ASSUME IInv, Next PROVE IInv'
      BY <2>1, TypeStep, TransactionsStep, LocksStep, RefsStep, TablesStep,
         RefusalStep DEF IInv
    <2>2. ASSUME IInv, UNCHANGED vars PROVE IInv'
      <3>1. UNCHANGED <<refs, counters, bindings, written, begun, pc, req, attempt,
                        answer, results, acked>>
        BY <2>2 DEF vars
      <3>2. TypeInv' /\ TransactionsInv'
        BY <2>2, <3>1 DEF IInv, TypeInv, CallTyped, TransactionsInv
      <3>3. LocksInv' /\ RefsInv'
        BY <2>2, <3>1 DEF IInv, LocksInv, RefsInv
      <3>4. TablesInv'
        <4>1. StoreIsSound'
          BY <2>2, <3>1 DEF IInv, TablesInv, StoreIsSound
        <4>2. \A c \in Connections : CallFits(c)'
          BY <2>2, <3>1 DEF IInv, TablesInv, CallFits, Replays, Alone, NextOf
        <4>3. QED
          BY <2>2, <3>1, <4>1, <4>2 DEF IInv, TablesInv
      <3>5. RefusalIsFinal'
        BY <2>2, <3>1 DEF IInv, RefusalIsFinal, Replays
      <3>6. QED
        BY <3>2, <3>3, <3>4, <3>5 DEF IInv
    <2>3. QED
      BY <2>1, <2>2
  <1>3. QED
    BY <1>1, <1>2, PTL DEF Spec

\* Every variable keeps the type of the column, lock or local it models.
THEOREM TypeCorrect == Spec => []TypeOK
  <1>1. IInv => TypeOK
    <2> SUFFICES ASSUME IInv PROVE TypeOK
      OBVIOUS
    <2>1. TypeInv
      BY DEF IInv
    <2>2. ASSUME NEW c \in Connections
          PROVE  \A k \in DOMAIN written[c].counters :
                   k \in Keys /\ written[c].counters[k] \in CounterRow \cup {NoRow}
      <3>1. written[c].counters \in CounterRows
        BY <2>1, Typed DEF Rows
      <3>2. PICK D \in SUBSET Keys : written[c].counters \in [D -> CounterRow \cup {NoRow}]
        BY <3>1, CounterRowsAre
      <3>3. QED
        BY <3>2
    <2>3. QED
      BY <2>1, <2>2, Typed DEF TypeInv, TypeOK
  <1>2. QED
    BY <1>1, Invariant, PTL

\* The committed tables keep the contract's counters: numbers 1..last, each
\* bound once and under the counter's policy, one number for a MID, and one
\* counter for a prefix and scope.  Whatever the ports, and whoever is a victim.
THEOREM StoreIsSoundHolds == Spec => []StoreIsSound
  <1>1. IInv => StoreIsSound
    BY DEF IInv, TablesInv
  <1>2. QED
    BY <1>1, Invariant, PTL

\* sequence_overflow and invalid_allocation_policy are said of the committed
\* tables, and stay true of them.
THEOREM RefusalIsFinalHolds == Spec => []RefusalIsFinal
  <1>1. IInv => RefusalIsFinal
    BY DEF IInv
  <1>2. QED
    BY <1>1, Invariant, PTL

-----------------------------------------------------------------------------
(* Answers, where a call of allocate is one statement.                      *)

WholeCalls == \A c \in Connections : ~Port[c].stepwise

\* Rows are never removed.
LEMMA RowsStay ==
  ASSUME NEW c \in Connections, Moves(c)
  PROVE  refs \subseteq refs' /\ bindings \subseteq bindings'
  BY DEF Moves, Ends, Inserts, Looks, Locks, Counts, Binds, Finishes, tables

\* What c's step does to the answers.
AnswersKept(c) ==
  /\ \A a \in acked' \ acked : Stored(a)'
  /\ \A a \in results'[c] : Held(c, a)'
  /\ c \notin begun' => written'[c].refs = {}

LEMMA NothingWritten == Nothing.refs = {}
  BY DEF Nothing

LEMMA EndedAnswers ==
  ASSUME TypeInv, NEW c \in Connections, Commit(c) \/ Rollback(c), acked' = acked
  PROVE  AnswersKept(c)
  BY OthersKeep, NothingWritten DEF AnswersKept

\* Nothing was answered in the transaction of a call.
LEMMA ProceedAnswers ==
  ASSUME IInv, NEW c \in Connections, pc[c] # "idle",
         NEW step, NEW rows, Proceed(c, step, rows), rows.refs = {}
  PROVE  AnswersKept(c)
  <1>1. results[c] = {} /\ results' = results /\ acked' = acked
    BY DEF IInv, TransactionsInv, Proceed
  <1>2. written'[c] = rows
    BY ProceedMoves DEF IInv
  <1>3. QED
    BY <1>1, <1>2 DEF AnswersKept

\* What was answered in a transaction is stored with it.
LEMMA CommittedAnswers ==
  ASSUME TypeInv, NEW c \in Connections, Commit(c), bindings \subseteq bindings',
         acked' = acked \cup results[c], \A a \in results[c] : Held(c, a)
  PROVE  AnswersKept(c)
  <1>1. refs' = refs \cup written[c].refs /\ results'[c] = {} /\ written'[c].refs = {}
    BY OthersKeep, NothingWritten DEF Commit
  <1>2. \A a \in results[c] : Stored(a)'
    BY <1>1 DEF Held, Stored
  <1>3. QED
    BY <1>1, <1>2 DEF AnswersKept

LEMMA ReturnAnswers ==
  ASSUME TypeInv, NEW c \in Connections, NEW row, Return(c, row), row \in bindings'
  PROVE  AnswersKept(c)
  <1>1. results'[c] = {} /\ written'[c].refs = {}
    BY OthersKeep, NothingWritten DEF Return
  <1>2. acked' \in {acked, acked \cup {[kind |-> "allocated", row |-> row]}}
    BY DEF Return
  <1>3. Stored([kind |-> "allocated", row |-> row])'
    BY DEF Stored
  <1>4. QED
    BY <1>1, <1>2, <1>3 DEF AnswersKept

LEMMA ReserveAnswers ==
  ASSUME IInv, WholeCalls, NEW c \in Connections, NEW row \in Reservations,
         Reserve(c, row), \A a \in results[c] : Held(c, a),
         c \notin begun => written[c].refs = {}
  PROVE  AnswersKept(c)
  <1> DEFINE won == \A other \in refs \cup written[c].refs : other.ref # row.ref
             new == IF won THEN {row} ELSE {}
             result == IF won THEN [kind |-> "won", row |-> row]
                              ELSE [kind |-> "refused", ref |-> row.ref]
  <1>1. /\ TypeInv /\ written[c] \in Rows /\ DOMAIN written = Connections
        /\ DOMAIN results = Connections /\ pc[c] = "idle"
        /\ results[c] # {} => c \in begun
    BY Typed DEF IInv, TypeInv, TransactionsInv, WholeCalls, Reserve
  <1>2. /\ IF c \in begun
           THEN written' = [written EXCEPT ![c].refs = @ \cup new] /\ UNCHANGED refs
           ELSE refs' = refs \cup new /\ UNCHANGED written
        /\ Told(c, result) \/ UNCHANGED <<results, acked>>
        /\ bindings' = bindings
    BY <1>1 DEF Reserve, InTransaction
  <1>3. refs' \cup written'[c].refs = refs \cup written[c].refs \cup new
        /\ refs \subseteq refs' /\ written[c].refs \subseteq written'[c].refs
    <2> HIDE DEF new
    <2>1. [written[c] EXCEPT !.refs = @ \cup new].refs = written[c].refs \cup new
      BY <1>1 DEF Rows
    <2>2. QED
      BY <1>1, <1>2, <2>1
  <1>4. PICK told :
          /\ Told(c, told) \/ UNCHANGED <<results, acked>>
          /\ \/ row \in new /\ told.kind = "won" /\ told.row = row
             \/ /\ told.kind = "refused" /\ told.ref = row.ref
                /\ \E other \in refs \cup written[c].refs : other.ref = row.ref
    <2>1. \/ row \in new /\ result.kind = "won" /\ result.row = row
          \/ /\ result.kind = "refused" /\ result.ref = row.ref
             /\ \E other \in refs \cup written[c].refs : other.ref = row.ref
      OBVIOUS
    <2> HIDE DEF new, result, won
    <2>2. QED
      BY <1>2, <2>1
  <1> HIDE DEF new, result, won
  <1>5. Held(c, told)'
    <2>1. \A other \in refs \cup written[c].refs \cup new :
            other \in refs' \/ other \in written'[c].refs
      BY <1>3
    <2>2. QED
      BY <1>4, <2>1 DEF Held, Stored
  <1>6. \A a \in results[c] : Held(c, a)'
    BY <1>2, <1>3 DEF Held, Stored
  <1>7. CASE c \in begun
    <2>1. /\ acked' = acked /\ results'[c] \in {results[c], results[c] \cup {told}}
          /\ c \in begun'
      BY <1>1, <1>2, <1>4, <1>7 DEF Told, Reserve
    <2>2. QED
      BY <1>5, <1>6, <2>1 DEF AnswersKept
  <1>8. CASE c \notin begun
    <2>1. written'[c].refs = written[c].refs /\ refs' = refs \cup new
      BY <1>2, <1>8
    <2>2. written[c].refs = {} /\ begun' = begun
      BY <1>8 DEF Reserve
    <2>3. results'[c] = {} /\ acked' \in {acked, acked \cup {told}}
      BY <1>1, <1>2, <1>4, <1>8 DEF Told
    <2>4. QED
      BY <1>5, <2>1, <2>2, <2>3 DEF AnswersKept, Held
  <1>9. QED
    BY <1>7, <1>8

LEMMA CallAllocateAnswers ==
  ASSUME IInv, AnswersInv, WholeCalls, NEW c \in Connections,
         NEW r \in Requests, CallAllocate(c, r)
  PROVE  AnswersKept(c)
  <1>1. TypeInv /\ Moves(c) /\ bindings \subseteq bindings'
    BY CallAllocateMoves, RowsStay DEF IInv
  <1>2. \/ Commit(c) /\ acked' = acked \cup results[c]
        \/ Rollback(c) /\ acked' = acked
    BY DEF CallAllocate, WholeCalls
  <1>3. \A a \in results[c] : Held(c, a)
    BY DEF AnswersInv
  <1>4. QED
    BY <1>1, <1>2, <1>3, CommittedAnswers, EndedAnswers

LEMMA AllocationAnswersKept ==
  ASSUME IInv, AnswersInv, NEW c \in Connections, Allocation(c)
  PROVE  AnswersKept(c)
  <1>1. /\ TypeInv /\ CallFits(c) /\ written[c] \in Rows
        /\ pc[c] # "idle" => written[c].refs = {}
    BY Typed DEF IInv, TablesInv, AnswersInv, TransactionsInv
  <1>2. ASSUME NEW code, Fail(c, code) PROVE AnswersKept(c)
    BY <1>1, <1>2, EndedAnswers DEF Fail
  <1>3. ASSUME NEW rows
        PROVE  /\ [written[c] EXCEPT !.counters = rows].refs = written[c].refs
               /\ [written[c] EXCEPT !.bindings = rows].refs = written[c].refs
    BY <1>1 DEF Rows
  <1>4. CASE Replay(c)
    <2>1. pc[c] = "replay"
      BY <1>4 DEF Replay
    <2>2. CASE Proceed(c, "seed", written[c])
      BY <1>1, <2>1, <2>2, ProceedAnswers
    <2>3. ASSUME NEW b \in Replays(req[c]), Return(c, b) PROVE AnswersKept(c)
      <3>1. b \in bindings'
        BY <1>4, <2>3, ReplayMoves, RowsStay DEF Replays
      <3>2. QED
        BY <1>1, <2>3, <3>1, ReturnAnswers
    <2>4. QED
      BY <1>2, <1>4, <2>2, <2>3 DEF Replay
  <1>5. CASE Seed(c)
    <2>1. pc[c] = "seed"
          /\ \/ Fail(c, "allocation_conflict")
             \/ Proceed(c, "advance", written[c])
             \/ \E rows : Proceed(c, "advance", [written[c] EXCEPT !.counters = rows])
      BY <1>5 DEF Seed
    <2>2. QED
      BY <1>1, <1>2, <1>3, <2>1, ProceedAnswers
  <1>6. CASE Advance(c)
    <2>1. pc[c] = "advance"
          /\ \/ \E code : Fail(c, code)
             \/ \E rows : Proceed(c, "bind", [written[c] EXCEPT !.counters = rows])
      BY <1>6 DEF Advance
    <2>2. QED
      BY <1>1, <1>2, <1>3, <2>1, ProceedAnswers
  <1>7. CASE Bind(c)
    <2>1. pc[c] = "bind"
          /\ \/ Fail(c, "allocation_conflict")
             \/ \E rows : Proceed(c, "commit", [written[c] EXCEPT !.bindings = rows])
      BY <1>7 DEF Bind
    <2>2. QED
      BY <1>1, <1>2, <1>3, <2>1, ProceedAnswers
  <1>8. CASE Finish(c)
    <2>1. PICK row \in written[c].bindings : Return(c, row)
      BY <1>8 DEF Finish
    <2>2. row \in bindings'
      BY <2>1 DEF Return, Commit
    <2>3. QED
      BY <1>1, <2>1, <2>2, ReturnAnswers
  <1>9. CASE Victim(c)
    BY <1>1, <1>9, EndedAnswers DEF Victim, Retry
  <1>10. QED
    BY <1>4, <1>5, <1>6, <1>7, <1>8, <1>9 DEF Allocation

LEMMA AnswersStep ==
  ASSUME IInv, AnswersInv, WholeCalls, Next
  PROVE  AnswersInv'
  <1>1. PICK c \in Connections :
          \/ CallerBegin(c) \/ CallerCommit(c) \/ CallerRollback(c) \/ Disconnect(c)
          \/ \E row \in Reservations : Reserve(c, row)
          \/ \E r \in Requests : CallAllocate(c, r)
          \/ Allocation(c)
    BY DEF Next
  <1>2. Moves(c)
    BY <1>1, CallerMoves, ReserveMoves, CallAllocateMoves, ReplayMoves, SeedMoves,
       AdvanceMoves, BindMoves, FinishMoves, VictimMoves DEF Allocation
  <1>3. /\ TypeInv /\ Elsewhere(c) /\ refs \subseteq refs' /\ bindings \subseteq bindings'
        /\ \A a \in results[c] : Held(c, a)
        /\ c \notin begun => written[c].refs = {}
    BY <1>2, RowsStay DEF IInv, Moves, AnswersInv
  <1>4. AnswersKept(c)
    <2>1. CASE CallerBegin(c)
      <3>1. UNCHANGED <<refs, bindings, written, results, acked>> /\ c \in begun'
        BY <2>1 DEF CallerBegin, tables
      <3>2. QED
        BY <1>3, <3>1 DEF AnswersKept, Held, Stored
    <2>2. CASE CallerCommit(c)
      BY <1>3, <2>2, CommittedAnswers DEF CallerCommit
    <2>3. CASE CallerRollback(c) \/ Disconnect(c)
      BY <1>3, <2>3, EndedAnswers DEF CallerRollback, Disconnect, Fail
    <2>4. QED
      BY <1>1, <1>3, <2>1, <2>2, <2>3, ReserveAnswers, CallAllocateAnswers,
         AllocationAnswersKept
  <1>5. \A a \in acked : Stored(a)'
    BY <1>3 DEF AnswersInv, AckedIsStored, Stored
  <1>6. ASSUME NEW d \in Connections \ {c}
        PROVE  /\ \A a \in results'[d] : Held(d, a)'
               /\ d \notin begun' => written'[d].refs = {}
    BY <1>3, <1>6 DEF Elsewhere, AnswersInv, Held, Stored
  <1>7. QED
    BY <1>4, <1>5, <1>6 DEF AnswersKept, AnswersInv, AckedIsStored

THEOREM AnswersInvariant ==
  ASSUME WholeCalls
  PROVE  Spec => [](IInv /\ AnswersInv)
  <1>1. Init => AnswersInv
    BY DEF Init, AnswersInv, AckedIsStored, Nothing
  <1>2. IInv /\ AnswersInv /\ [Next]_vars => AnswersInv'
    <2>1. ASSUME AnswersInv, UNCHANGED vars PROVE AnswersInv'
      BY <2>1 DEF AnswersInv, AckedIsStored, Held, Stored, vars
    <2>2. QED
      BY <2>1, AnswersStep
  <1>3. QED
    BY <1>1, <1>2, Invariant, PTL DEF Spec

\* What was answered for good is in the tables, where a call of allocate is one
\* statement: behind every port but Swift's, whose single statements let a
\* reservation be answered inside the transaction of an allocation.
THEOREM AckedIsStoredHolds ==
  ASSUME WholeCalls
  PROVE  Spec => []AckedIsStored
  <1>1. AnswersInv => AckedIsStored
    BY DEF AnswersInv
  <1>2. QED
    BY <1>1, AnswersInvariant, PTL

\* And so a reservation behind such a port is never undone once it is told.
THEOREM WonIsNeverUndoneHolds ==
  ASSUME WholeCalls
  PROVE  Spec => []WonIsNeverUndone
  <1>1. TypeInv /\ AckedIsStored => WonIsNeverUndone
    BY DEF WonIsNeverUndone, AckedIsStored, Stored
  <1>2. IInv => TypeInv
    BY DEF IInv
  <1>3. QED
    BY <1>1, <1>2, Invariant, AckedIsStoredHolds, PTL

-----------------------------------------------------------------------------
(* Conflicts, where a deadlock is recognized as transient.                  *)

\* Another counter has the prefix and scope of a request.
Taken(r) ==
  \E k \in Keys \ {r.key} :
    counters[k] # NoRow /\ k[2] = r.key[2] /\ counters[k].prefix = r.prefix

\* A conflict ends a call whose attempts are used up, or whose prefix is taken.
ConflictInv ==
  \A c \in Connections :
    answer[c] = "allocation_conflict" =>
      pc[c] = "idle" /\ (attempt[c] = MaxAttempts \/ Taken(req[c]))

\* The number a call is about to bind violates no unique constraint.
LEMMA NothingViolated ==
  ASSUME IInv, NEW c \in Connections, pc[c] = "bind"
  PROVE  ~Violates(Binding(req[c], CounterOf(c, req[c].key).last))
  <1> DEFINE r == req[c]
             n == NextOf(r.key)
             new == Binding(r, n)
  <1>1. /\ TypeInv /\ TablesInv /\ CallFits(c) /\ r.key \in Keys /\ n \in Nat \ {0}
        /\ counters \in [Keys -> CounterRow \cup {NoRow}]
    BY CallHas DEF IInv, TablesInv, TypeInv
  <1>2. CounterOf(c, r.key).last = n
    <2>1. CounterOf(c, r.key) = CounterWith(r, n)
      BY <1>1, SeesItsOwn DEF CallFits
    <2>2. QED
      BY <2>1 DEF CounterWith
  <1>3. /\ Replays(r) = {}
        /\ IF counters[r.key] = NoRow THEN Alone(r) ELSE SamePolicy(counters[r.key], r)
    BY <1>1 DEF CallFits, Looked
  <1>4. new.key = r.key /\ new.seq = n /\ new.mid = r.mid /\ new.prefix = r.prefix
    BY DEF Binding
  <1>5. SUFFICES ASSUME NEW b \in bindings,
                        \/ b.key = new.key /\ (b.seq = new.seq \/ b.mid = new.mid)
                        \/ /\ b.prefix = new.prefix /\ b.key[2] = new.key[2]
                           /\ b.seq = new.seq
                 PROVE  FALSE
    BY <1>2 DEF Violates
  <1>6. /\ b.key \in Keys /\ counters[b.key] # NoRow
        /\ b.seq \in 1..counters[b.key].last /\ SamePolicy(b, counters[b.key])
    BY <1>1, BindingsOf
  <1> HIDE DEF new, n, r
  <1>7. CASE b.key = r.key
    <2>1. b.mid # r.mid
      BY <1>3, <1>7 DEF Replays
    <2>2. counters[r.key].last \in Nat /\ n = counters[r.key].last + 1
      BY <1>1, <1>6, <1>7 DEF n, NextOf, CounterRow
    <2>3. QED
      BY <1>4, <1>5, <1>6, <1>7, <2>1, <2>2
  <1>8. CASE b.key # r.key
    <2>1. counters[b.key].prefix = r.prefix /\ b.key[2] = r.key[2]
      BY <1>4, <1>5, <1>6, <1>8 DEF SamePolicy
    <2>2. counters[r.key] # NoRow /\ counters[r.key].prefix = r.prefix
      BY <1>3, <1>6, <1>8, <2>1 DEF Alone, SamePolicy
    <2>3. QED
      BY <1>1, <1>6, <1>8, <2>1, <2>2 DEF TablesInv, StoreIsSound
  <1>9. QED
    BY <1>7, <1>8

\* A counter keeps its prefix.
LEMMA TakenStays ==
  ASSUME IInv, NEW c \in Connections, Moves(c),
         NEW r \in AllocationRequest, Taken(r)
  PROVE  Taken(r)'
  <1>1. CASE UNCHANGED counters
    BY <1>1 DEF Taken
  <1>2. CASE Finishes(c)
    <2> DEFINE s == req[c]
               n == NextOf(s.key)
    <2>1. /\ TypeInv /\ CallFits(c) /\ pc[c] = "commit" /\ s.key \in Keys
          /\ counters \in [Keys -> CounterRow \cup {NoRow}]
          /\ CounterWith(s, n) \in CounterRow
      BY <1>2, CallHas DEF IInv, TablesInv, Finishes, TypeInv
    <2>2. /\ counters'[s.key] = CounterWith(s, n) /\ counters'[s.key] # NoRow
          /\ \A k \in Keys \ {s.key} : counters'[k] = counters[k]
      BY <1>2, <2>1, NoRowAssumption DEF Finishes
    <2>3. counters[s.key] # NoRow => counters'[s.key].prefix = counters[s.key].prefix
      BY <2>1, <2>2 DEF CallFits, SamePolicy, CounterWith
    <2>4. QED
      BY <2>1, <2>2, <2>3 DEF Taken
  <1>3. QED
    BY <1>1, <1>2 DEF Moves, Ends, Inserts, Looks, Locks, Counts, Binds, tables

\* What a step leaves of the conflict of its call.
ConflictLeft(c) ==
  \/ answer'[c] # "allocation_conflict"
  \/ UNCHANGED <<pc, req, attempt, answer>>
  \/ /\ pc'[c] = "idle" /\ req'[c] = req[c]
     /\ attempt'[c] = MaxAttempts \/ (Taken(req[c]) /\ req[c] \in AllocationRequest)

LEMMA AllocationConflicts ==
  ASSUME IInv, ConflictInv, NEW c \in Connections, Port[c].retries, Allocation(c)
  PROVE  ConflictLeft(c)
  <1>1. /\ TypeInv /\ TablesInv /\ CallFits(c)
        /\ answer \in [Connections -> Codes \cup {"ok", "lost"}]
        /\ attempt \in [Connections -> 1..MaxAttempts]
        /\ pc[c] # "idle" => answer[c] # "allocation_conflict"
    BY DEF IInv, TablesInv, TypeInv, ConflictInv
  <1>2. ASSUME NEW step, NEW rows, pc[c] # "idle", Proceed(c, step, rows)
        PROVE  ConflictLeft(c)
    BY <1>1, <1>2 DEF Proceed, ConflictLeft
  <1>3. ASSUME NEW row, Return(c, row) PROVE ConflictLeft(c)
    BY <1>1, <1>3 DEF Return, End, ConflictLeft
  <1>4. ASSUME NEW code, code # "allocation_conflict", Fail(c, code)
        PROVE  ConflictLeft(c)
    BY <1>1, <1>4, FailAnswers DEF ConflictLeft
  <1>5. CASE Replay(c)
    BY <1>2, <1>3, <1>4, <1>5 DEF Replay
  <1>6. CASE Seed(c)
    <2> DEFINE r == req[c]
    <2>1. /\ pc[c] = "seed" /\ r \in AllocationRequest
          /\ \A k : CounterOf(c, k) = counters[k]
      BY <1>1, <1>6, CallHas, SeesCommitted DEF Seed, CallFits, Locking
    <2>2. \/ \E rows : Proceed(c, "advance", rows)
          \/ (\E k : k \in Namesakes(c, r)) /\ Fail(c, "allocation_conflict")
      BY <1>6 DEF Seed
    <2>3. ASSUME NEW k \in Namesakes(c, r), Fail(c, "allocation_conflict")
          PROVE  ConflictLeft(c)
      <3>1. Taken(r)
        BY <2>1 DEF Namesakes, Taken
      <3>2. pc'[c] = "idle" /\ req'[c] = r
        BY <1>1, <2>3, GotoMoves DEF Fail, End
      <3>3. QED
        BY <2>1, <3>1, <3>2 DEF ConflictLeft
    <2>4. QED
      BY <1>2, <2>1, <2>2, <2>3
  <1>7. CASE Advance(c)
    BY <1>2, <1>4, <1>7 DEF Advance
  <1>8. CASE Bind(c)
    <2>1. pc[c] = "bind" /\ \E rows : Proceed(c, "commit", rows)
      BY <1>8, NothingViolated DEF Bind
    <2>2. QED
      BY <1>2, <2>1
  <1>9. CASE Finish(c)
    BY <1>3, <1>9 DEF Finish
  <1>10. CASE Victim(c)
    <2>1. pc[c] # "idle" /\ Rollback(c) /\ req' = req
      BY <1>10 DEF Victim, Retry
    <2>2. CASE attempt[c] < MaxAttempts
      BY <1>1, <1>10, <2>1, <2>2 DEF Victim, Retry, ConflictLeft
    <2>3. CASE ~(attempt[c] < MaxAttempts)
      <3>1. attempt[c] = MaxAttempts
        BY <1>1, <2>3, AttemptsAssumption
      <3>2. End(c, "allocation_conflict") /\ attempt' = attempt
        BY <1>10, <2>3 DEF Victim, Retry
      <3>3. QED
        BY <1>1, <2>1, <3>1, <3>2, GotoMoves DEF End, ConflictLeft
    <2>4. QED
      BY <2>2, <2>3
  <1>11. QED
    BY <1>5, <1>6, <1>7, <1>8, <1>9, <1>10 DEF Allocation

LEMMA ConflictStep ==
  ASSUME IInv, ConflictInv, \A c \in Connections : Port[c].retries, Next
  PROVE  ConflictInv'
  <1>1. PICK c \in Connections :
          \/ CallerBegin(c) \/ CallerCommit(c) \/ CallerRollback(c) \/ Disconnect(c)
          \/ \E row \in Reservations : Reserve(c, row)
          \/ \E r \in Requests : CallAllocate(c, r)
          \/ Allocation(c)
    BY DEF Next
  <1>2. Moves(c)
    BY <1>1, CallerMoves, ReserveMoves, CallAllocateMoves, ReplayMoves, SeedMoves,
       AdvanceMoves, BindMoves, FinishMoves, VictimMoves DEF Allocation
  <1>3. /\ TypeInv /\ Elsewhere(c)
        /\ \A r \in AllocationRequest : Taken(r) => Taken(r)'
    BY <1>2, TakenStays DEF IInv, Moves
  <1>4. ConflictLeft(c)
    <2>1. CASE \/ CallerBegin(c) \/ CallerCommit(c) \/ CallerRollback(c)
               \/ \E row \in Reservations : Reserve(c, row)
      BY <2>1 DEF CallerBegin, CallerCommit, CallerRollback, Reserve, call, ConflictLeft
    <2>2. CASE Disconnect(c)
      BY <1>3, <2>2, FailAnswers DEF Disconnect, ConflictLeft
    <2>3. ASSUME NEW r \in Requests, CallAllocate(c, r) PROVE ConflictLeft(c)
      BY <1>3, <2>3 DEF CallAllocate, End, TypeInv, ConflictLeft
    <2>4. QED
      BY <1>1, <2>1, <2>2, <2>3, AllocationConflicts
  <1>5. ASSUME NEW d \in Connections,
               pc'[d] = pc[d], req'[d] = req[d], attempt'[d] = attempt[d],
               answer'[d] = answer[d], answer'[d] = "allocation_conflict"
        PROVE  pc'[d] = "idle" /\ (attempt'[d] = MaxAttempts \/ Taken(req[d])')
    <2>1. /\ pc[d] = "idle" /\ (attempt[d] = MaxAttempts \/ Taken(req[d]))
          /\ req[d] \in AllocationRequest
      BY <1>3, <1>5, Typed DEF ConflictInv, CallTyped, Codes
    <2>2. Taken(req[d]) => Taken(req[d])'
      BY <1>3, <1>5, <2>1 DEF Taken
    <2>3. QED
      BY <1>5, <2>1, <2>2
  <1>6. answer'[c] = "allocation_conflict" =>
          pc'[c] = "idle" /\ (attempt'[c] = MaxAttempts \/ Taken(req[c])')
    BY <1>3, <1>4, <1>5 DEF ConflictLeft
  <1>7. \A d \in Connections \ {c} : answer'[d] = "allocation_conflict" =>
          pc'[d] = "idle" /\ (attempt'[d] = MaxAttempts \/ Taken(req[d])')
    BY <1>3, <1>5 DEF Elsewhere
  <1>8. QED
    BY <1>6, <1>7 DEF ConflictInv, Taken

\* An allocation_conflict is the last resort of a port that takes a deadlock for
\* transient: every other call for the MID has waited or has become a victim.
THEOREM ConflictIsLastResortHolds ==
  ASSUME \A c \in Connections : Port[c].retries
  PROVE  Spec => []ConflictIsLastResort
  <1>1. Init => ConflictInv
    BY DEF Init, ConflictInv
  <1>2. IInv /\ ConflictInv /\ [Next]_vars => ConflictInv'
    <2>1. ASSUME ConflictInv, UNCHANGED vars PROVE ConflictInv'
      BY <2>1 DEF ConflictInv, Taken, vars
    <2>2. QED
      BY <2>1, ConflictStep
  <1>3. ConflictInv => ConflictIsLastResort
    BY DEF ConflictInv, Taken, ConflictIsLastResort
  <1>4. QED
    BY <1>1, <1>2, <1>3, Invariant, PTL DEF Spec

-----------------------------------------------------------------------------
(* The tables as a contract store. *)

Now == [refs |-> refs, counters |-> counters, bindings |-> bindings]

Leaves == \E c \in begun : c \notin begun'

\* The tables in a state of the invariant.
LEMMA NowIsNumbered ==
  ASSUME IInv
  PROVE  Numbered(Now, Keys, MachineIds, NoRow)
  <1>1. /\ Now.refs = refs /\ Now.counters = counters /\ Now.bindings = bindings
    BY DEF Now
  <1>2. TypeInv /\ TablesInv
    BY DEF IInv
  <1>3. \A a, b \in refs : a.ref = b.ref => a = b
    BY DEF IInv, RefsInv
  <1>4. \A b \in bindings : b.mid \in MachineIds
    BY DEF IInv, TypeInv, AllocationRow
  <1>5. ASSUME NEW k \in Keys
        PROVE  /\ CountIn(Now, NoRow, k) \in Nat
               /\ \A b \in bindings : b.key = k => b.seq \in 1..CountIn(Now, NoRow, k)
               /\ \A n \in 1..CountIn(Now, NoRow, k) :
                    \E b \in bindings : b.key = k /\ b.seq = n
    <2>1. CASE counters[k] = NoRow
      BY <1>1, <1>2, <2>1, BindingsOf DEF CountIn
    <2>2. CASE counters[k] # NoRow
      <3>1. CountIn(Now, NoRow, k) = counters[k].last
        BY <1>1, <2>2 DEF CountIn
      <3>2. counters[k].last \in Nat
        BY <1>2, <2>2 DEF TypeInv, CounterRow
      <3>3. QED
        BY <1>2, <2>2, <3>1, <3>2, BindingsOf, NumbersOf
    <2>3. QED
      BY <2>1, <2>2
  <1>6. ASSUME NEW a \in bindings, NEW b \in bindings, a.key = b.key,
               a.seq = b.seq \/ a.mid = b.mid
        PROVE  a = b
    <2>1. a.key \in Keys /\ counters[a.key] # NoRow
      BY <1>2, BindingsOf
    <2>2. /\ a \in {x \in bindings : x.key = a.key}
          /\ b \in {x \in bindings : x.key = a.key}
      BY <1>6
    <2>3. QED
      BY <1>2, <1>6, <2>1, <2>2 DEF TablesInv, StoreIsSound
  <1> HIDE DEF Now
  <1>7. QED
    BY <1>1, <1>3, <1>4, <1>5, <1>6 DEF Numbered

\* What a step does to the references where a call of allocate is one statement:
\* only the end of a caller's transaction commits more than one.
LEMMA ReferencesMove ==
  ASSUME IInv, AnswersInv, Next, ~Leaves
  PROVE  \/ refs' = refs
         \/ /\ counters' = counters /\ bindings' = bindings
            /\ \E row \in ReferenceRow :
                 refs' = refs \cup {row} /\ \A other \in refs : other.ref # row.ref
  <1> DEFINE Adds == \/ refs' = refs
                     \/ /\ counters' = counters /\ bindings' = bindings
                        /\ \E row \in ReferenceRow :
                             /\ refs' = refs \cup {row}
                             /\ \A other \in refs : other.ref # row.ref
  <1>1. ASSUME NEW c \in Connections, Commit(c) PROVE refs' = refs
    <2>1. refs' = refs \cup written[c].refs /\ begun' = begun \ {c}
      BY <1>1 DEF Commit
    <2>2. c \notin begun
      BY <2>1 DEF Leaves
    <2>3. written[c].refs = {}
      BY <2>2 DEF AnswersInv
    <2>4. QED
      BY <2>1, <2>3
  <1>2. ASSUME NEW c \in Connections, Rollback(c) PROVE refs' = refs
    BY <1>2 DEF Rollback, tables
  <1>3. ASSUME NEW c \in Connections,
               CallerBegin(c) \/ CallerCommit(c) \/ CallerRollback(c) \/ Disconnect(c)
        PROVE  refs' = refs
    BY <1>1, <1>2, <1>3
       DEF CallerBegin, CallerCommit, CallerRollback, Disconnect, Fail, tables
  <1>4. ASSUME NEW c \in Connections, NEW row \in Reservations, Reserve(c, row)
        PROVE  Adds
    <2>1. row \in ReferenceRow
      BY CallsAssumption
    <2> DEFINE won == \A other \in refs \cup written[c].refs : other.ref # row.ref
               new == IF won THEN {row} ELSE {}
    <2>2. /\ refs' = refs \/ refs' = refs \cup new
          /\ counters' = counters /\ bindings' = bindings
      BY <1>4 DEF Reserve
    <2>3. CASE won
      BY <2>1, <2>2, <2>3
    <2>4. CASE ~won
      BY <2>2, <2>4
    <2>5. QED
      BY <2>3, <2>4
  <1>5. ASSUME NEW c \in Connections, NEW r \in Requests, CallAllocate(c, r)
        PROVE  refs' = refs
    <2>1. Commit(c) \/ Rollback(c) \/ UNCHANGED tables
      BY <1>5 DEF CallAllocate
    <2>2. QED
      BY <1>1, <1>2, <2>1 DEF tables
  <1>6. ASSUME NEW c \in Connections, NEW code, Fail(c, code) PROVE refs' = refs
    BY <1>2, <1>6 DEF Fail
  <1>7. ASSUME NEW c \in Connections, NEW step, NEW rows, Proceed(c, step, rows)
        PROVE  refs' = refs
    BY <1>7 DEF Proceed, tables
  <1>8. ASSUME NEW c \in Connections, NEW row, Return(c, row) PROVE refs' = refs
    BY <1>1, <1>8 DEF Return
  <1>9. ASSUME NEW c \in Connections, Allocation(c) PROVE refs' = refs
    <2>1. CASE Replay(c)
      BY <1>6, <1>7, <1>8, <2>1 DEF Replay
    <2>2. CASE Seed(c)
      BY <1>6, <1>7, <2>2 DEF Seed
    <2>3. CASE Advance(c)
      BY <1>6, <1>7, <2>3 DEF Advance
    <2>4. CASE Bind(c)
      BY <1>6, <1>7, <2>4 DEF Bind
    <2>5. CASE Finish(c)
      BY <1>8, <2>5 DEF Finish
    <2>6. CASE Victim(c)
      BY <1>2, <2>6 DEF Victim, Retry
    <2>7. QED
      BY <1>9, <2>1, <2>2, <2>3, <2>4, <2>5, <2>6 DEF Allocation
  <1>10. QED
    BY <1>3, <1>4, <1>5, <1>9 DEF Next

\* What a step does to counters and bindings: nothing, or one allocation.
LEMMA CountersMove ==
  ASSUME IInv, Next
  PROVE  \/ counters' = counters /\ bindings' = bindings
         \/ \E new \in AllocationRow :
              /\ new.seq = CountIn(Now, NoRow, new.key) + 1
              /\ PolicyIn(Now, NoRow, new.key) \in {NoRow, <<new.prefix, new.width>>}
              /\ bindings' = bindings \cup {new}
              /\ counters' = [counters EXCEPT ![new.key] =
                   [prefix |-> new.prefix, width |-> new.width, last |-> new.seq]]
  <1>1. PICK c \in Connections : Moves(c)
    BY NextMoves
  <1>2. CASE Finishes(c)
    <2> DEFINE r == req[c]
               new == Binding(r, NextOf(r.key))
    <2>1. /\ pc[c] = "commit"
          /\ counters' = [counters EXCEPT ![r.key] = CounterWith(r, NextOf(r.key))]
          /\ bindings' = bindings \cup {new}
      BY <1>2 DEF Finishes
    <2>2. /\ r \in AllocationRequest /\ r.width \in ValidWidths
          /\ CallFits(c) /\ TypeInv
      BY <2>1 DEF IInv, TypeInv, CallTyped, TablesInv
    <2>3. counters[r.key] # NoRow => SamePolicy(counters[r.key], r)
      BY <2>1, <2>2 DEF CallFits
    <2>4. new \in AllocationRow
      <3>1. written[c].bindings = {new}
        BY <2>1, <2>2 DEF CallFits
      <3>2. QED
        BY <2>2, <3>1, Typed
    <2>5. /\ new.key = r.key /\ new.seq = NextOf(r.key)
          /\ new.prefix = r.prefix /\ new.width = r.width
      BY DEF Binding
    <2>6. NextOf(r.key) = CountIn(Now, NoRow, r.key) + 1
      BY DEF NextOf, CountIn, Now
    <2>7. PolicyIn(Now, NoRow, r.key) \in {NoRow, <<r.prefix, r.width>>}
      BY <2>3 DEF PolicyIn, Now, SamePolicy
    <2>8. CounterWith(r, NextOf(r.key)) =
            [prefix |-> new.prefix, width |-> new.width, last |-> new.seq]
      BY <2>5 DEF CounterWith
    <2> HIDE DEF new
    <2>9. QED
      BY <2>1, <2>4, <2>5, <2>6, <2>7, <2>8
  <1>3. CASE ~Finishes(c)
    BY <1>1, <1>3 DEF Moves, Ends, Inserts, Looks, Locks, Counts, Binds, tables
  <1>4. QED
    BY <1>2, <1>3

LEMMA ContractViews ==
  /\ \A r : Owner(r) = OwnerIn(Now, NoRow, r)
  /\ \A k : PolicyOf(k) = PolicyIn(Now, NoRow, k) /\ Issued(k) = IssuedIn(Now, NoRow, k)
  /\ \A r : Owner(r)' = OwnerIn(Now', NoRow, r)
  /\ \A k : PolicyOf(k)' = PolicyIn(Now', NoRow, k)
            /\ Issued(k)' = IssuedIn(Now', NoRow, k)
  BY DEF Owner, PolicyOf, Issued, OwnerIn, PolicyIn, IssuedIn, CountIn, Now

LEMMA ContractInit == Init => Contract!Init
  <1> SUFFICES ASSUME Init PROVE Contract!Init
    OBVIOUS
  <1>1. refs = {} /\ \A k \in Keys : counters[k] = NoRow
    BY DEF Init
  <1>2. \A r : Owner(r) = NoRow
    BY <1>1 DEF Owner
  <1>3. \A k \in Keys : PolicyOf(k) = NoRow
    BY <1>1 DEF PolicyOf
  <1>4. \A k \in Keys : Issued(k) = << >>
    <2>1. Numbered(Now, Keys, MachineIds, NoRow)
      BY InvInit, NowIsNumbered
    <2>2. \A k \in Keys : CountIn(Now, NoRow, k) = 0
      BY <1>1 DEF CountIn, Now
    <2>3. \A k \in Keys : IssuedIn(Now, NoRow, k) \in Seq(MachineIds)
                          /\ Len(IssuedIn(Now, NoRow, k)) = 0
      BY <2>1, <2>2, IssuedIsLog
    <2>4. QED
      BY <2>3, ContractViews, EmptySeq
  <1>5. QED
    BY <1>2, <1>3, <1>4 DEF Contract!Init

\* A reference is reserved.
LEMMA ImplementsReserve ==
  ASSUME IInv, NEW row \in ReferenceRow, counters' = counters, bindings' = bindings,
         refs' = refs \cup {row}, \A other \in refs : other.ref # row.ref
  PROVE  Contract!Next
  <1>1. row.ref \in References /\ <<row.ns, row.mid>> \in Namespaces \X MachineIds
    BY DEF ReferenceRow
  <1>2. PICK t, u : t = Now /\ u = Now'
    OBVIOUS
  <1>3. /\ Reserves(t, u, row)
        /\ \A a, b \in t.refs : a.ref = b.ref => a = b
    BY <1>2 DEF Reserves, Now, IInv, RefsInv
  <1>4. Reserved(t, u, Keys, NoRow, row)
    BY <1>3, ReserveIs
  <1>5. /\ Owner(row.ref) = NoRow
        /\ \A r : Owner(r)' = IF r = row.ref THEN <<row.ns, row.mid>> ELSE Owner(r)
        /\ \A k \in Keys : PolicyOf(k)' = PolicyOf(k) /\ Issued(k)' = Issued(k)
    BY <1>2, <1>4, ContractViews DEF Reserved
  <1>6. Contract!Reserve(row.ref, <<row.ns, row.mid>>)
    BY <1>1, <1>5 DEF Contract!Reserve
  <1>7. QED
    BY <1>1, <1>6 DEF Contract!Next

\* A counter gives out its next number.
LEMMA ImplementsAllocate ==
  ASSUME IInv, IInv', NEW new \in AllocationRow, refs' = refs,
         bindings' = bindings \cup {new},
         counters' = [counters EXCEPT ![new.key] =
           [prefix |-> new.prefix, width |-> new.width, last |-> new.seq]],
         new.seq = CountIn(Now, NoRow, new.key) + 1,
         PolicyIn(Now, NoRow, new.key) \in {NoRow, <<new.prefix, new.width>>}
  PROVE  Contract!Next
  <1> DEFINE p == <<new.prefix, new.width>>
             k == new.key
             row == [prefix |-> new.prefix, width |-> new.width, last |-> new.seq]
  <1>1. /\ k \in Keys /\ new.mid \in MachineIds /\ new.seq \in Nat
        /\ new.prefix \in Prefixes /\ new.width \in ValidWidths
        /\ p \in Prefixes \X ValidWidths
    BY DEF AllocationRow
  <1>2. counters \in [Keys -> CounterRow \cup {NoRow}] /\ StoreIsSound'
    BY DEF IInv, TypeInv, TablesInv
  <1>3. counters'[k] = row /\ \A l \in Keys : l # k => counters'[l] = counters[l]
    BY <1>1, <1>2
  <1>4. row # NoRow
    BY <1>1, NoRowAssumption DEF CounterRow
  <1>5. PICK t, u : t = Now /\ u = Now'
    OBVIOUS
  <1>6. /\ Numbered(t, Keys, MachineIds, NoRow) /\ DOMAIN t.counters = Keys
        /\ new.key \in Keys
    BY <1>1, <1>2, <1>5, NowIsNumbered DEF Now
  <1>7. Numbered(u, Keys, MachineIds, NoRow)
    <2>1. (IInv => Numbered(Now, Keys, MachineIds, NoRow))'
      BY NowIsNumbered, PTL
    <2>2. QED
      BY <1>5, <2>1
  <1>8. Allocates(t, u, NoRow, new)
    BY <1>3, <1>4, <1>5 DEF Allocates, Now
  <1>9. Appended(t, u, Keys, NoRow, new)
    BY <1>6, <1>7, <1>8, AllocateIs
  <1>10. /\ PolicyOf(k) \in {NoRow, p}
         /\ \A n \in 1..Len(Issued(k)) : Issued(k)[n] # new.mid
         /\ Len(Issued(k)) + 1 = new.seq
         /\ \A l \in Keys : PolicyOf(l)' = IF l = k THEN p ELSE PolicyOf(l)
         /\ \A l \in Keys :
              Issued(l)' = IF l = k THEN Append(Issued(l), new.mid) ELSE Issued(l)
         /\ \A r : Owner(r)' = Owner(r)
    BY <1>1, <1>5, <1>9, ContractViews DEF Appended
  <1>11. Len(Issued(k)) \in Nat
    BY <1>5, <1>6, IssuedIsLog, ContractViews
  <1>12. new.seq <= Capacity[new.width]
    BY <1>1, <1>2, <1>3, <1>4 DEF StoreIsSound
  <1>13. Len(Issued(k)) < Capacity[new.width]
    BY <1>1, <1>10, <1>11, <1>12, WidthsAssumption
  <1>14. ASSUME NEW l \in Keys, l # k, PolicyOf(l) # NoRow,
                k[2] = l[2], p[1] = PolicyOf(l)[1]
         PROVE  FALSE
    <2>1. counters[l] # NoRow /\ counters[l].prefix = new.prefix
      BY <1>14 DEF PolicyOf
    <2>2. /\ counters'[l] # NoRow /\ counters'[l].prefix = new.prefix
          /\ counters'[k] # NoRow /\ counters'[k].prefix = new.prefix
      BY <1>3, <1>4, <1>14, <2>1
    <2>3. QED
      BY <1>1, <1>2, <1>14, <2>2 DEF StoreIsSound
  <1> HIDE DEF p, k
  <1>15. Contract!Allocate(k, new.mid, p)
    <2>1. [q \in Prefixes \X ValidWidths |-> Capacity[q[2]]][p] = Capacity[new.width]
      BY <1>1 DEF p
    <2>2. [l \in Keys |-> PolicyOf(l)'] = [[l \in Keys |-> PolicyOf(l)] EXCEPT ![k] = p]
      BY <1>1, <1>10
    <2>3. [l \in Keys |-> Issued(l)'] =
            [[l \in Keys |-> Issued(l)] EXCEPT ![k] = Append(@, new.mid)]
      BY <1>1, <1>10
    <2>4. ~Contract!Numbered(new.mid, k)
      BY <1>1, <1>10 DEF Contract!Numbered
    <2>5. QED
      BY <1>1, <1>10, <1>13, <1>14, <2>1, <2>2, <2>3, <2>4 DEF Contract!Allocate
  <1>16. QED
    BY <1>1, <1>15 DEF Contract!Next

\* A transaction of a caller ends, and everything in it is committed together.
LEMMA ImplementsTransaction ==
  ASSUME IInv, IInv', Next
  PROVE  Contract!Transaction
  <1>1. PICK t, u : t = Now /\ u = Now'
    OBVIOUS
  <1>2. /\ t.refs = refs /\ t.counters = counters /\ t.bindings = bindings
        /\ u.refs = refs' /\ u.counters = counters' /\ u.bindings = bindings'
    BY <1>1 DEF Now
  <1>3. Numbered(t, Keys, MachineIds, NoRow) /\ Numbered(u, Keys, MachineIds, NoRow)
    <2>1. (IInv => Numbered(Now, Keys, MachineIds, NoRow))'
      BY NowIsNumbered, PTL
    <2>2. QED
      BY <1>1, <2>1, NowIsNumbered
  <1>4. /\ counters \in [Keys -> CounterRow \cup {NoRow}]
        /\ counters' \in [Keys -> CounterRow \cup {NoRow}]
        /\ refs' \subseteq ReferenceRow /\ StoreIsSound'
    BY DEF IInv, TypeInv, TablesInv
  <1>5. Extends(t, u, Keys, NoRow)
    <2>1. refs \subseteq refs' /\ bindings \subseteq bindings'
      <3>1. PICK c \in Connections : Moves(c)
        BY NextMoves
      <3>2. QED
        BY <3>1, RowsStay
    <2>2. ASSUME NEW k \in Keys, counters[k] # NoRow
          PROVE  /\ PolicyIn(u, NoRow, k) = PolicyIn(t, NoRow, k)
                 /\ CountIn(t, NoRow, k) <= CountIn(u, NoRow, k)
      <3>1. CASE counters' = counters
        <4>1. counters[k].last \in Nat
          BY <1>4, <2>2 DEF CounterRow
        <4>2. QED
          BY <1>2, <2>2, <3>1, <4>1 DEF PolicyIn, CountIn
      <3>2. CASE counters' # counters
        <4>1. PICK new \in AllocationRow :
                /\ new.seq = CountIn(Now, NoRow, new.key) + 1
                /\ PolicyIn(Now, NoRow, new.key) \in {NoRow, <<new.prefix, new.width>>}
                /\ counters' = [counters EXCEPT ![new.key] =
                     [prefix |-> new.prefix, width |-> new.width, last |-> new.seq]]
          BY <3>2, CountersMove
        <4>2. CASE k # new.key
          <5>1. counters'[k] = counters[k] /\ counters[k].last \in Nat
            BY <1>4, <2>2, <4>1, <4>2 DEF CounterRow
          <5>2. QED
            BY <1>2, <2>2, <5>1 DEF PolicyIn, CountIn
        <4>3. CASE k = new.key
          <5>1. /\ counters[k].last \in Nat /\ counters[k].prefix \in Prefixes
                /\ counters[k].width \in ValidWidths
            BY <1>4, <2>2 DEF CounterRow
          <5>2. /\ CountIn(Now, NoRow, k) = counters[k].last
                /\ PolicyIn(Now, NoRow, k) = <<counters[k].prefix, counters[k].width>>
            BY <2>2 DEF CountIn, PolicyIn, Now
          <5>3. PolicyIn(Now, NoRow, k) # NoRow
            BY <5>1, <5>2, NoRowAssumption
          <5>4. counters'[k] =
                  [prefix |-> new.prefix, width |-> new.width, last |-> new.seq]
            BY <1>4, <2>2, <4>1, <4>3
          <5>5. counters'[k] # NoRow
            BY <5>4, NoRowAssumption DEF AllocationRow, CounterRow
          <5>6. /\ CountIn(u, NoRow, k) = new.seq
                /\ PolicyIn(u, NoRow, k) = <<new.prefix, new.width>>
            BY <1>2, <5>4, <5>5 DEF CountIn, PolicyIn
          <5>7. CountIn(t, NoRow, k) <= CountIn(u, NoRow, k)
            BY <1>1, <4>1, <4>3, <5>1, <5>2, <5>6
          <5>8. PolicyIn(u, NoRow, k) = PolicyIn(t, NoRow, k)
            BY <1>1, <4>1, <4>3, <5>3, <5>6
          <5>9. QED
            BY <5>7, <5>8
        <4>4. QED
          BY <4>2, <4>3
      <3>3. QED
        BY <3>1, <3>2
    <2>3. QED
      BY <1>2, <2>1, <2>2 DEF Extends
  <1>6. Batched(t, u, Keys, NoRow)
    BY <1>3, <1>5, BatchIs
  <1>7. ASSUME NEW r \in References
        PROVE  /\ Owner(r) # NoRow => Owner(r)' = Owner(r)
               /\ Owner(r)' \in (Namespaces \X MachineIds) \cup {NoRow}
    <2>1. OwnerIn(u, NoRow, r) \in (Namespaces \X MachineIds) \cup {NoRow}
      BY <1>2, <1>4 DEF OwnerIn, ReferenceRow
    <2>2. QED
      BY <1>1, <1>6, <2>1, ContractViews DEF Batched
  <1>8. ASSUME NEW k \in Keys
        PROVE  /\ PolicyOf(k) # NoRow => PolicyOf(k)' = PolicyOf(k)
               /\ PolicyOf(k)' = NoRow => Issued(k)' = << >>
               /\ Len(Issued(k)) <= Len(Issued(k)')
               /\ Issued(k) = SubSeq(Issued(k)', 1, Len(Issued(k)))
               /\ \A i, j \in 1..Len(Issued(k)') : Issued(k)'[i] = Issued(k)'[j] => i = j
               /\ PolicyOf(k)' # NoRow =>
                    /\ PolicyOf(k)' \in Prefixes \X ValidWidths
                    /\ Len(Issued(k)') <= Capacity[PolicyOf(k)'[2]]
    <2> DEFINE row == u.counters[k]
    <2>1. /\ PolicyIn(t, NoRow, k) # NoRow => PolicyIn(u, NoRow, k) = PolicyIn(t, NoRow, k)
          /\ row = NoRow => IssuedIn(u, NoRow, k) = << >>
          /\ Len(IssuedIn(t, NoRow, k)) <= Len(IssuedIn(u, NoRow, k))
          /\ IssuedIn(t, NoRow, k) =
               SubSeq(IssuedIn(u, NoRow, k), 1, Len(IssuedIn(t, NoRow, k)))
          /\ \A i, j \in 1..Len(IssuedIn(u, NoRow, k)) :
               IssuedIn(u, NoRow, k)[i] = IssuedIn(u, NoRow, k)[j] => i = j
          /\ Len(IssuedIn(u, NoRow, k)) = CountIn(u, NoRow, k)
      BY <1>6 DEF Batched
    <2>2. row # NoRow =>
            /\ row.last <= Capacity[row.width]
            /\ <<row.prefix, row.width>> \in Prefixes \X ValidWidths
      BY <1>2, <1>4 DEF StoreIsSound, CounterRow
    <2>3. row # NoRow => PolicyIn(u, NoRow, k) # NoRow
      BY <2>2, NoRowAssumption DEF PolicyIn
    <2>4. PolicyIn(u, NoRow, k) # NoRow =>
            /\ PolicyIn(u, NoRow, k) \in Prefixes \X ValidWidths
            /\ CountIn(u, NoRow, k) <= Capacity[PolicyIn(u, NoRow, k)[2]]
      BY <2>2 DEF PolicyIn, CountIn
    <2> HIDE DEF row
    <2>5. QED
      BY <1>1, <2>1, <2>3, <2>4, ContractViews
  <1>9. ASSUME NEW k \in Keys, NEW l \in Keys, k # l,
               PolicyOf(k)' # NoRow, PolicyOf(l)' # NoRow
        PROVE  ~(k[2] = l[2] /\ PolicyOf(k)'[1] = PolicyOf(l)'[1])
    <2>1. /\ counters'[k] # NoRow /\ PolicyOf(k)'[1] = counters'[k].prefix
          /\ counters'[l] # NoRow /\ PolicyOf(l)'[1] = counters'[l].prefix
      BY <1>9 DEF PolicyOf
    <2>2. QED
      BY <1>4, <1>9, <2>1 DEF StoreIsSound
  <1>10. QED
    BY <1>7, <1>8, <1>9 DEF Contract!Transaction

\* Every step of the tables is a step of the contract's store, and a batch of
\* them where a caller's transaction ends, by COMMIT or by the START TRANSACTION
\* of a call, behind every port whose call of allocate is one statement: a
\* single statement of Swift's can commit a reservation with somebody's number.
THEOREM ImplementsContractHolds ==
  ASSUME WholeCalls
  PROVE  Spec => ImplementsContract
  <1> DEFINE ContractStep ==
        tables' # tables =>
          IF \E c \in begun : c \notin begun'
          THEN Contract!Transaction ELSE Contract!Next
  <1>1. ASSUME IInv, AnswersInv, IInv', [Next]_vars PROVE [ContractStep]_tables
    <2>1. CASE tables' = tables
      BY <2>1
    <2>2. CASE tables' # tables
      <3>1. Next
        BY <1>1, <2>2 DEF vars, tables
      <3>2. CASE Leaves
        BY <1>1, <3>1, <3>2, ImplementsTransaction DEF Leaves
      <3>3. CASE ~Leaves
        <4>1. CASE refs' = refs
          <5>1. ~(counters' = counters /\ bindings' = bindings)
            BY <2>2, <4>1 DEF tables
          <5>2. Contract!Next
            BY <1>1, <3>1, <4>1, <5>1, CountersMove, ImplementsAllocate
          <5>3. QED
            BY <3>3, <5>2 DEF Leaves
        <4>2. CASE refs' # refs
          <5>1. Contract!Next
            BY <1>1, <3>1, <3>3, <4>2, ReferencesMove, ImplementsReserve
          <5>2. QED
            BY <3>3, <5>1 DEF Leaves
        <4>3. QED
          BY <4>1, <4>2
      <3>4. QED
        BY <3>2, <3>3
    <2>3. QED
      BY <2>1, <2>2
  <1>2. QED
    BY <1>1, ContractInit, AnswersInvariant, PTL DEF Spec, ImplementsContract
=============================================================================
