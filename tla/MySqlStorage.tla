----------------------------- MODULE MySqlStorage -----------------------------
(***************************************************************************)
(* The MySQL storage integration: the tables and procedures of             *)
(* integrations/mysql/migrations and the adapters that call them, with     *)
(* their retry loop.  One adapter, Swift, sends the statements of the      *)
(* allocation one by one instead.                                          *)
(*                                                                         *)
(* InnoDB at REPEATABLE READ, its default: locking reads and writes see    *)
(* what is committed last and their own transaction; a row that was        *)
(* written or locked stays locked until its transaction ends; a locking    *)
(* read that finds no row locks the gap, which other readers may lock too  *)
(* and nobody else may insert into.  Which locks a transaction has follows *)
(* from where its call is.                                                 *)
(***************************************************************************)
EXTENDS Integers

CONSTANTS
  Connections,
  Port,         \* connection -> the adapter that uses it
  CallerTx,     \* connections on which the application opens transactions
  MaxAttempts,  \* 5 in the code
  Namespaces,
  Scopes,       \* '' or a calendar year
  Prefixes,
  Widths,       \* requested widths, valid or not
  ValidWidths,  \* 4..18 in the code
  Capacity,     \* 10^width - 1 in the code
  MachineIds,
  References,
  Reservations, \* the calls of reserve the application makes
  Requests,     \* the calls of allocate the application makes
  NoRow

Keys == Namespaces \X Scopes
Codes == {"invalid_allocation_policy", "sequence_overflow", "allocation_conflict"}

CounterRow == [prefix : Prefixes, width : ValidWidths, last : Nat]
ReferenceRow == [ref : References, ns : Namespaces, mid : MachineIds]
AllocationRow == [key : Keys, seq : Nat, mid : MachineIds,
                  prefix : Prefixes, width : ValidWidths]
AllocationRequest == [key : Keys, mid : MachineIds, prefix : Prefixes, width : Widths]

Results == [kind : {"allocated"}, row : AllocationRow]
             \cup [kind : {"won"}, row : ReferenceRow]
             \cup [kind : {"refused"}, ref : References]

\* retries: a deadlock is recognized as transient.  stepwise: the statements of
\* an allocation are sent one by one, and other calls may be sent in between.
Ports == [retries : BOOLEAN, stepwise : BOOLEAN]
Procedural == [retries |-> TRUE,  stepwise |-> FALSE] \* TypeScript and seven others
Python     == [retries |-> FALSE, stepwise |-> FALSE]
Swift      == [retries |-> TRUE,  stepwise |-> TRUE]

ASSUME WidthsAssumption ==
  /\ ValidWidths \subseteq Widths
  /\ Capacity \in [ValidWidths -> Nat \ {0}]
ASSUME PortsAssumption ==
  Port \in [Connections -> Ports] /\ CallerTx \subseteq Connections
ASSUME AttemptsAssumption == MaxAttempts \in Nat \ {0}
ASSUME CallsAssumption ==
  Reservations \subseteq ReferenceRow /\ Requests \subseteq AllocationRequest
ASSUME NoRowAssumption == NoRow \notin CounterRow \cup (Prefixes \X ValidWidths)

VARIABLES
  refs,     \* committed rows of identifold_references
  counters, \* key -> its committed row of identifold_sequences, or NoRow
  bindings, \* committed rows of identifold_sequence_allocations
  written,  \* connection -> the rows its open transaction has written
  begun,    \* connections in a transaction the application opened
  pc,       \* connection -> the next statement of its call
  req,      \* connection -> the arguments of its last call of allocate
  attempt,  \* connection -> the round of the retry loop
  answer,   \* connection -> the code its last call ended with, "ok", or "lost"
  results,  \* connection -> what was answered inside the caller's transaction
  acked     \* what was answered and committed

tables == <<refs, counters, bindings>>
call == <<pc, req, attempt, answer>>
vars == <<refs, counters, bindings, written, begun, pc, req, attempt, answer,
          results, acked>>

Steps == {"replay", "seed", "advance", "bind", "commit"}

\* The rows of a transaction: new references and bindings, and the counters it
\* has changed, by their keys.
Nothing == [refs |-> {}, counters |-> [k \in {} |-> NoRow], bindings |-> {}]

\* One counter's row, and the rows f over those of g.
Row(k, row) == [l \in {k} |-> row]
Over(f, g) ==
  [k \in DOMAIN f \cup DOMAIN g |-> IF k \in DOMAIN f THEN f[k] ELSE g[k]]

-----------------------------------------------------------------------------
(* What the statements read, and what they wait for. *)

Others(c) == Connections \ {c}

CounterOf(c, k) ==
  IF k \in DOMAIN written[c].counters THEN written[c].counters[k] ELSE counters[k]

SamePolicy(row, r) == row.prefix = r.prefix /\ row.width = r.width

\* The counters that have the prefix and scope of a request.
Namesakes(c, r) ==
  {k \in Keys : /\ k[2] = r.key[2] /\ k # r.key
                /\ CounterOf(c, k) # NoRow /\ CounterOf(c, k).prefix = r.prefix}

Replays(r) == {b \in bindings : b.key = r.key /\ b.mid = r.mid}

\* The unique constraints of identifold_sequence_allocations.
Violates(new) ==
  \E b \in bindings :
    \/ b.key = new.key /\ (b.seq = new.seq \/ b.mid = new.mid)
    \/ b.prefix = new.prefix /\ b.key[2] = new.key[2] /\ b.seq = new.seq

Binding(r, n) ==
  [key |-> r.key, seq |-> n, mid |-> r.mid, prefix |-> r.prefix, width |-> r.width]

\* d has inserted a row with this key or reference.
WaitsToReserve(c, row) == \E d \in Others(c) : \E w \in written[d].refs : w.ref = row.ref
WaitsToReplay(c) ==
  \E d \in Others(c) : \E b \in written[d].bindings :
    b.key = req[c].key /\ b.mid = req[c].mid

\* d has locked the counter, or one with its prefix.
WaitsToSeed(c) ==
  \E d \in Others(c) :
    /\ pc[d] \in {"advance", "bind", "commit"}
    /\ \/ req[d].key = req[c].key
       \/ req[d].key[2] = req[c].key[2] /\ req[d].prefix = req[c].prefix

\* Mutant: READ COMMITTED, where a read that finds nothing locks nothing.
NeverWaitsToBind(c) == FALSE

\* d has looked for the same binding, and locked the gap where it was not.
WaitsToBind(c) ==
  \E d \in Others(c) :
    /\ pc[d] \in {"seed", "advance", "bind", "commit"}
    /\ req[d].key = req[c].key /\ req[d].mid = req[c].mid

-----------------------------------------------------------------------------
(* Transactions and calls. *)

InTransaction(c) == c \in begun \/ pc[c] # "idle"

\* COMMIT, or START TRANSACTION in an open transaction.
Commit(c) ==
  /\ refs' = refs \cup written[c].refs
  /\ counters' = Over(written[c].counters, counters)
  /\ bindings' = bindings \cup written[c].bindings
  /\ written' = [written EXCEPT ![c] = Nothing]
  /\ begun' = begun \ {c}
  /\ results' = [results EXCEPT ![c] = {}]

\* ROLLBACK of whatever is open.
Rollback(c) ==
  /\ written' = [written EXCEPT ![c] = Nothing]
  /\ begun' = begun \ {c}
  /\ results' = [results EXCEPT ![c] = {}]
  /\ UNCHANGED tables

Goto(c, step) == pc' = [pc EXCEPT ![c] = step]
End(c, code) == Goto(c, "idle") /\ answer' = [answer EXCEPT ![c] = code]

\* The EXIT HANDLER rolls back and signals the error again; the adapter maps it.
Fail(c, code) ==
  /\ Rollback(c)
  /\ End(c, code)
  /\ UNCHANGED <<req, attempt, acked>>

\* A statement of the allocation leaves its transaction with these rows.
Proceed(c, step, rows) ==
  /\ Goto(c, step)
  /\ written' = [written EXCEPT ![c] = rows]
  /\ UNCHANGED <<tables, begun, req, attempt, answer, results, acked>>

-----------------------------------------------------------------------------
(* The application's own transactions, and lost connections. *)

CallerBegin(c) ==
  /\ c \in CallerTx \ begun /\ pc[c] = "idle"
  /\ begun' = begun \cup {c}
  /\ UNCHANGED <<tables, written, call, results, acked>>

CallerCommit(c) ==
  /\ c \in begun /\ pc[c] = "idle"
  /\ Commit(c)
  /\ acked' = acked \cup results[c]
  /\ UNCHANGED call

CallerRollback(c) ==
  /\ c \in begun /\ pc[c] = "idle"
  /\ Rollback(c)
  /\ UNCHANGED <<call, acked>>

\* The server rolls back; no adapter takes this for a transient error.
Disconnect(c) ==
  /\ InTransaction(c)
  /\ Fail(c, "lost")

-----------------------------------------------------------------------------
(* reserve: one INSERT, whose duplicate-key error is the answer "no".       *)

\* Mutant: an answer in a caller's transaction is taken for final.
ToldForGood(c, result) == acked' = acked \cup {result} /\ UNCHANGED results

\* The application is told, inside its transaction or for good.
Told(c, result) ==
  IF c \in begun
  THEN results' = [results EXCEPT ![c] = @ \cup {result}] /\ UNCHANGED acked
  ELSE acked' = acked \cup {result} /\ UNCHANGED results

\* Outside of transactions the statement commits by itself, and its reply may
\* be lost.  A port that sends single statements may send it amid an allocation.
Reserve(c, row) ==
  LET won == \A other \in refs \cup written[c].refs : other.ref # row.ref
      new == IF won THEN {row} ELSE {}
      result == IF won THEN [kind |-> "won", row |-> row]
                       ELSE [kind |-> "refused", ref |-> row.ref]
  IN
  /\ pc[c] = "idle" \/ Port[c].stepwise
  /\ ~WaitsToReserve(c, row)
  /\ IF InTransaction(c)
     THEN written' = [written EXCEPT ![c].refs = @ \cup new] /\ UNCHANGED refs
     ELSE refs' = refs \cup new /\ UNCHANGED written
  /\ \/ Told(c, result)
     \/ ~InTransaction(c) /\ UNCHANGED <<results, acked>>
  /\ UNCHANGED <<counters, bindings, begun, call>>

-----------------------------------------------------------------------------
(* allocate *)

\* Mutant: no width check.
CallAllocateAnyWidth(c, r) ==
  /\ pc[c] = "idle"
  /\ req' = [req EXCEPT ![c] = r]
  /\ attempt' = [attempt EXCEPT ![c] = 1]
  /\ answer' = [answer EXCEPT ![c] = "ok"]
  /\ Commit(c) /\ acked' = acked \cup results[c] /\ Goto(c, "replay")

\* START TRANSACTION commits a transaction the caller has open; the error of a
\* bad width rolls it back.
CallAllocate(c, r) ==
  /\ pc[c] = "idle"
  /\ req' = [req EXCEPT ![c] = r]
  /\ attempt' = [attempt EXCEPT ![c] = 1]
  /\ CASE r.width \in ValidWidths ->
            /\ Commit(c) /\ acked' = acked \cup results[c]
            /\ Goto(c, "replay") /\ answer' = [answer EXCEPT ![c] = "ok"]
       [] r.width \notin ValidWidths /\ Port[c].stepwise ->
            /\ End(c, "invalid_allocation_policy")
            /\ UNCHANGED <<tables, written, begun, results, acked>>
       [] OTHER ->
            Rollback(c) /\ End(c, "invalid_allocation_policy") /\ UNCHANGED acked

\* The number is committed, and its reply may be lost.
Return(c, row) ==
  /\ Commit(c)
  /\ \/ End(c, "ok") /\ acked' = acked \cup {[kind |-> "allocated", row |-> row]}
     \/ End(c, "lost") /\ UNCHANGED acked
  /\ UNCHANGED <<req, attempt>>

\* Mutant: the policy of a replay is not compared.
ReplayAnyPolicy(c) ==
  /\ pc[c] = "replay" /\ ~WaitsToReplay(c)
  /\ \/ Replays(req[c]) = {} /\ Proceed(c, "seed", written[c])
     \/ \E b \in Replays(req[c]) : Return(c, Binding(req[c], b.seq))

Replay(c) ==
  /\ pc[c] = "replay" /\ ~WaitsToReplay(c)
  /\ \/ Replays(req[c]) = {} /\ Proceed(c, "seed", written[c])
     \/ \E b \in Replays(req[c]) :
          IF SamePolicy(b, req[c]) THEN Return(c, b)
          ELSE Fail(c, "invalid_allocation_policy")

\* Mutant: no foreign key.
NeverReferenced(k) == FALSE

\* A counter's foreign keys keep it in its namespace.
Referenced(k) == \E b \in bindings : b.key = k

\* INSERT ... ON DUPLICATE KEY UPDATE namespace = VALUES(namespace): on the key
\* it changes nothing, on the prefix it would move a counter to the namespace.
Seed(c) ==
  LET r == req[c]
      new == [prefix |-> r.prefix, width |-> r.width, last |-> 0]
      with(rows) == [written[c] EXCEPT !.counters = Over(rows, @)]
  IN
  /\ pc[c] = "seed" /\ ~WaitsToSeed(c)
  /\ \/ CounterOf(c, r.key) # NoRow /\ Proceed(c, "advance", written[c])
     \/ /\ CounterOf(c, r.key) = NoRow /\ Namesakes(c, r) = {}
        /\ Proceed(c, "advance", with(Row(r.key, new)))
     \/ /\ CounterOf(c, r.key) = NoRow
        /\ \E k \in Namesakes(c, r) :
             IF Referenced(k) THEN Fail(c, "allocation_conflict")
             ELSE Proceed(c, "advance", with(Over(Row(r.key, CounterOf(c, k)), Row(k, NoRow))))

\* Mutant: > for >= in the overflow check.
AdvancePastCapacity(c) ==
  LET r == req[c]
      row == CounterOf(c, r.key)
  IN
  /\ pc[c] = "advance"
  /\ IF ~SamePolicy(row, r) THEN Fail(c, "invalid_allocation_policy")
     ELSE IF row.last > Capacity[r.width] THEN Fail(c, "sequence_overflow")
     ELSE Proceed(c, "bind",
            [written[c] EXCEPT
               !.counters = Over(Row(r.key, [row EXCEPT !.last = @ + 1]), @)])

\* The locked counter is compared, and the next number taken.
Advance(c) ==
  LET r == req[c]
      row == CounterOf(c, r.key)
  IN
  /\ pc[c] = "advance"
  /\ IF ~SamePolicy(row, r) THEN Fail(c, "invalid_allocation_policy")
     ELSE IF row.last >= Capacity[r.width] THEN Fail(c, "sequence_overflow")
     ELSE Proceed(c, "bind",
            [written[c] EXCEPT
               !.counters = Over(Row(r.key, [row EXCEPT !.last = @ + 1]), @)])

\* A duplicate key is no transient error.
Bind(c) ==
  LET new == Binding(req[c], CounterOf(c, req[c].key).last) IN
  /\ pc[c] = "bind" /\ ~WaitsToBind(c)
  /\ IF Violates(new) THEN Fail(c, "allocation_conflict")
     ELSE Proceed(c, "commit", [written[c] EXCEPT !.bindings = {new}])

Finish(c) ==
  /\ pc[c] = "commit"
  /\ \E row \in written[c].bindings : Return(c, row)

\* Mutant: the rounds are not counted.
RetryForever(c) ==
  /\ Rollback(c)
  /\ Goto(c, "replay")
  /\ UNCHANGED <<req, attempt, answer, acked>>

\* The next round of the adapter's loop; a sleep is not a step.
Retry(c) ==
  /\ Rollback(c)
  /\ IF Port[c].retries /\ attempt[c] < MaxAttempts
     THEN /\ attempt' = [attempt EXCEPT ![c] = @ + 1]
          /\ Goto(c, "replay") /\ UNCHANGED answer
     ELSE End(c, "allocation_conflict") /\ UNCHANGED attempt
  /\ UNCHANGED <<req, acked>>

\* Somebody else's locks: a deadlock, or the end of the lock wait timeout.  The
\* gaps and rows of other keys may be the same in the index.
Victim(c) ==
  /\ pc[c] \in {"replay", "seed", "bind"}
  /\ \E d \in Others(c) : pc[d] \in Steps \ {"replay"}
  /\ Retry(c)

-----------------------------------------------------------------------------
Init ==
  /\ refs = {} /\ counters = [k \in Keys |-> NoRow] /\ bindings = {}
  /\ written = [c \in Connections |-> Nothing]
  /\ begun = {}
  /\ pc = [c \in Connections |-> "idle"]
  /\ req = [c \in Connections |-> NoRow]
  /\ attempt = [c \in Connections |-> 1]
  /\ answer = [c \in Connections |-> "ok"]
  /\ results = [c \in Connections |-> {}]
  /\ acked = {}

Allocation(c) ==
  Replay(c) \/ Seed(c) \/ Advance(c) \/ Bind(c) \/ Finish(c) \/ Victim(c)

Next ==
  \E c \in Connections :
    \/ CallerBegin(c) \/ CallerCommit(c) \/ CallerRollback(c) \/ Disconnect(c)
    \/ \E row \in Reservations : Reserve(c, row)
    \/ \E r \in Requests : CallAllocate(c, r)
    \/ Allocation(c)

\* The server and the adapter go on with a call: a lock is granted, or its wait
\* ends.  Nothing is assumed of the application.
Spec == Init /\ [][Next]_vars /\ \A c \in Connections : WF_vars(Allocation(c))

-----------------------------------------------------------------------------
(* Properties *)

\* Every variable keeps the type of the column, lock or local it models.
TypeOK ==
  /\ refs \subseteq ReferenceRow /\ bindings \subseteq AllocationRow
  /\ counters \in [Keys -> CounterRow \cup {NoRow}]
  /\ \A c \in Connections :
       /\ written[c].refs \subseteq ReferenceRow
       /\ \A k \in DOMAIN written[c].counters :
            k \in Keys /\ written[c].counters[k] \in CounterRow \cup {NoRow}
       /\ written[c].bindings \subseteq AllocationRow
       /\ pc[c] \in Steps \cup {"idle"}
       /\ req[c] \in AllocationRequest \cup {NoRow}
       /\ attempt[c] \in 1..MaxAttempts
       /\ answer[c] \in Codes \cup {"ok", "lost"}
       /\ results[c] \subseteq Results
  /\ begun \subseteq CallerTx
  /\ acked \subseteq Results

\* Under every order of statements, lost connections and victims the committed
\* tables keep the contract's counters (contract.md:49-55): the numbers of a
\* counter are 1..last, each bound once and under its policy, one MID has one
\* number, and one (prefix, scope) one counter.
StoreIsSound ==
  /\ \A k \in Keys :
       LET rows == {b \in bindings : b.key = k} IN
       IF counters[k] = NoRow THEN rows = {}
       ELSE /\ {b.seq : b \in rows} = 1..counters[k].last
            /\ counters[k].last <= Capacity[counters[k].width]
            /\ \A b \in rows : SamePolicy(b, counters[k])
            /\ \A a, b \in rows : (a.mid = b.mid \/ a.seq = b.seq) => a = b
  /\ \A k, l \in Keys :
       (counters[k] # NoRow /\ counters[l] # NoRow /\ k[2] = l[2]
          /\ counters[k].prefix = counters[l].prefix) => k = l

Stored(a) ==
  \/ a.kind = "allocated" /\ a.row \in bindings
  \/ a.kind = "won" /\ a.row \in refs
  \/ a.kind = "refused" /\ \E row \in refs : row.ref = a.ref

\* What was answered outside of transactions, or committed by the caller or by
\* the START TRANSACTION of a later call, is in the tables.
AckedIsStored == \A a \in acked : Stored(a)

\* An allocation_conflict is the last resort (contract.md:61): the adapter had
\* its five attempts, or another namespace has the prefix.  In particular two
\* calls for one MID never meet at its unique key, which would be no transient
\* error: one of them waits, or becomes a victim and is answered by the replay.
ConflictIsLastResort ==
  \A c \in Connections :
    answer[c] = "allocation_conflict" =>
      \/ attempt[c] = MaxAttempts
      \/ \E k \in Keys \ {req[c].key} :
           /\ counters[k] # NoRow /\ k[2] = req[c].key[2]
           /\ counters[k].prefix = req[c].prefix

\* A refusal is final: the tables hold what the code says -- a full counter
\* without the MID, or another policy -- and not the uncommitted work of a call
\* that was rolled back.
RefusalIsFinal ==
  \A c \in Connections :
    LET r == req[c] IN
    /\ answer[c] = "sequence_overflow" =>
         /\ counters[r.key] # NoRow /\ SamePolicy(counters[r.key], r)
         /\ counters[r.key].last = Capacity[r.width]
         /\ Replays(r) = {}
    /\ (answer[c] = "invalid_allocation_policy" /\ r.width \in ValidWidths) =>
         counters[r.key] # NoRow /\ ~SamePolicy(counters[r.key], r)

\* Every call of allocate comes to an end: no two of them wait for each other's
\* gaps and rows for ever, and nobody is a victim for ever.
EveryCallEnds == \A c \in Connections : pc[c] # "idle" ~> pc[c] = "idle"

\* A reservation the application was told to have won is never undone: it is
\* stored, or about to be.
WonIsNeverUndone ==
  \A a \in acked : a.kind = "won" =>
    \/ a.row \in refs
    \/ \E c \in Connections : a.row \in written[c].refs

\* The tables as a contract store.
Owner(r) ==
  IF \E row \in refs : row.ref = r
  THEN LET row == CHOOSE row \in refs : row.ref = r IN <<row.ns, row.mid>>
  ELSE NoRow

PolicyOf(k) ==
  IF counters[k] = NoRow THEN NoRow ELSE <<counters[k].prefix, counters[k].width>>

Issued(k) ==
  [n \in 1..(IF counters[k] = NoRow THEN 0 ELSE counters[k].last) |->
     (CHOOSE b \in bindings : b.key = k /\ b.seq = n).mid]

Contract == INSTANCE AllocationStore WITH
  Policies <- Prefixes \X ValidWidths,
  Capacity <- [p \in Prefixes \X ValidWidths |-> Capacity[p[2]]],
  Owners <- Namespaces \X MachineIds,
  Clash <- LAMBDA k, p, l, q : k[2] = l[2] /\ p[1] = q[1],
  Nothing <- NoRow,
  owner <- [r \in References |-> Owner(r)],
  policy <- [k \in Keys |-> PolicyOf(k)],
  issued <- [k \in Keys |-> Issued(k)]

\* Where a caller's transaction ends, by its own COMMIT or by the START
\* TRANSACTION of a call, a batch of contract steps is taken, and otherwise one.
\* No counter is ever moved to another namespace, although the INSERT tries to.
ImplementsContract ==
  /\ Contract!Init
  /\ [][tables' # tables =>
          IF \E c \in begun : c \notin begun'
          THEN Contract!Transaction ELSE Contract!Next]_tables
=============================================================================
