---------------------------- MODULE SqliteStorage ----------------------------
(***************************************************************************)
(* The SQLite storage integration: the tables of                           *)
(* integrations/sqlite/migrations, one database file with one write lock,  *)
(* and the adapters of all languages, which run the same statements inside *)
(* BEGIN IMMEDIATE and differ only in the three respects a port record     *)
(* names.                                                                  *)
(*                                                                         *)
(* A connection runs one adapter call at a time: the adapters serialize    *)
(* their calls on a connection.  The application may open a transaction of *)
(* its own on a connection it shares with the adapter, and calls made then *)
(* run inside it.  store is the committed file, draft what the holder of   *)
(* the write lock has made of it.                                          *)
(***************************************************************************)
EXTENDS Integers, FiniteSets

CONSTANTS
  Connections,
  Port,         \* connection -> the adapter that uses it
  Namespaces,
  Scopes,       \* '' or a calendar year
  Prefixes,
  Widths,       \* requested widths, valid or not
  ValidWidths,  \* 4..18 in the code
  Capacity,     \* 10^width - 1 in the code
  MachineIds,
  References,
  Reservations, \* the calls of reserve the application makes
  Requests,     \* the calls of allocate the application makes
  NoRow,
  Nobody        \* holds the write lock

Keys == Namespaces \X Scopes
Codes == {"invalid_allocation_policy", "sequence_overflow", "allocation_conflict"}

CounterRow == [prefix : Prefixes, width : ValidWidths, last : Nat]
ReferenceRow == [ref : References, ns : Namespaces, mid : MachineIds]
AllocationRow == [key : Keys, seq : Nat, mid : MachineIds,
                  prefix : Prefixes, width : ValidWidths]
AllocationRequest == [key : Keys, mid : MachineIds,
                      prefix : Prefixes, width : Widths]

Tables == [refs : SUBSET ReferenceRow,
           counters : [Keys -> CounterRow \cup {NoRow}],
           bindings : SUBSET AllocationRow]

Results == [kind : {"allocated"}, row : AllocationRow]
             \cup [kind : {"won"}, row : ReferenceRow]
             \cup [kind : {"refused"}, ref : References]

-----------------------------------------------------------------------------
(* The ports.  shared: calls run on a connection the application keeps, not  *)
(* on one taken from a pool for the call.  unwinds: a failed call runs       *)
(* ROLLBACK whoever began the transaction.  missing: the code of a counter   *)
(* row that is not there after the insert, because another namespace holds   *)
(* its prefix.  A caller's transaction in C# is one begun by SQL text: one    *)
(* begun through the driver's own class is refused there, without a code.     *)

Conflict == "allocation_conflict"
Policy == "invalid_allocation_policy"

Ports == [shared : BOOLEAN, unwinds : BOOLEAN, missing : {Policy, Conflict}]

TypeScript == [shared |-> TRUE,  unwinds |-> TRUE,  missing |-> Policy]
Python     == [shared |-> TRUE,  unwinds |-> TRUE,  missing |-> Policy]
Go         == [shared |-> FALSE, unwinds |-> FALSE, missing |-> Conflict]
Rust       == [shared |-> FALSE, unwinds |-> FALSE, missing |-> Conflict]
Java       == [shared |-> FALSE, unwinds |-> FALSE, missing |-> Policy]
Kotlin     == [shared |-> FALSE, unwinds |-> FALSE, missing |-> Policy]
CSharp     == [shared |-> TRUE,  unwinds |-> FALSE, missing |-> Policy]
Swift      == [shared |-> TRUE,  unwinds |-> FALSE, missing |-> Conflict]
Ruby       == [shared |-> TRUE,  unwinds |-> FALSE, missing |-> Policy]
PHP        == [shared |-> TRUE,  unwinds |-> FALSE, missing |-> Policy]

ASSUME WidthsAssumption ==
  /\ ValidWidths \subseteq Widths
  /\ Capacity \in [ValidWidths -> Nat \ {0}]
ASSUME PortsAssumption == Port \in [Connections -> Ports]
ASSUME CallsAssumption ==
  Reservations \subseteq ReferenceRow /\ Requests \subseteq AllocationRequest
ASSUME NamesAssumption ==
  /\ NoRow \notin CounterRow \cup (Prefixes \X ValidWidths)
  /\ Nobody \notin Connections

VARIABLES
  store,    \* the committed tables
  draft,    \* the tables as the holder of the write lock sees them
  writer,   \* who holds the write lock
  tx,       \* connection -> "none", "own" (of a call) or "caller"
  pc,       \* connection -> the next statement of its call
  req,      \* connection -> the arguments of its last call of allocate
  number,   \* connection -> the number its call is about to return
  answer,   \* connection -> the code its last call ended with, or "ok"
  results,  \* connection -> what was answered inside the caller's transaction
  acked     \* what was answered and committed

vars == <<store, draft, writer, tx, pc, req, number, answer, results, acked>>

Steps == {"begin", "replay", "seed", "policy", "update", "bind", "commit"}

-----------------------------------------------------------------------------
(* What the statements read. *)

\* The holder of the write lock sees its own writes.
View(c) == IF writer = c THEN draft ELSE store

SamePolicy(row, r) == row.prefix = r.prefix /\ row.width = r.width

Replays(c) == {b \in View(c).bindings : b.key = req[c].key /\ b.mid = req[c].mid}

CounterOf(c) == View(c).counters[req[c].key]

\* The primary key and UNIQUE (reference_prefix, scope) of identifold_sequences.
HasConflict(counters, r) ==
  \/ counters[r.key] # NoRow
  \/ \E k \in Keys : /\ counters[k] # NoRow
                     /\ k[2] = r.key[2] /\ counters[k].prefix = r.prefix

\* The unique constraints of identifold_sequence_allocations.
Violates(bindings, new) ==
  \E b \in bindings :
    \/ b.key = new.key /\ (b.seq = new.seq \/ b.mid = new.mid)
    \/ b.prefix = new.prefix /\ b.key[2] = new.key[2] /\ b.seq = new.seq

Binding(r, n) ==
  [key |-> r.key, seq |-> n, mid |-> r.mid, prefix |-> r.prefix, width |-> r.width]

-----------------------------------------------------------------------------
(* Transactions and calls. *)

\* The lock is free, or c has it already.
CanWrite(c) == writer \in {Nobody, c}

\* A transaction of c ends and leaves the file as tables.
EndTransaction(c, tables) ==
  /\ store' = tables
  /\ draft' = IF CanWrite(c) THEN tables ELSE draft
  /\ writer' = IF CanWrite(c) THEN Nobody ELSE writer
  /\ tx' = [tx EXCEPT ![c] = "none"]
  /\ results' = [results EXCEPT ![c] = {}]

\* Mutant: an answer in a caller's transaction is taken for final.
AnsweredForGood(c, result) == acked' = acked \cup {result} /\ UNCHANGED results

\* What the transaction of a call, a caller's or its own, has answered.
Answered(c, result) ==
  IF tx[c] = "caller"
  THEN results' = [results EXCEPT ![c] = @ \cup {result}] /\ UNCHANGED acked
  ELSE acked' = acked \cup {result} /\ UNCHANGED results

\* Mutant: a failed call leaves its transaction open.
FailInTransaction(c, code) ==
  /\ answer' = [answer EXCEPT ![c] = code]
  /\ pc' = [pc EXCEPT ![c] = "idle"]
  /\ UNCHANGED <<store, draft, writer, tx, req, number, results, acked>>

\* Mutant: every adapter rolls back whatever is open.
FailUnwinding(c, code) ==
  /\ answer' = [answer EXCEPT ![c] = code]
  /\ pc' = [pc EXCEPT ![c] = "idle"]
  /\ EndTransaction(c, store)
  /\ number' = [number EXCEPT ![c] = 0]
  /\ UNCHANGED <<req, acked>>

\* A call ends with a code; the adapter rolls back the transaction it began --
\* or any that is open, whoever began it.
Fail(c, code) ==
  /\ answer' = [answer EXCEPT ![c] = code]
  /\ pc' = [pc EXCEPT ![c] = "idle"]
  /\ IF tx[c] = "own" \/ (tx[c] = "caller" /\ Port[c].unwinds)
     THEN EndTransaction(c, store)
     ELSE UNCHANGED <<store, draft, writer, tx, results>>
  /\ number' = [number EXCEPT ![c] = 0]
  /\ UNCHANGED <<req, acked>>

Goto(c, step) == pc' = [pc EXCEPT ![c] = step]

\* A statement of allocate succeeds and leaves c with these tables.
Proceed(c, step, tables) ==
  /\ Goto(c, step)
  /\ draft' = tables
  /\ UNCHANGED <<store, writer, tx, req, answer, results, acked>>

-----------------------------------------------------------------------------
(* The application's own transactions. *)

\* BEGIN takes no lock, BEGIN IMMEDIATE the write lock.
CallerBegin(c) ==
  /\ Port[c].shared
  /\ pc[c] = "idle" /\ tx[c] = "none"
  /\ tx' = [tx EXCEPT ![c] = "caller"]
  /\ \/ UNCHANGED writer
     \/ writer = Nobody /\ writer' = c
  /\ UNCHANGED <<store, draft, pc, req, number, answer, results, acked>>

CallerCommit(c) ==
  /\ pc[c] = "idle" /\ tx[c] = "caller"
  /\ EndTransaction(c, View(c))
  /\ acked' = acked \cup results[c]
  /\ UNCHANGED <<pc, req, number, answer>>

CallerRollback(c) ==
  /\ pc[c] = "idle" /\ tx[c] = "caller"
  /\ EndTransaction(c, store)
  /\ UNCHANGED <<pc, req, number, answer, acked>>

\* The process ends; the next connection rolls its journal back.
Crash(c) ==
  /\ pc[c] # "idle" \/ tx[c] # "none"
  /\ EndTransaction(c, store)
  /\ pc' = [pc EXCEPT ![c] = "idle"]
  /\ answer' = [answer EXCEPT ![c] = "lost"]
  /\ number' = [number EXCEPT ![c] = 0]
  /\ UNCHANGED <<req, acked>>

-----------------------------------------------------------------------------
(* reserve: one INSERT ... ON CONFLICT(reference) DO NOTHING, which commits  *)
(* by itself unless the caller has a transaction open.                       *)

Reserve(c, row) ==
  LET won == \A other \in View(c).refs : other.ref # row.ref
      tables == [View(c) EXCEPT !.refs = IF won THEN @ \cup {row} ELSE @]
  IN
  /\ pc[c] = "idle"
  /\ CanWrite(c)
  /\ IF tx[c] = "caller"
     THEN draft' = tables /\ writer' = c /\ UNCHANGED store
     ELSE store' = tables /\ draft' = tables /\ UNCHANGED writer
  /\ Answered(c, IF won THEN [kind |-> "won", row |-> row]
                        ELSE [kind |-> "refused", ref |-> row.ref])
  /\ answer' = [answer EXCEPT ![c] = "ok"]
  /\ UNCHANGED <<tx, pc, req, number>>

\* SQLITE_BUSY: another connection has the write lock, or a reader keeps the
\* statement from committing.
ReserveBusy(c) ==
  /\ pc[c] = "idle"
  /\ tx[c] = "none" \/ ~CanWrite(c)
  /\ answer' = [answer EXCEPT ![c] = Conflict]
  /\ UNCHANGED <<store, draft, writer, tx, pc, req, number, results, acked>>

-----------------------------------------------------------------------------
(* allocate *)

\* Mutant: no width check.
CallAllocateAnyWidth(c, r) ==
  /\ pc[c] = "idle"
  /\ req' = [req EXCEPT ![c] = r]
  /\ Goto(c, "begin")
  /\ answer' = [answer EXCEPT ![c] = "ok"]
  /\ UNCHANGED <<store, draft, writer, tx, number, results, acked>>

CallAllocate(c, r) ==
  /\ pc[c] = "idle"
  /\ req' = [req EXCEPT ![c] = r]
  /\ IF r.width \in ValidWidths
     THEN Goto(c, "begin") /\ answer' = [answer EXCEPT ![c] = "ok"]
     ELSE Goto(c, "idle") /\ answer' = [answer EXCEPT ![c] = Policy]
  /\ UNCHANGED <<store, draft, writer, tx, number, results, acked>>

\* BEGIN IMMEDIATE.
Begin(c) ==
  /\ pc[c] = "begin"
  /\ tx[c] = "none" /\ writer = Nobody
  /\ tx' = [tx EXCEPT ![c] = "own"]
  /\ writer' = c
  /\ Goto(c, "replay")
  /\ UNCHANGED <<store, draft, req, number, answer, results, acked>>

\* SQLITE_BUSY, or a transaction within a transaction.
BeginFails(c) ==
  /\ pc[c] = "begin"
  /\ tx[c] = "caller" \/ ~CanWrite(c)
  /\ Fail(c, Conflict)

\* Mutant: no look for a binding of the MID.
ReplayNothing(c) == pc[c] = "replay" /\ Proceed(c, "seed", draft) /\ UNCHANGED number

Replay(c) ==
  /\ pc[c] = "replay"
  /\ \/ Replays(c) = {} /\ Proceed(c, "seed", draft) /\ UNCHANGED number
     \/ \E b \in Replays(c) :
          IF SamePolicy(b, req[c])
          THEN Proceed(c, "commit", draft) /\ number' = [number EXCEPT ![c] = b.seq]
          ELSE Fail(c, Policy)

\* INSERT ... ON CONFLICT DO NOTHING
Seed(c) ==
  LET row == [prefix |-> req[c].prefix, width |-> req[c].width, last |-> 0] IN
  /\ pc[c] = "seed"
  /\ Proceed(c, "policy", IF HasConflict(draft.counters, req[c]) THEN draft
                          ELSE [draft EXCEPT !.counters[req[c].key] = row])
  /\ UNCHANGED number

\* Mutant: > for >= in the overflow check.
CheckPolicyPastCapacity(c) ==
  LET row == CounterOf(c) IN
  /\ pc[c] = "policy"
  /\ IF row = NoRow THEN Fail(c, Port[c].missing)
     ELSE IF ~SamePolicy(row, req[c]) THEN Fail(c, Policy)
     ELSE IF row.last > Capacity[req[c].width] THEN Fail(c, "sequence_overflow")
     ELSE /\ Proceed(c, "update", draft)
          /\ number' = [number EXCEPT ![c] = row.last + 1]

\* The counter is read and compared; the next number is computed.
CheckPolicy(c) ==
  LET row == CounterOf(c) IN
  /\ pc[c] = "policy"
  /\ IF row = NoRow THEN Fail(c, Port[c].missing)
     ELSE IF ~SamePolicy(row, req[c]) THEN Fail(c, Policy)
     ELSE IF row.last >= Capacity[req[c].width] THEN Fail(c, "sequence_overflow")
     ELSE /\ Proceed(c, "update", draft)
          /\ number' = [number EXCEPT ![c] = row.last + 1]

\* Mutant: the counter moves outside the transaction of the binding.
UpdateAtOnce(c) ==
  LET tables == [draft EXCEPT !.counters[req[c].key].last = number[c]] IN
  /\ pc[c] = "update"
  /\ draft' = tables
  /\ store' = tables
  /\ Goto(c, "bind")
  /\ UNCHANGED <<writer, tx, req, number, answer, results, acked>>

Update(c) ==
  /\ pc[c] = "update"
  /\ Proceed(c, "bind", [draft EXCEPT !.counters[req[c].key].last = number[c]])
  /\ UNCHANGED number

Bind(c) ==
  LET new == Binding(req[c], number[c]) IN
  /\ pc[c] = "bind"
  /\ IF Violates(draft.bindings, new)
     THEN Fail(c, Conflict)
     ELSE /\ Proceed(c, "commit", [draft EXCEPT !.bindings = @ \cup {new}])
          /\ UNCHANGED number

CommitOwn(c) ==
  /\ pc[c] = "commit"
  /\ store' = draft
  /\ writer' = Nobody
  /\ tx' = [tx EXCEPT ![c] = "none"]
  /\ acked' = acked \cup {[kind |-> "allocated", row |-> Binding(req[c], number[c])]}
  /\ Goto(c, "idle")
  /\ number' = [number EXCEPT ![c] = 0]
  /\ UNCHANGED <<draft, req, answer, results>>

\* A reader keeps the transaction from committing until the busy timeout ends.
CommitBusy(c) == pc[c] = "commit" /\ Fail(c, Conflict)

-----------------------------------------------------------------------------
EmptyTables ==
  [refs |-> {}, counters |-> [k \in Keys |-> NoRow], bindings |-> {}]

Init ==
  /\ store = EmptyTables
  /\ draft = EmptyTables
  /\ writer = Nobody
  /\ tx = [c \in Connections |-> "none"]
  /\ pc = [c \in Connections |-> "idle"]
  /\ req = [c \in Connections |-> NoRow]
  /\ number = [c \in Connections |-> 0]
  /\ answer = [c \in Connections |-> "ok"]
  /\ results = [c \in Connections |-> {}]
  /\ acked = {}

Allocation(c) ==
  \/ Begin(c) \/ BeginFails(c) \/ Replay(c) \/ Seed(c) \/ CheckPolicy(c)
  \/ Update(c) \/ Bind(c) \/ CommitOwn(c) \/ CommitBusy(c)

Next ==
  \E c \in Connections :
    \/ CallerBegin(c) \/ CallerCommit(c) \/ CallerRollback(c) \/ Crash(c)
    \/ \E row \in Reservations : Reserve(c, row)
    \/ ReserveBusy(c)
    \/ \E r \in Requests : CallAllocate(c, r)
    \/ Allocation(c)

Spec == Init /\ [][Next]_vars

-----------------------------------------------------------------------------
(* Properties *)

\* Every variable keeps the type of the column, lock or local it models.
TypeOK ==
  /\ store \in Tables
  /\ draft \in Tables
  /\ writer \in Connections \cup {Nobody}
  /\ tx \in [Connections -> {"none", "own", "caller"}]
  /\ pc \in [Connections -> {"idle"} \cup Steps]
  /\ req \in [Connections -> AllocationRequest \cup {NoRow}]
  /\ number \in [Connections -> Nat]
  /\ answer \in [Connections -> Codes \cup {"ok", "lost"}]
  /\ results \in [Connections -> SUBSET Results]
  /\ acked \subseteq Results

\* The tables of one moment keep the contract's counters: the numbers of a
\* counter are 1..last, each bound once and under the counter's policy, one MID
\* has one number, and one (prefix, scope) one counter.
Sound(t) ==
  /\ \A k \in Keys :
       LET row == t.counters[k] IN
       /\ \A b \in t.bindings : b.key = k =>
            row # NoRow /\ b.seq \in 1..row.last /\ SamePolicy(b, row)
       /\ row # NoRow =>
            /\ row.last <= Capacity[row.width]
            /\ \A n \in 1..row.last : \E b \in t.bindings : b.key = k /\ b.seq = n
  /\ \A b, c \in t.bindings :
       b.key = c.key /\ (b.seq = c.seq \/ b.mid = c.mid) => b = c
  /\ \A k, l \in Keys :
       (t.counters[k] # NoRow /\ t.counters[l] # NoRow /\ k[2] = l[2]
          /\ t.counters[k].prefix = t.counters[l].prefix) => k = l
  /\ \A a, b \in t.refs : a.ref = b.ref => a = b

\* The file is sound whatever process ended in the middle of a call, whatever
\* commit was refused and whatever transaction a call ran in (contract.md:49-55;
\* UPDATE and INSERT of one BEGIN IMMEDIATE, sqlite.ts:147-167).
StoreIsSound == Sound(store)

\* What was answered and committed is in the file: a reservation or a number
\* given inside a caller's transaction counts from the caller's COMMIT on.
AckedIsStored ==
  \A a \in acked :
    \/ a.kind = "allocated" /\ a.row \in store.bindings
    \/ a.kind = "won" /\ a.row \in store.refs
    \/ a.kind = "refused" /\ \E row \in store.refs : row.ref = a.ref

\* A call that has ended, well or badly, holds no transaction and no lock of
\* its own: after SQLITE_BUSY at BEGIN or at COMMIT and after a refusal the
\* connection can be used again (sqlite.ts:169-176 and its ports).
NothingLeftBehind ==
  \A c \in Connections :
    /\ pc[c] = "idle" => tx[c] # "own"
    /\ writer = c => tx[c] # "none"

\* A refusal is final: the file holds what the code says -- a full counter
\* without the MID, or a policy that contradicts the request -- and not the
\* uncommitted work of a call that was rolled back.
RefusalIsFinal ==
  \A c \in Connections :
    LET r == req[c] IN
    /\ answer[c] = "sequence_overflow" =>
         /\ store.counters[r.key] # NoRow
         /\ SamePolicy(store.counters[r.key], r)
         /\ store.counters[r.key].last = Capacity[r.width]
         /\ \A b \in store.bindings : b.key = r.key => b.mid # r.mid
    /\ answer[c] = Policy =>
         \/ r.width \notin ValidWidths
         \/ /\ HasConflict(store.counters, r)
            /\ store.counters[r.key] # NoRow => ~SamePolicy(store.counters[r.key], r)

\* The adapter "owns transactions opened for one operation" (contract.md:15):
\* a transaction the caller opened is ended by the caller, or by the death of
\* its process, and by no call.
CallersTransactionIsTheirs ==
  [][\A c \in Connections :
       (tx[c] = "caller" /\ tx'[c] # "caller")
         => CallerCommit(c) \/ CallerRollback(c) \/ Crash(c)]_vars

\* The file as a contract store.
Owner(r) ==
  IF \E row \in store.refs : row.ref = r
  THEN LET row == CHOOSE row \in store.refs : row.ref = r IN <<row.ns, row.mid>>
  ELSE NoRow

PolicyOf(k) ==
  IF store.counters[k] = NoRow THEN NoRow
  ELSE <<store.counters[k].prefix, store.counters[k].width>>

Issued(k) ==
  [n \in 1..(IF store.counters[k] = NoRow THEN 0 ELSE store.counters[k].last) |->
     (CHOOSE b \in store.bindings : b.key = k /\ b.seq = n).mid]

Contract == INSTANCE AllocationStore WITH
  Policies <- Prefixes \X ValidWidths,
  Capacity <- [p \in Prefixes \X ValidWidths |-> Capacity[p[2]]],
  Owners <- Namespaces \X MachineIds,
  Clash <- LAMBDA k, p, l, q : k[2] = l[2] /\ p[1] = q[1],
  Nothing <- NoRow,
  owner <- [r \in References |-> Owner(r)],
  policy <- [k \in Keys |-> PolicyOf(k)],
  issued <- [k \in Keys |-> Issued(k)]

\* Every step of the file is one contract step, but for the commit of a caller's
\* transaction, which is a batch of them.
ImplementsContract ==
  /\ Contract!Init
  /\ [][store' # store =>
          IF \E c \in Connections : CallerCommit(c)
          THEN Contract!Transaction ELSE Contract!Next]_store
=============================================================================
