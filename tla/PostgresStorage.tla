--------------------------- MODULE PostgresStorage ---------------------------
(***************************************************************************)
(* The PostgreSQL storage integration: the tables and functions of         *)
(* integrations/postgres/migrations, run statement by statement under READ *)
(* COMMITTED, and the adapter in packages/typescript/src/database.ts that  *)
(* calls them and turns SQLSTATEs into public codes.                       *)
(*                                                                         *)
(* A session is one database connection with one call at a time in flight. *)
(* An autocommit session (a pool) commits after each call; a session of    *)
(* CallerTx passes a transaction client, runs any number of calls in its   *)
(* own transaction and commits or rolls back itself.                       *)
(*                                                                         *)
(* Table rows are committed rows; what an open transaction has written is  *)
(* in its new... rows, which nobody else sees until Commit.  Rows are identified   *)
(* by Keys == Namespaces \X Scopes, the counter identity.                  *)
(***************************************************************************)
EXTENDS Integers, FiniteSets

CONSTANTS
  Sessions,     \* database connections
  CallerTx,     \* the sessions whose caller owns the transaction
  Namespaces,
  Scopes,       \* '' or a calendar year
  Prefixes,     \* reference prefixes
  Widths,       \* requested widths, valid or not
  ValidWidths,  \* 4..18 in the code
  Capacity,     \* the largest sequence of a width, 10^width - 1 in the code
  MachineIds,
  References,   \* canonical random references
  Reservations, \* the calls of reserve the callers make
  Requests,     \* the calls of allocate the callers make
  Versions,     \* deployed versions of allocate_sequence: "001", "003"
  NoRow         \* no such row (SQL NULL / NOT FOUND)

ASSUME SessionsAssumption == CallerTx \subseteq Sessions
ASSUME WidthsAssumption ==
  /\ ValidWidths \subseteq Widths
  /\ Capacity \in [ValidWidths -> Nat \ {0}]
ASSUME VersionsAssumption == Versions \subseteq {"001", "003"}

Keys == Namespaces \X Scopes

CounterRow == [prefix : Prefixes, width : ValidWidths, last : Nat]
ReferenceRow == [ref : References, ns : Namespaces, mid : MachineIds]
AllocationRow == [key : Keys, seq : Nat, mid : MachineIds,
                  prefix : Prefixes, width : ValidWidths]

AllocationRequest == [key : Keys, mid : MachineIds,
                      prefix : Prefixes, width : Widths]

ASSUME CallsAssumption ==
  Reservations \subseteq ReferenceRow /\ Requests \subseteq AllocationRequest

\* What a call answered: a sequence with the policy it was requested under, a
\* reservation won, or a reservation refused.
Results == [kind : {"allocated"}, row : AllocationRow]
             \cup [kind : {"won"}, row : ReferenceRow]
             \cup [kind : {"refused"}, ref : References]

ASSUME NoRowAssumption == NoRow \notin CounterRow \cup (Prefixes \X ValidWidths)

VARIABLES
  refs,       \* identifold_references
  counters,   \* identifold_sequences: key -> row or NoRow
  bindings,   \* identifold_sequence_allocations
  deployed,   \* the version CREATE OR REPLACE FUNCTION installed last
  newRefs,    \* session -> the rows its open transaction has inserted
  newCounters, \* session -> the counter rows it has inserted or updated
  newBindings, \* session -> the bindings it has inserted
  locks,      \* session -> the counters whose row it has locked
  results,    \* session -> what its calls have answered so far
  pc,         \* session -> its next statement
  req,        \* session -> the arguments of its last call
  version,    \* session -> the function body its call entered
  seen,       \* session -> the counter row its call read before it moves it
  sqlstate,   \* session -> SQLSTATE of its last finished call
  acked       \* the results whose commit was confirmed to the caller

tables == <<refs, counters, bindings>>
work == <<newRefs, newCounters, newBindings, locks, results>>
vars == <<refs, counters, bindings, deployed, newRefs, newCounters, newBindings,
          locks, results, pc, req, version, seen, sqlstate, acked>>

ReserveSteps == {"insert_reference"}
AllocateSteps == {"replay", "seed", "lock", "recheck", "advance", "bump", "bind"}
SqlStates == {"00000", "22003", "22023", "23505", "40P01", "08006"}

-----------------------------------------------------------------------------
(* What the code reads. *)

NoCounters == [k \in Keys |-> NoRow]

\* Each statement of a READ COMMITTED transaction sees the committed rows and
\* the rows its own transaction has written.
CounterOf(s, k) ==
  IF newCounters[s][k] # NoRow THEN newCounters[s][k] ELSE counters[k]
ReferencesOf(s) == refs \cup newRefs[s]

BindingsOf(s) == bindings \cup newBindings[s]

Replays(s) == {b \in BindingsOf(s) : b.key = req[s].key /\ b.mid = req[s].mid}

SamePolicy(row, r) == row.prefix = r.prefix /\ row.width = r.width

\* UNIQUE (reference_prefix, scope) of identifold_sequences
ClashesOnPrefix(k, r, row) == k[2] = r.key[2] /\ row.prefix = r.prefix

\* Rows another transaction inserted and has not committed.
Inserted(t) == {k \in Keys : counters[k] = NoRow /\ newCounters[t][k] # NoRow}

PrefixTaken(s) ==
  \E k \in Keys : /\ CounterOf(s, k) # NoRow
                  /\ ClashesOnPrefix(k, req[s], CounterOf(s, k))

-----------------------------------------------------------------------------
(* Who waits for whom: an insert waits for the transaction that holds an     *)
(* uncommitted row with the same unique key, a locking read or an update for *)
(* the holder of the row lock.                                               *)

\* Mutant: no unique constraint on reference.
NeverWaitsToReserve(s, t) == FALSE

WaitsToReserve(s, t) ==
  /\ pc[s] = "insert_reference"
  /\ \A row \in ReferencesOf(s) : row.ref # req[s].ref
  /\ \E row \in newRefs[t] : row.ref = req[s].ref

\* Mutant: no unique constraint on (reference_prefix, scope).
WaitsToSeedSameKey(s, t) ==
  /\ pc[s] = "seed"
  /\ CounterOf(s, req[s].key) = NoRow
  /\ req[s].key \in Inserted(t)

WaitsToSeed(s, t) ==
  /\ pc[s] = "seed"
  /\ CounterOf(s, req[s].key) = NoRow
  /\ \/ req[s].key \in Inserted(t)
     \/ /\ ~PrefixTaken(s)
        /\ \E k \in Inserted(t) :
              ClashesOnPrefix(k, req[s], newCounters[t][k])

\* Mutant: SELECT without FOR UPDATE.
NeverWaitsToLock(s, t) == FALSE

WaitsToLock(s, t) ==
  /\ pc[s] = "lock"
  /\ counters[req[s].key] # NoRow
  /\ req[s].key \in locks[t]

\* The UPDATE of version 001 waits only for a row its WHERE clause selects.
Selects(row, r) ==
  row # NoRow /\ SamePolicy(row, r) /\ row.last < Capacity[r.width]

WaitsToBump(s, t) ==
  /\ pc[s] = "bump"
  /\ Selects(counters[req[s].key], req[s])
  /\ req[s].key \in locks[t]

WaitsFor(s, t) ==
  s # t /\ \/ WaitsToReserve(s, t) \/ WaitsToSeed(s, t)
           \/ WaitsToLock(s, t) \/ WaitsToBump(s, t)

Blocked(s) == \E t \in Sessions : WaitsFor(s, t)

\* s is on a cycle of waits: it belongs to a set of sessions each of which
\* waits for a member and is waited for by a member.
Deadlocked(s) ==
  \E C \in SUBSET Sessions :
    /\ s \in C
    /\ \A t \in C : (\E u \in C : WaitsFor(t, u)) /\ (\E u \in C : WaitsFor(u, t))

-----------------------------------------------------------------------------
(* How a call ends. *)

\* An error, or a lost connection, undoes the whole transaction and frees its
\* locks.  The adapter maps the SQLSTATE.
Forget(s) ==
  /\ newRefs' = [newRefs EXCEPT ![s] = {}]
  /\ newCounters' = [newCounters EXCEPT ![s] = NoCounters]
  /\ newBindings' = [newBindings EXCEPT ![s] = {}]
  /\ locks' = [locks EXCEPT ![s] = {}]
  /\ results' = [results EXCEPT ![s] = {}]

\* Mutant: the adapter reports the error and leaves the transaction open.
RaiseInTransaction(s, code) ==
  /\ sqlstate' = [sqlstate EXCEPT ![s] = code]
  /\ pc' = [pc EXCEPT ![s] = "idle"]
  /\ seen' = [seen EXCEPT ![s] = NoRow]
  /\ UNCHANGED <<tables, work, deployed, req, version, acked>>

Raise(s, code) ==
  /\ sqlstate' = [sqlstate EXCEPT ![s] = code]
  /\ Forget(s)
  /\ pc' = [pc EXCEPT ![s] = "idle"]
  /\ seen' = [seen EXCEPT ![s] = NoRow]
  /\ UNCHANGED <<tables, deployed, req, version, acked>>

Return(s, result) ==
  /\ results' = [results EXCEPT ![s] = @ \cup {result}]
  /\ pc' = [pc EXCEPT ![s] = "returned"]
  /\ seen' = [seen EXCEPT ![s] = NoRow]
  /\ UNCHANGED <<tables, newRefs, newCounters, newBindings, locks, deployed, req, version, sqlstate, acked>>

Goto(s, step) ==
  /\ pc' = [pc EXCEPT ![s] = step]
  /\ UNCHANGED <<tables, deployed, work, req, version, seen, sqlstate, acked>>

\* The public code of a SQLSTATE; a normal return has none.
MapDatabaseError(code) ==
  CASE code = "00000" -> "ok"
    [] code = "22003" -> "sequence_overflow"
    [] code = "22023" -> "invalid_allocation_policy"
    [] OTHER -> "allocation_conflict"

Answer(s) == MapDatabaseError(sqlstate[s])

Allocated(r, n) ==
  [kind |-> "allocated",
   row |-> [key |-> r.key, seq |-> n, mid |-> r.mid,
            prefix |-> r.prefix, width |-> r.width]]

-----------------------------------------------------------------------------
(* The callers. *)

Ready(s) == pc[s] = "idle" \/ (pc[s] = "returned" /\ s \in CallerTx)

CallReserve(s, row) ==
  /\ Ready(s)
  /\ req' = [req EXCEPT ![s] = row]
  /\ pc' = [pc EXCEPT ![s] = "insert_reference"]
  /\ sqlstate' = [sqlstate EXCEPT ![s] = "00000"]
  /\ UNCHANGED <<tables, deployed, work, version, seen, acked>>

\* Mutant: no width check.
CallAllocateAnyWidth(s, r) ==
  /\ Ready(s)
  /\ req' = [req EXCEPT ![s] = r]
  /\ version' = [version EXCEPT ![s] = deployed]
  /\ pc' = [pc EXCEPT ![s] = IF deployed = "003" THEN "replay" ELSE "seed"]
  /\ sqlstate' = [sqlstate EXCEPT ![s] = "00000"]
  /\ UNCHANGED <<tables, deployed, work, seen, acked>>

\* Both versions check the width before they touch a table.
CallAllocate(s, r) ==
  /\ Ready(s)
  /\ req' = [req EXCEPT ![s] = r]
  /\ version' = [version EXCEPT ![s] = deployed]
  /\ IF r.width \in ValidWidths
     THEN /\ pc' = [pc EXCEPT ![s] = IF deployed = "003" THEN "replay" ELSE "seed"]
          /\ sqlstate' = [sqlstate EXCEPT ![s] = "00000"]
          /\ UNCHANGED work
     ELSE /\ pc' = [pc EXCEPT ![s] = "idle"]
          /\ Forget(s)
          /\ sqlstate' = [sqlstate EXCEPT ![s] = "22023"]
  /\ UNCHANGED <<tables, deployed, seen, acked>>

\* Every write of the transaction becomes visible at once.
Commit(s) ==
  /\ pc[s] = "returned"
  /\ refs' = refs \cup newRefs[s]
  /\ counters' = [k \in Keys |-> CounterOf(s, k)]
  /\ bindings' = bindings \cup newBindings[s]
  /\ Forget(s)
  /\ pc' = [pc EXCEPT ![s] = "idle"]
  /\ UNCHANGED <<deployed, version, seen>>

Confirm(s) ==
  /\ Commit(s)
  /\ req' = [req EXCEPT ![s] = NoRow]
  /\ acked' = acked \cup results[s]
  /\ sqlstate' = [sqlstate EXCEPT ![s] = "00000"]

\* The commit is durable and the connection fails before the caller hears.
LoseReply(s) ==
  /\ Commit(s)
  /\ sqlstate' = [sqlstate EXCEPT ![s] = "08006"]
  /\ UNCHANGED <<req, acked>>

\* The connection or the server fails before the commit.
LoseConnection(s) == pc[s] # "idle" /\ Raise(s, "08006")

\* The owner of a transaction gives it up.
RollBack(s) == pc[s] = "returned" /\ s \in CallerTx /\ Raise(s, "00000")

AbortDeadlock(s) == Deadlocked(s) /\ Raise(s, "40P01")

-----------------------------------------------------------------------------
(* identifold_reserve_reference *)

InsertReference(s) ==
  /\ pc[s] = "insert_reference"
  /\ ~Blocked(s)
  /\ IF \E row \in ReferencesOf(s) : row.ref = req[s].ref
     THEN Return(s, [kind |-> "refused", ref |-> req[s].ref])
     ELSE /\ newRefs' = [newRefs EXCEPT ![s] = @ \cup {req[s]}]
          /\ results' =
               [results EXCEPT ![s] = @ \cup {[kind |-> "won", row |-> req[s]]}]
          /\ pc' = [pc EXCEPT ![s] = "returned"]
          /\ UNCHANGED <<tables, newCounters, newBindings, locks, deployed, req,
                         version, seen, sqlstate, acked>>

-----------------------------------------------------------------------------
(* identifold_allocate_sequence, version 003 *)

\* The unlocked look for a binding of this MID.
Replay(s) ==
  /\ pc[s] = "replay"
  /\ \/ Replays(s) = {} /\ Goto(s, "seed")
     \/ \E b \in Replays(s) :
          IF SamePolicy(b, req[s]) THEN Return(s, Allocated(req[s], b.seq))
                                   ELSE Raise(s, "22023")

\* Mutant: ON CONFLICT DO UPDATE resets the counter.
SeedUpsert(s) ==
  /\ pc[s] = "seed"
  /\ ~Blocked(s)
  /\ newCounters' = [newCounters EXCEPT ![s][req[s].key] =
       [prefix |-> req[s].prefix, width |-> req[s].width, last |-> 0]]
  /\ locks' = [locks EXCEPT ![s] = @ \cup {req[s].key}]
  /\ pc' = [pc EXCEPT ![s] = IF version[s] = "003" THEN "lock" ELSE "bump"]
  /\ UNCHANGED <<tables, newRefs, newBindings, results, deployed, req, version,
                 seen, sqlstate, acked>>

\* INSERT ... ON CONFLICT DO NOTHING.  An inserted row is locked.
Seed(s) ==
  /\ pc[s] = "seed"
  /\ ~Blocked(s)
  /\ IF CounterOf(s, req[s].key) # NoRow \/ PrefixTaken(s)
     THEN UNCHANGED <<newCounters, locks>>
     ELSE /\ newCounters' = [newCounters EXCEPT ![s][req[s].key] =
               [prefix |-> req[s].prefix, width |-> req[s].width, last |-> 0]]
          /\ locks' = [locks EXCEPT ![s] = @ \cup {req[s].key}]
  /\ pc' = [pc EXCEPT ![s] = IF version[s] = "003" THEN "lock" ELSE "bump"]
  /\ UNCHANGED <<tables, newRefs, newBindings, results, deployed, req, version,
                 seen, sqlstate, acked>>

\* Mutant: the check of the definition under the lock compares nothing.
LockAnyPolicy(s) ==
  LET row == CounterOf(s, req[s].key) IN
  /\ pc[s] = "lock"
  /\ ~Blocked(s)
  /\ IF row = NoRow
     THEN Raise(s, "22023")
     ELSE /\ locks' = [locks EXCEPT ![s] = @ \cup {req[s].key}]
          /\ seen' = [seen EXCEPT ![s] = row]
          /\ pc' = [pc EXCEPT ![s] = "recheck"]
          /\ UNCHANGED <<tables, newRefs, newCounters, newBindings, results,
                         deployed, req, version, sqlstate, acked>>

\* SELECT ... FOR UPDATE, then the check of the counter's definition.
Lock(s) ==
  LET row == CounterOf(s, req[s].key) IN
  /\ pc[s] = "lock"
  /\ ~Blocked(s)
  /\ IF row = NoRow
     THEN Raise(s, "22023")
     ELSE IF ~SamePolicy(row, req[s])
     THEN Raise(s, "22023")
     ELSE /\ locks' = [locks EXCEPT ![s] = @ \cup {req[s].key}]
          /\ seen' = [seen EXCEPT ![s] = row]
          /\ pc' = [pc EXCEPT ![s] = "recheck"]
          /\ UNCHANGED <<tables, newRefs, newCounters, newBindings, results,
                         deployed, req, version, sqlstate, acked>>

\* Mutant: no second look for a binding.
RecheckNothing(s) == pc[s] = "recheck" /\ Goto(s, "advance")

\* The look for a binding again, under the lock; the policy is not compared.
Recheck(s) ==
  /\ pc[s] = "recheck"
  /\ \/ Replays(s) = {} /\ Goto(s, "advance")
     \/ \E b \in Replays(s) : Return(s, Allocated(req[s], b.seq))

\* Mutant: no unique constraint on (namespace, scope, mid).
ViolatesOnSequence(s, new) ==
  \E b \in BindingsOf(s) :
    b.seq = new.seq /\ b.prefix = new.prefix /\ b.key[2] = new.key[2]

\* The unique constraints of identifold_sequence_allocations.
Violates(s, new) ==
  \E b \in BindingsOf(s) :
    \/ b.key = new.key /\ (b.seq = new.seq \/ b.mid = new.mid)
    \/ b.prefix = new.prefix /\ b.key[2] = new.key[2] /\ b.seq = new.seq

Advanced(row) == [row EXCEPT !.last = @ + 1]

\* The UPDATE: the counter moves past the row that was read, and the number it
\* moved to is bound to no MID yet.
Move(s, row) ==
  /\ newCounters' = [newCounters EXCEPT ![s][req[s].key] = Advanced(row)]
  /\ locks' = [locks EXCEPT ![s] = @ \cup {req[s].key}]
  /\ seen' = [seen EXCEPT ![s] = row]
  /\ pc' = [pc EXCEPT ![s] = "bind"]
  /\ UNCHANGED <<tables, newRefs, newBindings, results, deployed, req, version,
                 sqlstate, acked>>

\* Mutant: > for >= in the overflow check.
AdvancePastCapacity(s) ==
  /\ pc[s] = "advance"
  /\ IF seen[s].last > Capacity[req[s].width]
     THEN Raise(s, "22003")
     ELSE Move(s, seen[s])

\* The overflow check and the UPDATE.
Advance(s) ==
  /\ pc[s] = "advance"
  /\ IF seen[s].last >= Capacity[req[s].width]
     THEN Raise(s, "22003")
     ELSE Move(s, seen[s])

\* Mutant: an INSERT that fails is ignored and the number returned.
BindIgnoringConflicts(s) ==
  LET result == Allocated(req[s], Advanced(seen[s]).last) IN
  /\ pc[s] = "bind"
  /\ newBindings' =
       [newBindings EXCEPT ![s] =
          IF Violates(s, result.row) THEN @ ELSE @ \cup {result.row}]
  /\ results' = [results EXCEPT ![s] = @ \cup {result}]
  /\ pc' = [pc EXCEPT ![s] = "returned"]
  /\ seen' = [seen EXCEPT ![s] = NoRow]
  /\ UNCHANGED <<tables, newRefs, newCounters, locks, deployed, req, version,
                 sqlstate, acked>>

\* The INSERT that binds the number to the MID, or hits a constraint: the last
\* statement of both versions.
Bind(s) ==
  LET result == Allocated(req[s], Advanced(seen[s]).last) IN
  /\ pc[s] = "bind"
  /\ IF Violates(s, result.row)
     THEN Raise(s, "23505")
     ELSE /\ newBindings' = [newBindings EXCEPT ![s] = @ \cup {result.row}]
          /\ results' = [results EXCEPT ![s] = @ \cup {result}]
          /\ pc' = [pc EXCEPT ![s] = "returned"]
          /\ seen' = [seen EXCEPT ![s] = NoRow]
          /\ UNCHANGED <<tables, newRefs, newCounters, locks, deployed, req,
                         version, sqlstate, acked>>

-----------------------------------------------------------------------------
(* identifold_allocate_sequence, version 001: no replay, one UPDATE that     *)
(* selects on the policy and the capacity.                                   *)

Bump(s) ==
  LET row == CounterOf(s, req[s].key) IN
  /\ pc[s] = "bump"
  /\ ~Blocked(s)
  /\ IF Selects(row, req[s]) THEN Move(s, row) ELSE Raise(s, "22003")

-----------------------------------------------------------------------------
\* Migration 003 up or down replaces the function; calls inside it go on with
\* the body they entered.
Deploy(v) ==
  /\ v # deployed
  /\ deployed' = v
  /\ UNCHANGED <<tables, work, pc, req, version, seen, sqlstate, acked>>

Init ==
  /\ refs = {}
  /\ counters = NoCounters
  /\ bindings = {}
  /\ deployed \in Versions
  /\ newRefs = [s \in Sessions |-> {}]
  /\ newCounters = [s \in Sessions |-> NoCounters]
  /\ newBindings = [s \in Sessions |-> {}]
  /\ locks = [s \in Sessions |-> {}]
  /\ results = [s \in Sessions |-> {}]
  /\ pc = [s \in Sessions |-> "idle"]
  /\ req = [s \in Sessions |-> NoRow]
  /\ version = [s \in Sessions |-> deployed]
  /\ seen = [s \in Sessions |-> NoRow]
  /\ sqlstate = [s \in Sessions |-> "00000"]
  /\ acked = {}

\* The statements of a call and the confirmation of its commit.
Statement(s) ==
  \/ InsertReference(s) \/ Replay(s) \/ Seed(s) \/ Lock(s) \/ Recheck(s)
  \/ Advance(s) \/ Bump(s) \/ Bind(s)

Next ==
  \/ \E s \in Sessions :
       \/ \E row \in Reservations : CallReserve(s, row)
       \/ \E r \in Requests : CallAllocate(s, r)
       \/ Statement(s)
       \/ Confirm(s) \/ LoseReply(s) \/ LoseConnection(s) \/ RollBack(s)
       \/ AbortDeadlock(s)
  \/ \E v \in Versions : Deploy(v)

Spec == Init /\ [][Next]_vars

\* The server keeps running the statement of a call and serves the waiters of
\* a lock in turn (its lock queue is first come, first served), so a statement
\* that is ready again and again runs; a cycle of waits is found; and the end
\* of a call reaches the caller, or a caller ends its own transaction.
Fairness ==
  \A s \in Sessions :
    SF_vars(Statement(s)) /\ SF_vars(Confirm(s)) /\ WF_vars(AbortDeadlock(s))

FairSpec == Spec /\ Fairness

-----------------------------------------------------------------------------
(* Properties *)

\* Every variable keeps the type of the table column or local it models.
TypeOK ==
  /\ refs \subseteq ReferenceRow
  /\ counters \in [Keys -> CounterRow \cup {NoRow}]
  /\ bindings \subseteq AllocationRow
  /\ deployed \in Versions
  /\ newRefs \in [Sessions -> SUBSET ReferenceRow]
  /\ newCounters \in [Sessions -> [Keys -> CounterRow \cup {NoRow}]]
  /\ newBindings \in [Sessions -> SUBSET AllocationRow]
  /\ locks \in [Sessions -> SUBSET Keys]
  /\ results \in [Sessions -> SUBSET Results]
  /\ pc \in [Sessions -> {"idle", "returned"} \cup ReserveSteps \cup AllocateSteps]
  /\ req \in [Sessions -> ReferenceRow \cup AllocationRequest \cup {NoRow}]
  /\ version \in [Sessions -> Versions]
  /\ seen \in [Sessions -> CounterRow \cup {NoRow}]
  /\ sqlstate \in [Sessions -> SqlStates]
  /\ acked \subseteq Results

\* The committed values of a counter are exactly 1..last, each bound under the
\* counter's own policy, and never beyond the width: contract rules 3, 7 and 8
\* (contract.md:49-54), kept by the counter row's lock in 003.up.sql:66-127
\* and by the single UPDATE of 001.up.sql.
Gapless ==
  \A k \in Keys :
    LET rows == {b \in bindings : b.key = k} IN
    /\ counters[k] = NoRow => rows = {}
    /\ counters[k] # NoRow =>
         /\ {b.seq : b \in rows} = 1..counters[k].last
         /\ counters[k].last <= Capacity[counters[k].width]
         /\ \A b \in rows : SamePolicy(b, counters[k])

\* A MID has one number in a counter and a formatted reference -- prefix, scope
\* and number, whatever namespace asked for it -- has one MID: what the unique
\* constraints promise (001.up.sql:22-24,46-48) and resolve relies on.
OneMidPerReference ==
  \A b, c \in bindings :
    \/ b.key = c.key /\ b.mid = c.mid
    \/ b.prefix = c.prefix /\ b.key[2] = c.key[2] /\ b.seq = c.seq
    => b = c

\* What the caller was told after a commit is in the tables, under the policy
\* it asked for: the service formats the reference with the requested prefix
\* and width, although the re-check under the lock (003.up.sql:87-96) compares
\* neither.
AckedIsStored ==
  \A a \in acked :
    \/ a.kind = "allocated" /\ a.row \in bindings
    \/ a.kind = "won" /\ a.row \in refs
    \/ a.kind = "refused" /\ \E row \in refs : row.ref = a.ref

\* Of all reservations of one reference, at most one is answered true, counting
\* the answers still waiting for their commit (contract.md:23-26).
OneWinner ==
  \A s, t \in Sessions :
    \A a \in results[s], b \in results[t] \cup acked :
      (a.kind = "won" /\ b.kind = "won" /\ a.row.ref = b.row.ref) =>
        (a = b /\ s = t /\ b \notin acked)

\* A refusal is final: after an autocommit call of the current function is told
\* sequence_overflow the counter is full and holds no number for the MID, and
\* after invalid_allocation_policy the width is invalid or the tables hold a
\* counter that the requested policy contradicts.  No lock order turns a replay
\* into a refusal (003.up.sql:79-103), and no call fails on a constraint.
RefusalIsFinal ==
  \A s \in Sessions \ CallerTx :
    (pc[s] = "idle" /\ version[s] = "003") =>
      LET r == req[s] IN
      /\ sqlstate[s] # "23505"
      /\ Answer(s) = "sequence_overflow" =>
           /\ counters[r.key] # NoRow
           /\ SamePolicy(counters[r.key], r)
           /\ counters[r.key].last = Capacity[r.width]
           /\ \A b \in bindings : b.key = r.key => b.mid # r.mid
      /\ Answer(s) = "invalid_allocation_policy" =>
           \/ r.width \notin ValidWidths
           \/ \E k \in Keys :
                /\ counters[k] # NoRow
                /\ \/ k = r.key /\ ~SamePolicy(counters[k], r)
                   \/ k # r.key /\ ClashesOnPrefix(k, r, counters[k])

\* "An uncertain commit is resolved through the stored MID replay binding
\* before success or failure is reported" (contract.md:67): a call that tells
\* its caller allocation_conflict has not bound the MID.
UncertainCommitIsResolved ==
  \A s \in Sessions :
    (pc[s] = "idle" /\ req[s] \in Requests /\ Answer(s) = "allocation_conflict")
      => \A b \in bindings : b.key = req[s].key => b.mid # req[s].mid

\* Two transactions never hold the same counter row, and an autocommit call
\* never takes part in a cycle of waits: only callers that keep a transaction
\* open over several calls can deadlock.
LocksAreExclusive ==
  \A s, t \in Sessions :
    /\ s # t => locks[s] \cap locks[t] = {}
    /\ Deadlocked(s) => s \in CallerTx

\* Committed mappings are never changed or removed, by any step, and a counter
\* moves only forward under the policy of its first call (contract.md:25,
\* design.md:173-183).
StoreOnlyGrows ==
  [][/\ refs \subseteq refs'
     /\ bindings \subseteq bindings'
     /\ \A k \in Keys : counters[k] # NoRow =>
          /\ counters'[k] # NoRow
          /\ SamePolicy(counters'[k], counters[k])
          /\ counters[k].last <= counters'[k].last]_vars

\* The tables as a contract store: the owner of a reference, the policy of a
\* counter and the MIDs in the order of their numbers.
Owner(r) ==
  IF \E row \in refs : row.ref = r
  THEN LET row == CHOOSE row \in refs : row.ref = r IN <<row.ns, row.mid>>
  ELSE NoRow

Policy(k) ==
  IF counters[k] = NoRow THEN NoRow ELSE <<counters[k].prefix, counters[k].width>>

Issued(k) ==
  [n \in 1..(IF counters[k] = NoRow THEN 0 ELSE counters[k].last) |->
     (CHOOSE b \in bindings : b.key = k /\ b.seq = n).mid]

Store == INSTANCE AllocationStore WITH
  Policies <- Prefixes \X ValidWidths,
  Capacity <- [p \in Prefixes \X ValidWidths |-> Capacity[p[2]]],
  Owners <- Namespaces \X MachineIds,
  Clash <- LAMBDA k, p, l, q : k[2] = l[2] /\ p[1] = q[1],
  Nothing <- NoRow,
  owner <- [r \in References |-> Owner(r)],
  policy <- [k \in Keys |-> Policy(k)],
  issued <- [k \in Keys |-> Issued(k)]

\* With autocommit, the tables implement the contract one call at a time:
\* every step of every interleaving reserves one free reference, gives one new
\* MID the next number of one counter, or changes nothing.
ImplementsContract == Store!Spec

\* With transactions of several calls, every commit is a batch of such steps.
ImplementsBatches == Store!BatchSpec

\* Every statement a session issues comes to an end, behind whatever locks.
EveryStatementEnds ==
  \A s \in Sessions :
    pc[s] \notin {"idle", "returned"} ~> pc[s] \in {"idle", "returned"}

-----------------------------------------------------------------------------
(* The inductive invariant behind these properties, part by part. *)

\* The arguments and locals a step reads are those of its call, and an idle
\* session has no open transaction.
StepsTyped ==
  \A s \in Sessions :
    /\ pc[s] = "idle" =>
         /\ newRefs[s] = {} /\ newCounters[s] = NoCounters /\ newBindings[s] = {}
         /\ locks[s] = {} /\ results[s] = {}
    /\ pc[s] \in ReserveSteps => req[s] \in ReferenceRow
    /\ pc[s] \in AllocateSteps =>
         req[s] \in AllocationRequest /\ req[s].width \in ValidWidths
    /\ pc[s] \in {"recheck", "advance", "bind"} => seen[s] # NoRow
    /\ pc[s] = "bump" => version[s] # "003"

\* The numbers of one counter, as some view of the tables shows them.
SoundCounter(k, row, rows) ==
  /\ row = NoRow => \A b \in rows : b.key # k
  /\ row # NoRow =>
       /\ row.last <= Capacity[row.width]
       /\ \A b \in rows : b.key = k => b.seq \in 1..row.last /\ SamePolicy(b, row)
       /\ \A n \in 1..row.last : \E b \in rows : b.key = k /\ b.seq = n
       /\ \A b, c \in rows :
            (b.key = k /\ c.key = k /\ (b.seq = c.seq \/ b.mid = c.mid)) => b = c

\* A counter as far as its numbers are bound: between the UPDATE and the INSERT
\* it is one number ahead of them.
BoundOf(s, k) ==
  IF pc[s] = "bind" /\ k = req[s].key THEN seen[s] ELSE CounterOf(s, k)

\* The committed tables and what each transaction sees are sound.
SoundViews ==
  \A k \in Keys :
    /\ SoundCounter(k, counters[k], bindings)
    /\ \A s \in Sessions : SoundCounter(k, BoundOf(s, k), BindingsOf(s))

\* Two rows of one prefix and scope, neither hidden from the other, are one.
OnePrefix(k, row, l, other) ==
  (row # NoRow /\ other # NoRow /\ k[2] = l[2] /\ row.prefix = other.prefix) => k = l

SoundPrefixes ==
  \A k, l \in Keys :
    /\ OnePrefix(k, counters[k], l, counters[l])
    /\ \A s \in Sessions : OnePrefix(k, CounterOf(s, k), l, CounterOf(s, l))
    /\ \A s, t \in Sessions :
         (k \in Inserted(s) /\ l \in Inserted(t) /\ k[2] = l[2]
            /\ newCounters[s][k].prefix = newCounters[t][l].prefix) => s = t

\* A transaction writes only counters it has locked, and moves them forward.
WritesUnderLock ==
  \A s \in Sessions :
    /\ \A k \in Keys : newCounters[s][k] # NoRow =>
         /\ k \in locks[s]
         /\ counters[k] # NoRow =>
              /\ SamePolicy(newCounters[s][k], counters[k])
              /\ counters[k].last <= newCounters[s][k].last
    /\ \A b \in newBindings[s] : b.key \in locks[s]
    /\ \A k \in locks[s] : CounterOf(s, k) # NoRow

ExclusiveLocks ==
  \A s, t \in Sessions : s # t => locks[s] \cap locks[t] = {}

\* The row read FOR UPDATE is still the row when it is written back, the number
\* it moves to fits the width, and the MID has no number when one is bound.
SeenIsCurrent ==
  \A s \in Sessions :
    /\ pc[s] \in {"recheck", "advance", "bind"} =>
         req[s].key \in locks[s] /\ SamePolicy(seen[s], req[s])
    /\ pc[s] \in {"recheck", "advance"} => seen[s] = CounterOf(s, req[s].key)
    /\ pc[s] = "bind" =>
         /\ newCounters[s][req[s].key] = Advanced(seen[s])
         /\ seen[s].last < Capacity[req[s].width]
    /\ pc[s] = "advance" \/ (pc[s] = "bind" /\ version[s] = "003") =>
         Replays(s) = {}

\* A reference has one row, committed or not.
OneRowPerReference ==
  \A s, t \in Sessions :
    \A a \in ReferencesOf(s), b \in ReferencesOf(t) :
      a.ref = b.ref => a = b /\ (s # t => a \in refs)

\* What a call has answered is in its own view of the tables.
ResultsAreStored ==
  \A s \in Sessions : \A a \in results[s] :
    \/ a.kind = "allocated" /\ a.row \in BindingsOf(s)
    \/ a.kind = "won" /\ a.row \in ReferencesOf(s)
    \/ a.kind = "refused" /\ \E row \in ReferencesOf(s) : row.ref = a.ref

IInv ==
  /\ TypeOK /\ StepsTyped
  /\ SoundViews /\ SoundPrefixes
  /\ WritesUnderLock /\ ExclusiveLocks /\ SeenIsCurrent
  /\ AckedIsStored /\ ResultsAreStored /\ OneRowPerReference
=============================================================================
