# identifold in TLA+

identifold gives a record three names: a MID (machine identifier, a UUIDv7), a
PID (public identifier, the MID with a type prefix) and, if its namespace asks
for one, a REF (human reference).  MID and PID are computed; a REF is a promise
kept by a database: a random REF is *reserved*, a sequential REF is *allocated*
from a counter.  The promises - one MID per REF, no number twice, no number
skipped, a replay answered with the number it had - are what this project
models, checks and proves.

## Inventory

| Component | State | Operations | What is hard |
| --- | --- | --- | --- |
| Identity service (`packages/typescript/src/service.ts`) | none between calls | `create`, `parse`, `inspect`, `normalize`, `validate` | `create` awaits the store between generating a MID and returning it: retries after a lost answer, exhausted candidates, a year that ends meanwhile |
| Reference codec (`reference.ts`, `spec/human-reference.md`, `spec/checksums.md`) | none | format and parse random and sequential REFs, check symbols | parsing without hyphens, aliases in the payload, overlap of the two formats, widths at their limit |
| Namespace registry (`registry.ts`) | immutable table | construction with validation, lookups | prefix-freeness must make every hyphenless parse unambiguous |
| Resolver (`resolver.ts`, `004_reference_lookup.up.sql`) | none | canonicalise, look up, verify | two tables may hold one text; a corrupt row must not resolve |
| PostgreSQL storage (`integrations/postgres`, `database.ts`, `postgres.ts`, `prisma.ts`, `drizzle.ts` and nine ports) | `identifold_references`, `identifold_sequences`, `identifold_sequence_allocations` | `reserve`, `allocate`, `resolve`, the migrations | READ COMMITTED interleavings of five statements, waits and deadlocks, caller-owned transactions, lost replies, replacement of the function under load |
| MySQL storage (`integrations/mysql`, `mysql.ts` and nine ports) | the same three tables | the same | gap locks, deadlock victims and retries, a connection shared by concurrent calls (Swift) |
| SQLite storage (`integrations/sqlite`, `sqlite.ts` and nine ports) | the same three tables, one write lock | the same | BEGIN IMMEDIATE inside a caller's transaction, SQLITE_BUSY, roll back of what the adapter did not begin |
| Legacy aliases (`legacy.ts`, `002_legacy_aliases.up.sql`) | alias table | classify, plan a migration | little: insert-only table written by the application |
| MID and PID codecs (`machine.ts`, `public.ts`) | none | create, parse, convert | bit layout; conversions are a bijection |
| Boundary helpers (`cli.ts`, `json.ts`, `middleware.ts`, `observability.ts`, `openapi.ts`, `zod.ts`, `exchange.ts`) | none | parse, render | wording and layout |
| Conformance runner (`conformance/`) | none | drives the ports | test code |

The service calls the storage through three interfaces (`ReferenceStore`,
`SequenceAllocator`, `ReferenceLookup`); every storage adapter implements them
against its own database; concurrency exists only there, between database
sessions, and between calls of `create` that await the storage.

What makes each part correct:

* **storage**: a reference has one owner for good; the numbers of a counter are
  1..n, each bound to one MID under one policy; a replay gets its number back; a
  refusal is justified; nothing committed changes; every statement ends;
* **service**: an identity it returns is stored, candidates are bounded, an error
  leaves at most one unused reservation or number;
* **codec and registry**: parse inverts format, an accepted text has one reading,
  the check symbol finds every single substitution;
* **resolver**: it answers the owner that storage recorded or nothing.

## Modules

| Module | Models | Source |
| --- | --- | --- |
| `AllocationStore` | what every adapter promises, without sessions or statements | `service.ts` interfaces, `conformance/storage/contract.md` |
| `PostgresStorage` | the PostgreSQL functions, statement by statement, and the adapter that calls them | `integrations/postgres/migrations`, `database.ts` |
| `SqliteStorage` | one database file with one write lock, the statements of the SQLite adapters and the application's own transactions | `integrations/sqlite/migrations`, `sqlite.ts` and nine ports |
| `MySqlStorage` | the MySQL procedures, InnoDB's locks, the adapter's retry loop | `integrations/mysql/migrations`, `mysql.ts`, the ports of Python and Swift |
| `IdentityService` | concurrent calls of `create` over a storage that keeps the contract but may fail | `service.ts` |
| `CheckSymbol` | alphabets and check symbols | `reference.ts` |
| `NamespaceRegistry` | which definitions make a registry | `registry.ts`, `exchange.ts` |
| `ReferenceCodec` | writing and reading references, `parse` and `inspect` of the service, the parts a lookup searches for | `reference.ts`, `service.ts`, `sql-storage.ts` |
| `ReferenceReading` | the life of a reference outside the program, from the registry to the resolver | the same, `resolver.ts`, `sqlite.ts`, migration 004 |
| `PostgresStorageProofs`, `PostgresAnswersProofs`, `SqliteStorageProofs`, `MySqlStorageProofs`, `IdentityServiceProofs`, `ReferenceReadingProofs` | inductive invariants and theorems | |
| `ReferenceCodecProofs` | what the operators of the codec compute for texts of every length; no state | |
| `ContractLemmas` | what a change of the three tables is in the contract's store: lemmas the storages share | |
| `MCPostgresStorage`, `MCSqliteStorage`, `MCMySqlStorage`, `MCIdentityService`, `MCReferenceReading` | instances for TLC | |

`PostgresStorage`, `SqliteStorage` and `MySqlStorage` are each shown to implement
`AllocationStore`, by TLC and by proof, and `IdentityService` is built on it: the service does not
depend on which of them it has.  `ReferenceReading` composes `CheckSymbol`,
`NamespaceRegistry` and `ReferenceCodec`, which have operators and no state.

### AllocationStore

State: the owner of each reference, the policy of each counter, and for each
counter the MIDs in the order of their numbers.  A step reserves one free
reference or appends one new MID to one log; refusals and replays stutter.
`Transaction` is what the commit of several calls together may do.

### PostgresStorage

A session is a database connection.  `refs`, `counters` and `bindings` are the
committed rows of the three tables; `newRefs`, `newCounters` and `newBindings`
are what the open transaction of a session has written and only it can see
(`CounterOf`, `ReferencesOf`, `BindingsOf` are its view, taken anew by each
statement as READ COMMITTED does).  `locks` are its row locks.  `pc` is the
statement a session is about to run; each statement of
`identifold_allocate_sequence` is an action:

| Action | Statement |
| --- | --- |
| `CallAllocate` | the adapter's query and the width check |
| `Replay` | the unlocked look for a binding (`003:27-48`) |
| `Seed` | `INSERT ... ON CONFLICT DO NOTHING` (`003:50-64`) |
| `Lock` | `SELECT ... FOR UPDATE` and the policy check (`003:66-85`) |
| `Recheck` | the look for a binding under the lock (`003:87-96`) |
| `Advance` | overflow check and `UPDATE` of the counter (`003:98-110`) |
| `Bump` | the same in version 001, the conditions in the `UPDATE` itself (`001:113-126`) |
| `Bind` | `INSERT` of the binding (`003:112-129`, `001:128-147`), which a unique constraint may refuse; the connection may be lost before it, with the counter already moved |
| `CallReserve`, `InsertReference` | `identifold_reserve_reference` |
| `Confirm`, `LoseReply` | the commit, with and without the answer reaching the caller |
| `LoseConnection`, `RollBack`, `AbortDeadlock` | the other ends of a transaction |
| `Deploy` | migration 003 up or down; a call keeps the body it entered |

An insert waits for a transaction that holds an uncommitted row with the same
unique key, `FOR UPDATE` and `UPDATE` wait for the holder of the row lock;
`Deadlocked` is a cycle of such waits.  A session of `CallerTx` is a transaction
client (Prisma, Drizzle, a checked-out `pg` client): its calls share one
transaction that its owner commits or rolls back.  The other sessions commit
after each call, as a pool does.  Rows are identified by counter, and prefix and
width are atoms: nothing in these statements looks inside them.

### SqliteStorage

`store` is the committed file, `draft` what the holder of the write lock
(`writer`) has made of it; SQLite has no row locks and no second writer, so two
values of the three tables are the whole database.  A connection runs one
adapter call at a time; `tx` says whether a transaction is open on it and whether
the call (`own`) or the application (`caller`) began it.  Between calls the
application may begin, commit and roll back transactions of its own on a
connection it shares with the adapter.

| Action | Statement |
| --- | --- |
| `CallAllocate` | the width check |
| `Begin`, `BeginFails` | `BEGIN IMMEDIATE`; another connection has the lock, or a transaction is already open |
| `Replay` | the look for a binding of the MID |
| `Seed` | `INSERT ... ON CONFLICT DO NOTHING` |
| `CheckPolicy` | the read of the counter, the comparison, the overflow check |
| `Update`, `Bind` | the `UPDATE` of the counter and the `INSERT` of the binding |
| `CommitOwn`, `CommitBusy` | `COMMIT`, which a reader may keep from succeeding |
| `Reserve`, `ReserveBusy` | the one statement of `reserve` |
| `CallerBegin`, `CallerCommit`, `CallerRollback` | the application |
| `Crash` | the end of a process in the middle of anything |

All ten languages run these statements in this order; what they do differently
is a *port record* with three fields, one record per language, read from its
adapter: `shared` (does the adapter keep a connection the application can use
too), `unwinds` (does a failed call run ROLLBACK whoever began the transaction)
and `missing` (the code of a counter row that is not there after the insert).
Ports with equal records behave alike, so a run needs one language of each
record.  The C# driver refuses a second transaction begun through its own class
before any SQL runs; its record describes a transaction begun by SQL text.

### MySqlStorage

`refs`, `counters` and `bindings` are the committed rows, `written` the rows the
open transaction of a connection has written, `begun` the connections on which
the application has opened a transaction.  Which locks a transaction holds
follows from where its call is (`pc`) and what it was asked (`req`), so there is
no variable for them: a call past `Replay` that found nothing keeps the gap it
looked into, a call past `Seed` keeps the counter row.

| Action | Statement |
| --- | --- |
| `CallAllocate` | the width check (`001:87-89`) and `START TRANSACTION` (`001:91`), which commits what the caller has open |
| `Replay` | `SELECT ... FOR UPDATE` of the binding (`001:94-110`); the gap is shared, inserting into it is not |
| `Seed` | `INSERT ... ON DUPLICATE KEY UPDATE` (`001:112-116`), with the foreign keys that keep it from moving a counter to another namespace |
| `Advance` | the locked read of the counter, policy and overflow check, `UPDATE` (`001:118-139`) |
| `Bind` | the `INSERT` of the binding (`001:141-150`), behind everybody else's gap locks |
| `Finish` | `COMMIT` (`001:152`), with or without the answer reaching the caller |
| `Victim` | deadlock (1213) or lock wait timeout (1205): roll back and go round the retry loop (`Retry`), or give up after `MaxAttempts` |
| `Fail` (a helper) | the `EXIT HANDLER` (`001:81-85`): roll back, signal again |
| `Reserve` | the one `INSERT` of `identifold_reserve_reference` |
| `CallerBegin`, `CallerCommit`, `CallerRollback`, `Disconnect` | the application, and a lost connection |

InnoDB is external: the module assumes what its manual describes at REPEATABLE
READ (the default of the server), and lets any transaction become a victim while
another one is open, since gaps of different keys may be one gap in the index.
That is more than a server does, so a property that holds here holds there.  A
port record tells the adapters apart: `retries` (is a deadlock recognized as
transient?) and `stepwise` (are single statements sent, amid which other calls of
the same connection may be sent?).

### IdentityService

A call of `create` is a process: `idle`, then awaiting the storage (`allocate`, or
`draw` and `reserve` for each candidate), then `answered`, then `idle` again with an `outcome`.  The storage
is an instance of `AllocationStore`; its commit (`CommitAllocation`,
`CommitReservation`) and the arrival of its answer (`Return`) are two steps,
between which the clock may move (`NewYear`), other calls run, or the answer be
lost (`Throw`).  `RefuseReservation` is a round of the candidate loop.  `Held`
is what the storage has for a MID, `returned` what callers
were given, `lost` the MIDs whose answer never came.  Each call belongs to a
service that has the storages of some strategies (`Served`).  A MID source that
repeats itself is outside the model: MIDs are never generated twice.

### ReferenceCodec and ReferenceReading

A text is a sequence of symbols.  A service builds its registry one definition at a
time (`Register`, with every error `createNamespaceRegistry` throws), issues
references (`IssueRandom`, `IssueSequential`) and stores them in the two tables;
then somebody takes one down (`TakeDown`), writes it in small letters, without
hyphens, with O, I and L for 0 and 1 (`WriteSmall`, `OmitHyphens`, `UseAlias`), and
perhaps makes one mistake (`Mistype`, `Leave`, `Add`, `Transpose`).  These last
actions are the world; the code is in the operators the properties apply to the
text that comes back:

| Operator | Code |
| --- | --- |
| `DefinitionError`, `Registered`, `ExportRegistry`, `ImportRegistry` | `registry.ts`, `exchange.ts` |
| `FormatReference`, `CreateReferenceCandidate`, `FormatSequentialReference` | the writers of `reference.ts` |
| `Candidates`, `ParseReference`, `ParseRandomReference`, `ParseSequentialReference` | the readers; `locateNamespace` takes the first candidate |
| `DetectIdentifierKind`, `ParseIdentifier`, `Inspect` | `service.ts` |
| `SqlParts`, `FoundReferences`, `FoundAllocations`, `Owners` | the lookups of the adapters |
| `Resolve` | `resolver.ts` |

The lengths of the code (4 symbols per group, prefixes of 2 to 8, widths of 4 to
18, payloads of 8, 10 or 12 symbols, 100 in all) are constants.

## Runs

| Run | Question | Distinct states | Result |
| --- | --- | --- | --- |
| `PgRace` | do three racing autocommit sessions implement the contract, with lost connections and replies? | 258,643 | yes |
| `PgPolicies` | two counters, a contested prefix, changed and invalid widths, a caller's transaction beside an autocommit session: is every reference unique, every refusal justified, every commit a batch of contract steps, and who can deadlock? | 243,052 | yes; only the caller's transaction |
| `PgMigration` | may the function be replaced under load, is every answer that was committed stored under the width it was asked for, and has every contested reference one winner? | 893,376 | yes for the data; version 001 refuses a replay with a conflict |
| `PgLive` | does every statement end when two transactions lock two counters in either order? | 12,014 | yes |
| `PgUncertainCommit` | is a lost commit reply resolved before the caller hears of it? | | **no**: see below |
| `SqMixed` | with callers' transactions on shared connections, dying processes and refused commits: does the file implement the contract, do only committed answers count, are refusals justified, is no lock left behind? | 472,888 | yes, even with a port that rolls back its caller |
| `SqUnwinds` | is a caller's transaction left to the caller? | | **no** for TypeScript and Python: see below |
| `MyRace` | under gap locks, victims, lost connections and replies, do the tables implement the contract, is a conflict reported only as the last resort, and does every call end? | 346,624 | yes |
| `MySwift` | is a reservation that was answered true stored? | | **no** for Swift: see below |
| `IdCreate` | are identities unique, stored and formatted with the right year, who can leave a reference unused, and does every call end when references run out? | 282,851 | yes; only a lost answer |
| `Codec` | is a copy read as the reference that was issued and resolved to its MID, one mistake never as another reference, and is every registry accepted again? | 218,156 | yes |
| `CodecKinds` | does the service's `parse` read such copies too? | | **no**: see below |

Bounds of the storages.  A counter with two numbers and three MIDs reaches the first
value, an increment, the last value and the overflow; two sessions reach every wait,
three a queue.  Two namespaces suffice for the (prefix, scope) constraint, which
relates two counters.  The scope is an inert part of the counter's identity, so one
scope is enough.  There is no bound on the number of calls: sessions call again as
often as they like and the state space is finite by itself.  `PgMigration` has two
sessions, a caller's transaction and one that commits each call.  One MID asks for
the counter with two widths, so that a call can wait for the lock while the other
session binds its MID under the other width: the look under the lock (`Recheck`)
compares no policy and would answer that number, but for the comparison before it
(`Lock`).  They also reserve one reference for two MIDs, so that one is told it won
and the other that it did not.  `AckedIsStored` is checked there, with all three
kinds of answer.  The SQLite run has two connections, which is every contest for one
write lock: one of TypeScript, which rolls back whatever is open, and one of Ruby,
which rolls back what it began; its requests want one counter with room for two
numbers or for one, so that a second number, an overflow and a changed width occur.
`MyRace` has two connections, two attempts per call for the five of the code (so that
both a successful retry and the end of the loop happen), counters with one and with
two numbers and a prefix both want.

Bounds of the service.  `IdCreate` has a call in a service with both storages beside
one in a service without a reference store (so draws of random references
alternate with allocations, and an allocation races another), three MIDs, two
random references of which both can be taken, two candidates per call, a counter
with one number and one with two per year, over two years.  MIDs are used up
after three creations, after which the model has nothing left to do: that is a
bound, not a property, and the run sets `CHECK_DEADLOCK FALSE`.

Bounds of the codec.  The lengths of the code are halved: groups and years of two
symbols, prefixes of two or three, payloads of four or five, widths of two and
three; a compact payload then still looks like a year and a number, as it does in
the code, and a payload of five still ends in a short group.  Twelve definitions, in
every ordered pair, have prefixes that are equal and that start one another, and
one of each kind that is refused.  Random payloads come from two byte strings, whose payloads contain
the symbols that have aliases.  Up to two references are issued, the first is
copied, and a mistake may write a digit, a hyphen, a symbol of the check alphabet
only, and one of no alphabet.  A copied reference ends the story:
`CHECK_DEADLOCK FALSE`.  `ReferenceReadingProofs` proves all eight invariants without
these bounds.

Fairness (`PgLive`).  The server runs the statement of a call that can run and
its lock queue is first come, first served, so a statement that is enabled again
and again runs (strong fairness of `Statement`); deadlock detection runs after
`deadlock_timeout` (weak fairness of `AbortDeadlock`); a finished call is
confirmed or the caller ends its own transaction (strong fairness of `Confirm`).
Nothing makes callers call.

Fairness (`MyRace`).  The server runs a call's next statement when its lock is
granted, or ends the wait (a deadlock is detected, and `innodb_lock_wait_timeout`
ends every other wait): weak fairness of `Allocation`, which includes `Victim`.
That every call ends then rests on the count of attempts.

Fairness (`IdCreate`).  The storage answers each request or throws, and the awaiting
function resumes: weak fairness of `Proceed` for each call.  Which candidates are
drawn is left open, also the unlucky choice every time.

### Findings

`PgUncertainCommit`: `contract.md:67` says "An uncertain commit is resolved
through the stored MID replay binding before success or failure is reported".
`database.ts:71-73` maps every error it does not know, a lost reply included, to
`allocation_conflict` without a second call.  The MID is bound all the same; the
caller that calls again with the same MID gets its number (`RefusalIsFinal`),
but `create` generates a new MID for each call.

`SqUnwinds`: `contract.md:15` gives the adapter "transactions opened for one
operation".  `sqlite.ts:169-176` and `sqlite.py:170-172` run ROLLBACK after every
error, also after `BEGIN IMMEDIATE` was refused because the caller had a
transaction open on the shared connection; the caller's work is gone and its
later statements commit one by one.  The other shared ports roll back only what
they began.

`MySwift`: the Swift adapter sends the statements of an allocation one by one on a
connection it shares among its callers, behind a gate only `allocate` waits for
(`MySQLStorageAdapter.swift:15-27`).  A `reserve` sent meanwhile joins the
allocation's transaction, answers true, and is rolled back with it.

`CodecKinds`: `SPEC.md:74` wants parsers to accept omitted hyphens.
`parseReference` does; the service's `parse`, `normalize` and `validate` first sort a
text by the pattern of `service.ts:336`, which wants a hyphen or a digit behind two
to eight letters and so refuses a hyphenless random reference whose prefix and
first payload letters are more.

Differences met on the way that no run is about:

* the Python MySQL adapter's `_query_one` has turned the driver's error into its own
  (`mysql.py:141-142`) when the retry loop looks at it, and the loop passes those on at
  once (`mysql.py:116-117`), so a deadlock is reported after one attempt where
  `contract.md:61` defaults to five; the port record `Python` says so, and with it
  `ConflictIsLastResort` fails;
* when another namespace holds the prefix, the SQLite adapters of Rust
  (`sqlite.rs:143`), Go (`sqlite.go:144`) and Swift (`lookupPolicy`) answer
  `allocation_conflict` and the other seven `invalid_allocation_policy`, the code
  `contract.md:75` gives to a conflicting policy; the field `missing` of the port
  records keeps the two apart.  MySQL's procedure ends in a foreign key error there,
  which every port reports as `allocation_conflict`;
* `service.ts:259-262` derives `registryRecognized` from the error code and makes it
  false for every `invalid_ref`: a registered prefix with a hyphen too many behind it
  is reported like an unknown one, where `SPEC.md:104` wants `inspect` to distinguish
  syntactic validity from registry recognition.  What `inspect` affirms is right
  (`InspectIsHonest`); what it denies may not be;
* `createNamespaceRegistry` does not check the value of `scope`.

## Proofs

`PostgresStorageProofs` proves for all values of the constants (any number of
sessions, counters, MIDs, widths and capacities, with or without caller-owned
transactions, both function versions) what TLC checks on the instances above:

* `TypeCorrect`, `GaplessHolds`, `OneMidPerReferenceHolds`,
  `AckedIsStoredHolds`, `StoreOnlyGrowsHolds`.

They rest on `Invariant == Spec => []IInv`.  `IInv` has three parts.

* `TypeInv`: types, and that a session's arguments and locals fit its statement.
* `TablesInv`: each counter is sound - its numbers are 1..last, under its own
  policy, one per MID - in the committed tables *and in the view of every open
  transaction*; no two counters visible together share prefix and scope; a
  transaction has written only counters it has locked, only forward; locks are
  exclusive; a reference has one row, committed or not.
* `ControlInv`: the row read `FOR UPDATE` is still current when it is written
  back, a MID about to be bound has no number, and what a call has answered is
  in its transaction's view.

Between `UPDATE` and `INSERT` (`pc = "bind"`) the counter of that transaction has
counted a number nobody has, so its own view is not sound as it stands.  `BoundOf` is
the counter as far as its numbers are bound, in that step the row before the
`UPDATE`, and `SoundViews` speaks of that row; `SeenIsCurrent` says that the
`INSERT`, if no constraint refuses it, closes the gap.  A lost connection or a
refused `INSERT` leaves the step with everything undone, and the committed tables
were never touched.

`Gapless` alone is not inductive: a commit publishes rows nobody else has seen,
so the invariant speaks of every transaction's view.  `TablesCommit` is the heart
of the argument: when `s` commits, another session sees `s`'s version of exactly
the counters `s` has locked, and has itself written none of those.

`PostgresAnswersProofs` goes on to what callers are told: `OneWinnerHolds`,
`RefusalIsFinalHolds` and `LocksAreExclusiveHolds`.  Its invariant `AnswersInv`
adds to `IInv` that

* a reservation that was won is a row of the open transaction, and of no other
  (`FreshWins`), so a second winner would be a second row;
* an autocommit call has, until it binds its number, written and locked at most the
  row of its own counter, at 0 (`FreshCall`): it holds nothing else while it
  waits, so it closes no cycle of waits;
* a counter that is missing after the insert was kept out by another one with its
  prefix (`SeedJustified`), and the tables justify every refusal
  (`RefusalJustified`).  They keep justifying it: full counters stay full,
  policies never change, counters are never removed (`StepGrows`).

The assumptions are those of the model: `ValidWidths \subseteq Widths`, a
positive capacity per valid width, calls of the right type, and a `NoRow` that is
neither a row of the counters nor a policy.

The refinement is proved too.  `ImplementsBatchesHolds` says for any sessions that
every commit is a batch of the contract's steps: it follows from `IInv`, because the
tables are sound before and after (`TablesInv`) and only grow (`StoreOnlyGrows`), and
`BatchIs` of `ContractLemmas` turns the two into one `Transaction`.  One thing is
missing in `IInv`: its uniqueness of references speaks of what sessions see, and there
may be no session at all (`ReferencesUnique`).  `ImplementsContractHolds` is the
stronger claim, one call per commit, and has the hypothesis it needs,
`CallerTx = {}`.  It adds `CallsInv`: a call that returns has written nothing, one
reference, or one binding together with the counter that gave its number, and
nothing else (`OneCall`).  That the number is the next one is again soundness before
and after (`NextNumber`).

`SqliteStorageProofs` proves for any number of connections and any mix of ports
`TypeCorrect`, `StoreIsSoundHolds`, `AckedIsStoredHolds`, `NothingLeftBehindHolds`,
`RefusalIsFinalHolds` and `CallersTransactionIsTheirsHolds`.  With one writer there
are no views to compare; what must be said instead is what the writer's draft has
become.  Besides types, `IInv` has

* `LockInv`: the write lock belongs to an open transaction, and a call in progress
  has it from `BEGIN IMMEDIATE` to its end;
* `DraftInv`: for each statement, the draft relative to the file: equal to it until
  the counter is inserted, then the file with that counter (`Seeded`), then ready for
  the number (`Ready`).  Between `UPDATE` and `INSERT` the draft is *not* sound: the
  counter has counted a number nobody has.  It is what `Ready` tables become when
  the counter moves on (`Before`), which is enough to know that the binding closes
  the gap.  At `COMMIT` it is sound and has lost nothing the file has;
* `AnswersInv`: an answer is in the draft of its transaction until it is in the file;
* `RefusalIsFinal` itself, inductive because the file only grows.

`CallersTransactionIsTheirsHolds` assumes that no port rolls back whatever is open:
it is the other half of the run `SqUnwinds`, where one does.

`ImplementsContractHolds` needs no hypothesis on the ports.  A caller's commit is a
batch, since the draft is sound and has lost nothing.  The adapter's own commit must
be one allocation, which soundness does not say: `ExactInv` does.  At `COMMIT` the
draft is the file, for a replay, or the file with this call's binding and its counter
one further.

`MySqlStorageProofs` proves for any number of connections and any mix of ports
`TypeCorrect`, `StoreIsSoundHolds` and `RefusalIsFinalHolds`.  A step of a connection
is one of seven kinds (`Moves`: it ends, inserts, looks, locks, counts, binds or finishes),
and each part of `IInv` is shown for the kinds instead of for every action again.

* `LocksInv`: no two calls hold the same counter or the same prefix and scope, and
  a call that has bound a MID has nobody beside it who looked for that MID.  The
  locks are no variables: both facts follow from where the calls are.
* `CallFits`: relative to the committed tables, a call that has its counter has
  written exactly that row, at 0 if it is new; then at the next number; then with
  the binding of that number.  So nothing a call has written needs a soundness of its
  own, as it does in PostgreSQL, and the counter a call reads is still the committed
  one (`TablesInv`).
* `RefsInv`: references are unique, committed or not.

From these `Seed` never moves a counter to another namespace (a committed counter has
a number, hence a binding, hence the foreign key holds), and the `INSERT` of a binding
never meets a unique key (`NothingViolated`).  Together with `ConflictInv` this is
`ConflictIsLastResortHolds`, which assumes that every port retries a deadlock: Python's
does not, and reports the first one as a conflict.  `AckedIsStoredHolds`,
`WonIsNeverUndoneHolds` and `ImplementsContractHolds` assume `WholeCalls`, that no
port sends single statements: Swift's do, and then a reservation may be answered
inside the transaction of somebody's allocation, be rolled back with it (`MySwift`) or
be committed with it, which is two steps of the contract in one.

`ContractLemmas` holds what the three refinements share.  `OwnerIn`, `PolicyIn` and
`IssuedIn` read tables of references, counters and bindings as a contract's store;
`ReserveIs` and `AllocateIs` say that inserting a free reference, or the next binding
with its counter, is the contract's `Reserve` or `Allocate`; `BatchIs` that sound
tables which only grew are a `Transaction`.  The reading of a log is a function defined
with `CHOOSE`, so `NumberFound` comes first: the choice is the one binding there is.

`IdentityServiceProofs` proves for any number of calls, namespaces, candidates and
MIDs the five safety properties of the run `IdCreate`.  The properties speak of
returned identities; the invariant must also say what the storage holds for MIDs
still under way: nothing until the storage has answered, then exactly what the call
is about to return (`CallFits`), and nothing for a MID not generated yet
(`StorageInv`).  A MID belongs to one call, was never returned and never lost while
the call runs, so a commit changes what one MID holds (`HeldReserve`,
`HeldAllocate`).  `NamesAssumption` says that numbers are no random references: their
texts start with the prefixes of different namespaces, which is what
`ReferenceReadingProofs` proves of a registry.

`ReferenceReadingProofs` proves the eight invariants of the run `Codec` for every set of
definitions, all lengths of prefixes, payloads, widths, scopes and groups, any number
of references and rows, and copies rewritten any number of times: `TypeCorrect`,
`OneReading`, `EveryExportIsAccepted`, `EveryCopyIsRead`, `NoSlipMisreads`,
`EveryCopyResolves`, `NormalizedForever` and `InspectNeverLies`.  The invariants speak of
one text, so none of them is inductive.  `IInv` has three parts.

* `RegistryInv`: each definition is one the loop registers (`Accepted`), no two have
  one name, and no prefix starts another's.  This is `WellBuilt`, all the codec asks of
  a registry.
* `StorageInv`: what was issued was written by the codec for a definition (`IsWritten`)
  and has its row in the table of its strategy (`Stored`); for a number, the row holds
  what the lookup cuts out of the text.  References are unique, numbers are unique in
  their scope, and no namespace has rows in both tables, so the lookup finds one row
  (`OneOwner`).
* `CopyInv`: the copy is a reading (`Reading`) of the payload and the check symbol that
  were issued, until there is a mistake in it; then it is that or not read at all
  (`ReadsAs`).

`Reading` says of a text what the parser tests: which prefix it starts with, how many
symbols follow, where its hyphens are, what its payload is and that the check symbol
fits.  `ReferenceCodecProofs` connects it with the code, without state.

* Loops.  The writers and readers go through texts symbol by symbol.  The model has one
  operator for that, `Loop`, a recursive function on the places of the text;
  `LoopSteps` says what it does on a text that is one symbol longer, and
  `SequenceInduction`, which rests on least numbers, carries this to every text.  The
  induction speaks of sets of sequences, so it needs no operator as a parameter.
* `ParseIsReading`, `ReadingIsParsed`: what parses has a reading, and what has one parses
  as it.  `WrittenIsReading`: what is written has the reading it was written for.
* Rewriting: `SmallIsRead`, `HyphenlessIsRead` and `ReplacedIsRead` (symbols exchanged for
  others of the same alias) keep the reading.
* Mistakes: `TypoIsNoticed` says that one wrong symbol, or two neighbours swapped, changes
  the check symbol at every length and in both radices, because 32 and 10 have inverses
  modulo 37.  `SlipNoticedInText` carries it from payloads to texts.  `Bare` is what is
  left of a text in capitals and without hyphens; a missing or an additional symbol
  makes it too short or too long, unless it is a hyphen, and then nothing has changed;
  any other mistake changes one symbol of it, or swaps two (`BareEdit`), and the check
  symbol, being one of them or not, does not fit any more (`EditNoticed`).
* `NormalizedIsRead`, `CheckCorrected` and `InspectedHonestly` are about any text at all.

The assumptions are those of the code's constants: lengths are positive
(`RegistryAssumption`, `LengthsAssumption`), what is written is not too long to be read
(`MaxLengthAssumption`; at most 34 of 100 symbols in the code), prefixes are written in
the symbols of texts (`DefinitionsAssumption`), and bytes are bytes
(`InputsAssumption`).

Only model-checked is liveness: `EveryStatementEnds` of PostgreSQL, and
`EveryCallEnds` of MySQL and of the service.

## Not modelled

* The PostgreSQL adapters of the other languages: they call the same two functions
  and map the same SQLSTATEs as `database.ts`.
* MIDs and PIDs: bit layout and text forms of a UUIDv7.  They are atoms here; the
  service's operators only tell them from references.
* Legacy aliases: classification of texts, and a table the application writes.
* The boundary helpers and the conformance runner: wording, glue and test code.
* The codecs of the other languages: ports of `reference.ts`, which the repository's
  vectors compare.

In the storages, texts are atoms.  The statements of PostgreSQL are taken to
behave as its documentation describes under READ COMMITTED, those of MySQL
under REPEATABLE READ; other isolation levels, in which a caller's own
transaction may run, are left out.
