--------------------------- MODULE ReferenceReading ---------------------------
(***************************************************************************)
(* The life of a reference outside the program: a service builds its       *)
(* registry, issues references and stores them; somebody copies one down,  *)
(* in small letters, without hyphens, with O for 0, or with one mistake;   *)
(* and the text comes back to be parsed, inspected and resolved.           *)
(***************************************************************************)
EXTENDS ReferenceCodec, FiniteSets

CONSTANTS
  Definitions,    \* what callers may pass to createNamespaceRegistry
  MaxDefinitions, \* bound of a registry
  ByteStrings,    \* what the random source may return
  Numbers,        \* the numbers the allocator may be at
  Years,          \* scopes
  MaxIssued,      \* bound of the references issued
  Keyboard,       \* the symbols of a mistake
  Nothing

ASSUME DefinitionsAssumption ==
  \A d \in Definitions : HasReference(d) => d.prefix \in Seq(ReferenceSymbols)
ASSUME InputsAssumption ==
  /\ ByteStrings \subseteq Seq(0..255)
  /\ Numbers \subseteq Nat
  /\ Years \subseteq Seq(ReferenceSymbols)

VARIABLES
  definitions, \* the registry, as far as it is built
  outcome,     \* "building", "created" or the error createNamespaceRegistry threw
  references,  \* rows of identifold_references
  allocations, \* rows of identifold_sequence_allocations
  issued,      \* the identities returned
  original,    \* the one whose reference is copied
  text,        \* the copy
  slips        \* mistakes made, at most one

registry == <<definitions, outcome>>
storage == <<references, allocations, issued>>
copy == <<original, text, slips>>
vars == <<definitions, outcome, references, allocations, issued, original, text, slips>>

-----------------------------------------------------------------------------
(* The registry *)

Register(d) ==
  LET code == DefinitionError(definitions, d) IN
  /\ outcome = "building" /\ Len(definitions) < MaxDefinitions
  /\ IF code = "ok"
     THEN definitions' = Append(definitions, Registered(d)) /\ UNCHANGED outcome
     ELSE definitions' = <<>> /\ outcome' = code
  /\ UNCHANGED <<storage, copy>>

Create ==
  /\ outcome = "building"
  /\ outcome' = "created"
  /\ UNCHANGED <<definitions, storage, copy>>

-----------------------------------------------------------------------------
(* The issuing service.  Every create has a MID of its own. *)

NewMid == Cardinality(issued) + 1

Issue(d, value) ==
  /\ outcome = "created" /\ original = Nothing
  /\ Cardinality(issued) < MaxIssued
  /\ issued' = issued \cup {[ns |-> d.public, mid |-> NewMid, value |-> value]}
  /\ UNCHANGED <<registry, copy>>

\* A candidate is drawn and reserved; a reference that is taken is not issued.
IssueRandom(d, bytes) ==
  LET value == CreateReferenceCandidate(d, bytes) IN
  /\ d.strategy = "random" /\ Len(bytes) = d.payloadLength
  /\ \A row \in references : row.ref # value
  /\ references' = references \cup {[ref |-> value, ns |-> d.public, mid |-> NewMid]}
  /\ Issue(d, value)
  /\ UNCHANGED allocations

\* The allocator binds a number that is free in its scope; it may have given
\* any others to MIDs that are of no interest here.
IssueSequential(d, n, scope) ==
  LET formatted == FormatSequentialReference(d, n, scope) IN
  /\ d.strategy = "sequence" /\ (scope = <<>> <=> d.scope # "calendar-year")
  /\ \A row \in allocations : ~(row.ns = d.public /\ row.scope = scope /\ row.sequence = n)
  /\ Succeeds(formatted)
  /\ allocations' = allocations \cup
       {[ns |-> d.public, prefix |-> d.prefix, scope |-> scope, sequence |-> n,
         mid |-> NewMid]}
  /\ Issue(d, formatted.value)
  /\ UNCHANGED references

-----------------------------------------------------------------------------
(* The copy *)

\* Which one is copied makes no difference: it is the first, whatever else has
\* been issued.
TakeDown(identity) ==
  /\ original = Nothing
  /\ identity.mid = 1
  /\ original' = identity
  /\ text' = identity.value
  /\ UNCHANGED <<registry, storage, slips>>

Rewrite(new) ==
  /\ original # Nothing /\ slips = 0
  /\ text' = new
  /\ UNCHANGED <<registry, storage, original, slips>>

Definition == CHOOSE d \in ToSet(definitions) : d.public = original.ns

OmitHyphens == Rewrite(WithoutHyphens(text))

WriteSmall == Rewrite(LowerCase(text))

\* Another symbol of the same look, throughout the payload of a random one.
Resembles == [O |-> "0", I |-> "1", L |-> "1"]
LookAlike(symbol, alias) == IF symbol = Resembles[alias] THEN alias ELSE symbol
UseAlias(alias) ==
  LET first == Len(Definition.prefix) + 1 IN
  /\ original # Nothing /\ Definition.strategy = "random"
  /\ Rewrite([i \in DOMAIN text |->
                IF i \in first..Len(text) - 1 THEN LookAlike(text[i], alias) ELSE text[i]])

\* The last change is one mistake behind the prefix.
Slip(new) ==
  /\ text' = new
  /\ slips' = 1
  /\ UNCHANGED <<registry, storage, original>>

Behind(i) == original # Nothing /\ slips = 0 /\ i > Len(Definition.prefix)

Mistype(i, c) == Behind(i) /\ Slip([text EXCEPT ![i] = c])
Leave(i) == Behind(i) /\ Slip(RemoveAt(text, i))
Add(i, c) == Behind(i) /\ Slip(InsertAt(text, i, c))
Transpose(i) ==
  /\ Behind(i) /\ i < Len(text)
  /\ Slip([text EXCEPT ![i] = text[i + 1], ![i + 1] = text[i]])

-----------------------------------------------------------------------------
Init ==
  /\ definitions = <<>> /\ outcome = "building"
  /\ references = {} /\ allocations = {} /\ issued = {}
  /\ original = Nothing /\ text = <<>> /\ slips = 0

Building == Create \/ \E d \in Definitions : Register(d)

Issuing ==
  \E d \in ToSet(definitions) :
    \/ \E bytes \in ByteStrings : IssueRandom(d, bytes)
    \/ \E n \in Numbers, scope \in Years \cup {<<>>} : IssueSequential(d, n, scope)

Copying ==
  \/ \E identity \in issued : TakeDown(identity)
  \/ OmitHyphens \/ WriteSmall
  \/ \E alias \in DOMAIN Resembles : UseAlias(alias)
  \/ \E i \in 1..Len(text) :
       \/ Leave(i) \/ Transpose(i)
       \/ \E c \in Keyboard : Mistype(i, c) \/ Add(i, c)

Next == Building \/ Issuing \/ Copying

Spec == Init /\ [][Next]_vars

-----------------------------------------------------------------------------
(* The lookup of sqlite.ts, mysql.ts and migration 004, and resolver.ts. *)

FoundReferences(value, ns) == {row \in references : row.ref = value /\ row.ns = ns}

\* Mutant: the scope is not part of the key.
FoundInAnyScope(value, ns) ==
  {row \in allocations :
     /\ row.ns = ns
     /\ \E parts \in SqlParts(value) :
          row.prefix = parts.prefix /\ row.sequence = parts.sequence}

FoundAllocations(value, ns) ==
  {row \in allocations :
     /\ row.ns = ns
     /\ \E parts \in SqlParts(value) :
          /\ row.prefix = parts.prefix /\ row.scope = parts.scope
          /\ row.sequence = parts.sequence}

\* The second table is searched for what the first has not.
Owners(value, ns) ==
  LET random == FoundReferences(value, ns)
      rows == IF random # {} THEN random ELSE FoundAllocations(value, ns)
  IN {[ns |-> row.ns, mid |-> row.mid] : row \in rows}

\* resolve: the adapters and the resolver want exactly one owner, in the
\* namespace that was asked for.
Resolve(given) ==
  LET parsed == ParseReference(given, definitions) IN
  IF ~Succeeds(parsed) THEN {} ELSE Owners(parsed.value, parsed.namespace)

-----------------------------------------------------------------------------
(* Properties *)

\* Only complete and valid definitions are in a registry.
TypeOK ==
  /\ outcome \in {"building", "created", "invalid_public_prefix",
                  "duplicate_public_prefix", "invalid_ref_prefix", "invalid_ref_length",
                  "invalid_namespace_definition", "duplicate_ref_prefix",
                  "ambiguous_ref_prefix"}
  /\ \A d \in ToSet(definitions) :
       /\ d.public \in PublicPrefixes
       /\ HasReference(d) => Len(d.prefix) \in PrefixLengths
       /\ d.strategy = "random" => d.payloadLength = ProfileLengths[d.profile]
       /\ d.strategy = "sequence" => d.width \in ValidWidths
  /\ text \in Seq(ReferenceSymbols \cup Keyboard)
  /\ slips \in 0..1

\* "prefix-free so that hyphenless input has exactly one possible namespace"
\* (SPEC.md:84): no text starts with the prefixes of two namespaces, whatever
\* the order they were registered in.
ReadingIsUnique ==
  \A i, j \in DOMAIN definitions :
    (/\ HasReference(definitions[i]) /\ IsPrefix(definitions[i].prefix, UpperCase(text))
     /\ HasReference(definitions[j]) /\ IsPrefix(definitions[j].prefix, UpperCase(text)))
      => i = j

\* A registry that was accepted is accepted again from its export, in every
\* order of its definitions, and comes out the same (exchange.ts:12-53): what
\* one service exports no other one refuses.
RegistryIsReproducible ==
  (outcome = "created" /\ issued = {}) =>
    LET exported == ExportRegistry(definitions) IN
    /\ ImportRegistry(exported).definitions = definitions
    /\ \A list \in SetToSeqs(ToSet(exported)) :
         LET made == ImportRegistry(list) IN
         made.code = "ok" /\ ToSet(made.definitions) = ToSet(definitions)

\* However the reference was copied -- in small letters, without hyphens, with
\* look-alikes in a random payload -- the copy is read as the reference that
\* was issued (SPEC.md:74).
CopiesAreRead ==
  (original # Nothing /\ slips = 0) =>
    ParseReference(text, definitions)
      = [code |-> "ok", namespace |-> original.ns, value |-> original.value]

\* One mistake behind the prefix -- a wrong, missing or additional symbol, or
\* two neighbours swapped, the check symbol included, in a text with or without
\* hyphens -- is refused or read as the reference that was meant.
OneSlipNeverMisreads ==
  original # Nothing =>
    LET parsed == ParseReference(text, definitions) IN
    Succeeds(parsed) =>
      parsed.namespace = original.ns /\ parsed.value = original.value

\* What is read is answered with the MID it was issued with and no other,
\* although two tables are searched and other references of the same number,
\* scope or namespace are in them; and every faithful copy is answered.
ResolvesToOwner ==
  original # Nothing =>
    LET found == Resolve(text) IN
    /\ found \subseteq {[ns |-> original.ns, mid |-> original.mid]}
    /\ slips = 0 => found # {}

\* The normalized form of whatever is read is read as itself, by the parser and
\* by the service, which sorts texts by their looks before it parses them.
NormalizedIsStable ==
  LET parsed == ParseReference(text, definitions) IN
  Succeeds(parsed) =>
    /\ ParseReference(parsed.value, definitions) = parsed
    /\ ParseIdentifier(parsed.value, definitions) = parsed

\* What inspect says of a text it refuses is so: a recognized registry means
\* that a registered prefix starts the text, and a wrong checksum that another
\* check symbol would make it valid (SPEC.md:104).
InspectIsHonest ==
  LET seen == Inspect(text, definitions)
      corrected(c) == Append(Front(text), c)
  IN /\ seen.registryRecognized =>
          \E d \in ToSet(definitions) :
            HasReference(d) /\ IsPrefix(d.prefix, UpperCase(text))
     /\ FALSE \in seen.checksumValid =>
          \E c \in CheckSymbols : Succeeds(ParseReference(corrected(c), definitions))

\* "Parsers MUST accept lowercase input, omitted hyphens, and the Crockford data
\* aliases" (SPEC.md:74), the service's parse included.
ServiceReadsCopies ==
  (original # Nothing /\ slips = 0) => Succeeds(ParseIdentifier(text, definitions))
=============================================================================
