------------------------ MODULE ReferenceReadingProofs ------------------------
(***************************************************************************)
(* The invariants of ReferenceReading, for every set of definitions, all   *)
(* lengths of prefixes, payloads, scopes and groups, any number of         *)
(* references and any copies of them.  The inductive invariant IInv has    *)
(* three parts: the registry is one the codec can be trusted with          *)
(* (WellBuilt); what was issued was written by the codec and has one row;  *)
(* the copy is a reading of it, or the result of one mistake in one.       *)
(***************************************************************************)
EXTENDS ReferenceReading, ReferenceCodecProofs, FiniteSetTheorems, FunctionTheorems

-----------------------------------------------------------------------------
(* The registry *)

\* What one round of the loop registers, whatever was registered before.
Accepted ==
  {Registered(d) : d \in {e \in Definitions : e.public \in PublicPrefixes
                                              /\ ReferenceError(e) = "ok"}}

\* No two definitions have one name, and no prefix starts another.
RegistryInv ==
  /\ definitions \in Seq(Accepted)
  /\ \A i, j \in DOMAIN definitions :
       definitions[i].public = definitions[j].public => i = j
  /\ \A i, j \in DOMAIN definitions :
       (/\ HasReference(definitions[i]) /\ HasReference(definitions[j])
        /\ IsPrefix(definitions[i].prefix, definitions[j].prefix)) => i = j

\* A definition with everything its strategy needs.
Complete(d) ==
  /\ d.public \in PublicPrefixes /\ d.strategy \in {"none", "random", "sequence"}
  /\ d.strategy = "random" => d.profile \in DOMAIN ProfileLengths
                              /\ d.payloadLength = ProfileLengths[d.profile]
  /\ d.strategy = "sequence" => d.width \in ValidWidths
  /\ HasReference(d) => ReferenceDefinition(d)

\* What is registered keeps its name, its strategy and its prefix and has the
\* rest filled in.
LEMMA RegisteredIsComplete ==
  ASSUME NEW d \in Definitions, d.public \in PublicPrefixes, ReferenceError(d) = "ok"
  PROVE  /\ Complete(Registered(d))
         /\ Registered(d).public = d.public /\ Registered(d).strategy = d.strategy
         /\ HasReference(d) => Registered(d).prefix = d.prefix
<1>1. d.strategy \in {"none", "random", "sequence"}
  BY DEF ReferenceError
<1>2. HasReference(d) =>
        d.prefix \in Seq(Letters) /\ Len(d.prefix) \in PrefixLengths
  <2>1. HasReference(d) =>
          ToSet(d.prefix) \subseteq Letters /\ Len(d.prefix) \in PrefixLengths
    BY <1>1 DEF ReferenceError, HasReference
  <2>2. HasReference(d) => d.prefix \in Seq(ReferenceSymbols)
    BY DefinitionsAssumption
  <2> QED BY <2>1, <2>2, SetOfSymbols
<1>3. CASE d.strategy = "none"
  BY <1>3 DEF Registered, HasReference, Complete
<1>4. CASE d.strategy = "random"
  <2>1. PICK profile \in DOMAIN ProfileLengths :
          Registered(d) = [public |-> d.public, strategy |-> "random", prefix |-> d.prefix,
                           profile |-> profile, payloadLength |-> ProfileLengths[profile]]
    <3>1. d.profile \in DOMAIN ProfileLengths \cup {Unset}
      BY <1>4 DEF ReferenceError
    <3> QED BY <1>4, <3>1, RegistryAssumption DEF Registered
  <2> QED BY <1>2, <1>4, <2>1 DEF HasReference, Complete, ReferenceDefinition
<1>5. CASE d.strategy = "sequence"
  <2>1. d.width \in ValidWidths
    BY <1>5 DEF ReferenceError
  <2>2. PICK scope :
          Registered(d) = [public |-> d.public, strategy |-> "sequence", prefix |-> d.prefix,
                           scope |-> scope, width |-> d.width]
    BY <1>5 DEF Registered
  <2> QED BY <1>2, <1>5, <2>1, <2>2 DEF HasReference, Complete, ReferenceDefinition
<1> QED BY <1>1, <1>3, <1>4, <1>5

\* So is every registered definition.
LEMMA AcceptedIsComplete ==
  ASSUME NEW d \in Accepted
  PROVE  Complete(d)
  BY RegisteredIsComplete DEF Accepted

\* An accepted registry is one the codec can be trusted with.
LEMMA RegistryIsWellBuilt ==
  ASSUME RegistryInv
  PROVE  /\ WellBuilt(definitions)
         /\ \A i \in DOMAIN definitions : Complete(definitions[i])
<1>1. DOMAIN definitions \subseteq Nat /\ \A i \in DOMAIN definitions : definitions[i] \in Accepted
  BY DEF RegistryInv
<1>2. \A i \in DOMAIN definitions : Complete(definitions[i])
  BY <1>1, AcceptedIsComplete
<1> QED BY <1>1, <1>2 DEF RegistryInv, WellBuilt, Complete

\* One round of the loop.
LEMMA RegisterKeepsRegistry ==
  ASSUME RegistryInv, NEW d \in Definitions, Register(d)
  PROVE  RegistryInv'
<1>1. CASE definitions' = <<>>
  BY <1>1 DEF RegistryInv
<1>2. CASE DefinitionError(definitions, d) = "ok"
  <2> DEFINE new == Registered(d)
  <2>1. d.public \in PublicPrefixes /\ ReferenceError(d) = "ok"
        /\ \A e \in ToSet(definitions) : e.public # d.public
    BY <1>2 DEF DefinitionError
  <2>2. \A e \in ToSet(definitions) : (HasReference(d) /\ HasReference(e)) =>
          ~IsPrefix(e.prefix, d.prefix) /\ ~IsPrefix(d.prefix, e.prefix)
    BY <1>2 DEF DefinitionError
  <2>3. new \in Accepted /\ new.public = d.public
        /\ (HasReference(new) => HasReference(d) /\ new.prefix = d.prefix)
    BY <2>1, RegisteredIsComplete DEF Accepted, HasReference
  <2>4. definitions' = Append(definitions, new)
    BY <1>2 DEF Register
  <2> HIDE DEF new
  <2>5. PICK n \in Nat : n = Len(definitions) /\ DOMAIN definitions = 1..n
    BY DEF RegistryInv
  <2>6. /\ definitions' \in Seq(Accepted) /\ DOMAIN definitions' = 1..n + 1
        /\ definitions'[n + 1] = new
        /\ \A i \in 1..n : definitions'[i] = definitions[i]
    BY <2>3, <2>4, <2>5 DEF RegistryInv
  <2>7. \A i \in 1..n : definitions[i] \in ToSet(definitions)
    BY <2>5 DEF ToSet
  <2>8. \A i \in 1..n :
          /\ definitions[i].public # new.public
          /\ (HasReference(new) /\ HasReference(definitions[i])) =>
               /\ ~IsPrefix(definitions[i].prefix, new.prefix)
               /\ ~IsPrefix(new.prefix, definitions[i].prefix)
    BY <2>1, <2>2, <2>3, <2>7
  <2>9. ASSUME NEW i \in 1..n + 1, NEW j \in 1..n + 1
        PROVE  /\ definitions'[i].public = definitions'[j].public => i = j
               /\ (/\ HasReference(definitions'[i]) /\ HasReference(definitions'[j])
                   /\ IsPrefix(definitions'[i].prefix, definitions'[j].prefix)) => i = j
    <3>1. CASE i \in 1..n /\ j \in 1..n
      BY <2>5, <2>6, <3>1 DEF RegistryInv
    <3>2. CASE i = n + 1 /\ j \in 1..n
      BY <2>6, <2>8, <3>2
    <3>3. CASE i \in 1..n /\ j = n + 1
      BY <2>6, <2>8, <3>3
    <3>4. CASE i = n + 1 /\ j = n + 1
      BY <3>4
    <3>5. (i \in 1..n \/ i = n + 1) /\ (j \in 1..n \/ j = n + 1)
      OBVIOUS
    <3> QED BY <3>1, <3>2, <3>3, <3>4, <3>5
  <2> QED BY <2>6, <2>9 DEF RegistryInv
<1> QED BY <1>1, <1>2 DEF Register

-----------------------------------------------------------------------------
(* What is issued *)

\* What was issued has its row, in the table of its strategy; there its number
\* and its scope are what the lookup cuts out of it.
Stored(x, d, randoms, numbers) ==
  /\ d.strategy = "random" =>
       \E row \in randoms : row.ref = x.value /\ row.ns = x.ns /\ row.mid = x.mid
  /\ d.strategy = "sequence" =>
       \E row \in numbers :
         /\ row.ns = x.ns /\ row.mid = x.mid
         /\ SqlParts(x.value) = {[prefix |-> row.prefix, scope |-> row.scope,
                                  sequence |-> row.sequence]}
IssuedFor(x, d, randoms, numbers) ==
  /\ HasReference(d) /\ x.ns = d.public
  /\ IsWritten(d, x.value) /\ Stored(x, d, randoms, numbers)

\* Nothing is issued before the registry is created, and the tables keep their keys.
StorageInv ==
  /\ outcome # "created" => references = {} /\ allocations = {} /\ issued = {}
  /\ \A x \in issued :
       \E i \in DOMAIN definitions : IssuedFor(x, definitions[i], references, allocations)
  /\ \A row \in references :
       \E i \in DOMAIN definitions :
         definitions[i].strategy = "random" /\ row.ns = definitions[i].public
  /\ \A r, s \in references : r.ref = s.ref => r = s
  /\ \A r, s \in allocations :
       (r.ns = s.ns /\ r.scope = s.scope /\ r.sequence = s.sequence) => r = s

\* A row that was stored stays.
LEMMA IssuedStays ==
  ASSUME NEW x, NEW d, NEW randoms, NEW numbers, IssuedFor(x, d, randoms, numbers),
         NEW randoms2, NEW numbers2, randoms \subseteq randoms2, numbers \subseteq numbers2
  PROVE  IssuedFor(x, d, randoms2, numbers2)
  BY DEF IssuedFor, Stored

\* A reserved candidate.
LEMMA RandomKeepsStorage ==
  ASSUME RegistryInv, StorageInv, NEW i \in DOMAIN definitions, NEW bytes \in ByteStrings,
         IssueRandom(definitions[i], bytes)
  PROVE  StorageInv'
<1> DEFINE d == definitions[i]
           value == CreateReferenceCandidate(d, bytes)
<1>1. PICK mid : mid = NewMid
  OBVIOUS
<1>2. /\ d.strategy = "random" /\ Len(bytes) = d.payloadLength
      /\ \A row \in references : row.ref # value
      /\ references' = references \cup {[ref |-> value, ns |-> d.public, mid |-> mid]}
      /\ outcome = "created"
      /\ issued' = issued \cup {[ns |-> d.public, mid |-> mid, value |-> value]}
      /\ allocations' = allocations /\ definitions' = definitions /\ outcome' = outcome
  BY <1>1 DEF IssueRandom, Issue, registry
<1>3. IsWritten(d, value)
  <2>1. ReferenceDefinition(d)
    BY <1>2, RegistryIsWellBuilt DEF HasReference, Complete
  <2>2. bytes \in Seq(0..255)
    BY InputsAssumption
  <2> QED BY <1>2, <2>1, <2>2, CandidateIsWritten
<1> HIDE DEF value
<1>4. ASSUME NEW x \in issued'
      PROVE  \E j \in DOMAIN definitions' : IssuedFor(x, definitions'[j], references', allocations')
  <2>1. CASE x \in issued
    <3>1. PICK j \in DOMAIN definitions :
            IssuedFor(x, definitions[j], references, allocations)
      BY <2>1 DEF StorageInv
    <3>2. references \subseteq references' /\ allocations \subseteq allocations'
      BY <1>2
    <3>3. IssuedFor(x, definitions[j], references', allocations')
      BY <3>1, <3>2, IssuedStays
    <3> QED BY <1>2, <3>3
  <2>2. CASE x = [ns |-> d.public, mid |-> mid, value |-> value]
    <3>1. Stored(x, d, references', allocations')
      <4>1. PICK row \in references' : row = [ref |-> value, ns |-> d.public, mid |-> mid]
        BY <1>2
      <4>2. x.value = row.ref /\ x.ns = row.ns /\ x.mid = row.mid
        BY <2>2, <4>1
      <4>3. d.strategy # "sequence"
        BY <1>2
      <4> HIDE DEF d
      <4> QED BY <4>2, <4>3 DEF Stored
    <3>2. IssuedFor(x, d, references', allocations')
      BY <1>2, <1>3, <2>2, <3>1 DEF IssuedFor, HasReference
    <3> QED BY <1>2, <3>2
  <2> QED BY <1>2, <2>1, <2>2
<1>5. \A row \in references' :
        \E j \in DOMAIN definitions' :
          definitions'[j].strategy = "random" /\ row.ns = definitions'[j].public
  BY <1>2 DEF StorageInv
<1>6. \A r, s \in references' : r.ref = s.ref => r = s
  BY <1>2 DEF StorageInv
<1> QED BY <1>2, <1>4, <1>5, <1>6 DEF StorageInv

\* An allocated number.
LEMMA SequentialKeepsStorage ==
  ASSUME RegistryInv, StorageInv, NEW i \in DOMAIN definitions, NEW n \in Numbers,
         NEW scope \in Years \cup {<<>>}, IssueSequential(definitions[i], n, scope)
  PROVE  StorageInv'
<1> DEFINE d == definitions[i]
           formatted == FormatSequentialReference(d, n, scope)
           value == formatted.value
<1>1. PICK mid : mid = NewMid
  OBVIOUS
<1>2. /\ d.strategy = "sequence"
      /\ \A row \in allocations : ~(row.ns = d.public /\ row.scope = scope /\ row.sequence = n)
      /\ Succeeds(formatted)
      /\ allocations' = allocations \cup
           {[ns |-> d.public, prefix |-> d.prefix, scope |-> scope, sequence |-> n,
             mid |-> mid]}
      /\ outcome = "created"
      /\ issued' = issued \cup {[ns |-> d.public, mid |-> mid, value |-> value]}
      /\ references' = references /\ definitions' = definitions /\ outcome' = outcome
  BY <1>1 DEF IssueSequential, Issue, registry
<1>3. /\ IsWritten(d, value)
      /\ SqlParts(value) = {[prefix |-> d.prefix, scope |-> scope, sequence |-> n]}
  <2>1. ReferenceDefinition(d) /\ IsSequence(d)
    BY <1>2, RegistryIsWellBuilt DEF HasReference, Complete, IsSequence
  <2>2. n \in Nat /\ scope \in Seq(ReferenceSymbols)
    <3>1. <<>> \in Seq(ReferenceSymbols)
      OBVIOUS
    <3> QED BY <3>1, InputsAssumption
  <2> QED BY <1>2, <2>1, <2>2, SequentialIsWritten
<1> HIDE DEF formatted, value
<1>4. ASSUME NEW x \in issued'
      PROVE  \E j \in DOMAIN definitions' : IssuedFor(x, definitions'[j], references', allocations')
  <2>1. CASE x \in issued
    <3>1. PICK j \in DOMAIN definitions :
            IssuedFor(x, definitions[j], references, allocations)
      BY <2>1 DEF StorageInv
    <3>2. references \subseteq references' /\ allocations \subseteq allocations'
      BY <1>2
    <3>3. IssuedFor(x, definitions[j], references', allocations')
      BY <3>1, <3>2, IssuedStays
    <3> QED BY <1>2, <3>3
  <2>2. CASE x = [ns |-> d.public, mid |-> mid, value |-> value]
    <3>1. Stored(x, d, references', allocations')
      <4>1. PICK row \in allocations' :
              row = [ns |-> d.public, prefix |-> d.prefix, scope |-> scope,
                     sequence |-> n, mid |-> mid]
        BY <1>2
      <4>2. /\ x.ns = row.ns /\ x.mid = row.mid /\ x.value = value
            /\ row.prefix = d.prefix /\ row.scope = scope /\ row.sequence = n
        BY <2>2, <4>1
      <4>3. d.strategy # "random"
        BY <1>2
      <4> HIDE DEF d
      <4> QED BY <1>3, <4>2, <4>3 DEF Stored
    <3>2. IssuedFor(x, d, references', allocations')
      BY <1>2, <1>3, <2>2, <3>1 DEF IssuedFor, HasReference
    <3> QED BY <1>2, <3>2
  <2> QED BY <1>2, <2>1, <2>2
<1>5. \A r, s \in allocations' :
        (r.ns = s.ns /\ r.scope = s.scope /\ r.sequence = s.sequence) => r = s
  BY <1>2 DEF StorageInv
<1> QED BY <1>2, <1>4, <1>5 DEF StorageInv

-----------------------------------------------------------------------------
(* The copy *)

\* What has been copied without a mistake is a reading of the payload p and the
\* check symbol c in the definition i; with one, it is that or no reading at all.
ReadsAs(given, mistakes, defs, i, p, c) ==
  /\ mistakes = 0 => Reading(given, defs, i, p, c)
  /\ Succeeds(ParseReference(given, defs)) => ParseReference(given, defs) = Success(defs[i], p, c)

CopyInv ==
  /\ text \in Seq(ReferenceSymbols \cup Keyboard) /\ slips \in 0..1
  /\ original # Nothing =>
       /\ original \in issued
       /\ \E i \in DOMAIN definitions : \E p, c :
            /\ HasReference(definitions[i]) /\ original.ns = definitions[i].public
            /\ original.value = TextOf(definitions[i], p, c)
            /\ ReadsAs(text, slips, definitions, i, p, c)

\* A reading is a copy without a mistake.
LEMMA ReadingReadsAs ==
  ASSUME NEW defs, WellBuilt(defs), NEW given, NEW i, NEW p, NEW c,
         Reading(given, defs, i, p, c)
  PROVE  ReadsAs(given, 0, defs, i, p, c) /\ given \in Seq(ReferenceSymbols \cup Keyboard)
<1>1. ParseReference(given, defs) = Success(defs[i], p, c)
  BY ReadingIsParsed
<1>2. given \in Seq(ReferenceSymbols)
  BY DEF Reading
<1>3. given \in Seq(ReferenceSymbols \cup Keyboard)
  BY <1>2, LargerSet
<1> QED BY <1>1, <1>3 DEF ReadsAs

\* The namespace of the original is the only one of its name.
LEMMA DefinitionIs ==
  ASSUME RegistryInv, NEW i \in DOMAIN definitions, original.ns = definitions[i].public
  PROVE  Definition = definitions[i]
<1>1. \A d \in ToSet(definitions) : d.public = original.ns <=> d = definitions[i]
  BY DEF RegistryInv, ToSet
<1>2. definitions[i] \in ToSet(definitions)
  BY DEF ToSet
<1> QED BY <1>1, <1>2 DEF Definition

\* What is taken down is read as it was written.
LEMMA TakeDownKeepsCopy ==
  ASSUME RegistryInv, StorageInv, CopyInv, NEW x \in issued, TakeDown(x)
  PROVE  CopyInv'
<1>1. /\ original' = x /\ text' = x.value /\ definitions' = definitions /\ issued' = issued
      /\ slips' = slips /\ original = Nothing
  BY DEF TakeDown, registry, storage
<1>2. PICK i \in DOMAIN definitions :
        HasReference(definitions[i]) /\ x.ns = definitions[i].public
        /\ IsWritten(definitions[i], x.value)
  BY DEF StorageInv, IssuedFor
<1>3. PICK p \in Seq(AlphabetOf(definitions[i])) :
        /\ Len(p) = PayloadPlaces(definitions[i])
        /\ x.value = TextOf(definitions[i], p, CalculateCheckSymbol(RadixOf(definitions[i]), p))
  BY <1>2 DEF IsWritten
<1>4. PICK c : c = CalculateCheckSymbol(RadixOf(definitions[i]), p)
  OBVIOUS
<1>5. WellBuilt(definitions)
  BY RegistryIsWellBuilt
<1>6. Reading(TextOf(definitions[i], p, c), definitions, i, p, c)
  BY <1>2, <1>3, <1>4, <1>5, WrittenIsReading
<1>7. Reading(x.value, definitions, i, p, c)
  BY <1>3, <1>4, <1>6
<1>8. /\ ReadsAs(x.value, 0, definitions, i, p, c)
      /\ x.value \in Seq(ReferenceSymbols \cup Keyboard)
  BY <1>5, <1>7, ReadingReadsAs
<1>9. ReadsAs(x.value, slips, definitions, i, p, c)
  BY <1>7, <1>8 DEF ReadsAs
<1>10. slips \in 0..1
  BY DEF CopyInv
<1> QED BY <1>1, <1>2, <1>3, <1>4, <1>8, <1>9, <1>10 DEF CopyInv

\* Whatever keeps the reading keeps the copy.
LEMMA RewriteKeepsCopy ==
  ASSUME RegistryInv, CopyInv, NEW new, Rewrite(new),
         \A i \in DOMAIN definitions : \A p, c :
           (original.ns = definitions[i].public /\ Reading(text, definitions, i, p, c))
             => Reading(new, definitions, i, p, c)
  PROVE  CopyInv'
<1>1. /\ original # Nothing /\ slips = 0 /\ text' = new /\ original' = original
      /\ slips' = slips /\ definitions' = definitions /\ issued' = issued
  BY DEF Rewrite, registry, storage
<1>2. PICK i \in DOMAIN definitions : \E p, c :
        /\ HasReference(definitions[i]) /\ original.ns = definitions[i].public
        /\ original.value = TextOf(definitions[i], p, c)
        /\ ReadsAs(text, slips, definitions, i, p, c)
  BY <1>1 DEF CopyInv
<1>3. PICK p, c :
        /\ HasReference(definitions[i]) /\ original.ns = definitions[i].public
        /\ original.value = TextOf(definitions[i], p, c)
        /\ Reading(text, definitions, i, p, c)
  BY <1>1, <1>2 DEF ReadsAs
<1>4. Reading(new, definitions, i, p, c)
  BY <1>3
<1>5. WellBuilt(definitions)
  BY RegistryIsWellBuilt
<1>6. /\ ReadsAs(new, 0, definitions, i, p, c)
      /\ new \in Seq(ReferenceSymbols \cup Keyboard)
  BY <1>4, <1>5, ReadingReadsAs
<1>7. original \in issued
  BY <1>1 DEF CopyInv
<1> QED BY <1>1, <1>3, <1>6, <1>7 DEF CopyInv

\* The case of letters and the hyphens make no difference,
LEMMA HyphensAndCaseKeepCopy ==
  ASSUME RegistryInv, CopyInv
  PROVE  OmitHyphens \/ WriteSmall => CopyInv'
<1>1. WellBuilt(definitions)
  BY RegistryIsWellBuilt
<1>2. ASSUME NEW i \in DOMAIN definitions, NEW p, NEW c, Reading(text, definitions, i, p, c)
      PROVE  /\ Reading(WithoutHyphens(text), definitions, i, p, c)
             /\ Reading(LowerCase(text), definitions, i, p, c)
  <2>1. Reading(WithoutHyphens(text), definitions, i, p, c)
    BY <1>1, <1>2, HyphenlessIsRead
  <2>2. Reading(LowerCase(text), definitions, i, p, c)
    BY <1>2, SmallIsRead
  <2> QED BY <2>1, <2>2
<1>3. OmitHyphens => CopyInv'
  <2> SUFFICES ASSUME Rewrite(WithoutHyphens(text)) PROVE CopyInv'
    BY DEF OmitHyphens
  <2> QED BY <1>2, RewriteKeepsCopy
<1>4. WriteSmall => CopyInv'
  <2> SUFFICES ASSUME Rewrite(LowerCase(text)) PROVE CopyInv'
    BY DEF WriteSmall
  <2> QED BY <1>2, RewriteKeepsCopy
<1> QED BY <1>3, <1>4

\* A look-alike is an alias of the symbol it stands for, in either case.
LEMMA LookAlikes ==
  ASSUME NEW alias \in DOMAIN Resembles, NEW f,
         f = [x \in ReferenceSymbols |-> LookAlike(x, alias)]
  PROVE  /\ Replacement(f)
         /\ \A x \in ReferenceSymbols : Cap(f[x]) = f[Cap(x)] /\ AliasMap[f[x]] = AliasMap[x]
<1>1. alias \in {"O", "I", "L"} /\ Resembles[alias] \in {"0", "1"}
      /\ Alias(alias) = Resembles[alias] /\ Alias(Resembles[alias]) = Resembles[alias]
  BY DEF Resembles, Alias
<1>2. PICK look : look = Resembles[alias] /\ look \in {"0", "1"} /\ Alias(alias) = look
                  /\ Alias(look) = look
  BY <1>1
<1>3. /\ alias \in Letters /\ alias \in ReferenceSymbols /\ alias # Hyphen
      /\ look \in CheckSymbols /\ look \in ReferenceSymbols /\ look # Hyphen /\ look \notin Letters
  BY <1>1, <1>2, LetterSets, DataSets, CheckSets, SymbolSets DEF Hyphen
<1>4. \A x \in ReferenceSymbols : f[x] = IF x = look THEN alias ELSE x
  BY <1>2 DEF LookAlike
<1>5. Replacement(f)
  BY <1>3, <1>4 DEF Replacement, LookAlike
<1>6. ASSUME NEW x \in ReferenceSymbols PROVE Cap(f[x]) = f[Cap(x)]
  <2>1. Cap(x) \in ReferenceSymbols /\ Cap(look) = look /\ Cap(alias) = alias
    BY <1>3, Case
  <2>2. Cap(x) = look => x = look
    <3>1. x \in DOMAIN Capital => Cap(x) \in Letters
      BY LetterCase DEF Cap
    <3> QED BY <1>3, <3>1 DEF Cap
  <2> QED BY <1>4, <2>1, <2>2
<1>7. ASSUME NEW x \in ReferenceSymbols PROVE AliasMap[f[x]] = AliasMap[x]
  BY <1>2, <1>3, <1>4 DEF AliasMap
<1> QED BY <1>5, <1>6, <1>7

\* ... and neither do look-alikes.
LEMMA AliasKeepsCopy ==
  ASSUME RegistryInv, CopyInv, NEW alias \in DOMAIN Resembles, UseAlias(alias)
  PROVE  CopyInv'
<1> DEFINE new == [i \in DOMAIN text |->
                     IF i \in (Len(Definition.prefix) + 1)..Len(text) - 1
                     THEN LookAlike(text[i], alias) ELSE text[i]]
<1>1. Rewrite(new) /\ Definition.strategy = "random"
  BY DEF UseAlias
<1>2. WellBuilt(definitions)
  BY RegistryIsWellBuilt
<1>3. PICK f : f = [x \in ReferenceSymbols |-> LookAlike(x, alias)]
  OBVIOUS
<1>4. /\ Replacement(f)
      /\ \A x \in ReferenceSymbols : Cap(f[x]) = f[Cap(x)] /\ AliasMap[f[x]] = AliasMap[x]
  BY <1>3, LookAlikes
<1>5. ASSUME NEW i \in DOMAIN definitions, NEW p, NEW c, original.ns = definitions[i].public,
             Reading(text, definitions, i, p, c)
      PROVE  Reading(new, definitions, i, p, c)
  <2>1. Definition = definitions[i]
    BY <1>5, DefinitionIs
  <2>2. text \in Seq(ReferenceSymbols)
    BY <1>5 DEF Reading
  <2>3. new = ReplacedFrom(f, Len(definitions[i].prefix) + 1, text)
    <3>1. \A k \in DOMAIN text : f[text[k]] = LookAlike(text[k], alias)
      BY <1>3, <2>2
    <3> QED BY <2>1, <3>1 DEF ReplacedFrom
  <2>4. Norm(definitions[i]) = AliasMap
    BY <1>1, <2>1 DEF Norm, IsSequence
  <2>5. \A x \in ReferenceSymbols :
          Cap(f[x]) = f[Cap(x)] /\ Norm(definitions[i])[f[x]] = Norm(definitions[i])[x]
    BY <1>4, <2>4
  <2>6. Reading(ReplacedFrom(f, Len(definitions[i].prefix) + 1, text), definitions, i, p, c)
    BY <1>2, <1>4, <1>5, <2>5, ReplacedIsRead
  <2> QED BY <2>3, <2>6
<1> HIDE DEF new
<1> QED BY <1>1, <1>5, RewriteKeepsCopy

\* One mistake, wherever it is behind the prefix and whatever it is.
LEMMA SlipKeepsCopy ==
  ASSUME RegistryInv, CopyInv, NEW k \in 1..Len(text), Behind(k),
         NEW x \in ReferenceSymbols \cup Keyboard, NEW new, IsSlip(new, text, k, x), Slip(new)
  PROVE  CopyInv'
<1>1. /\ original # Nothing /\ slips = 0 /\ text' = new /\ original' = original
      /\ slips' = 1 /\ definitions' = definitions /\ issued' = issued
      /\ k > Len(Definition.prefix)
  BY DEF Behind, Slip, registry, storage
<1>2. PICK i \in DOMAIN definitions : \E p, c :
        /\ HasReference(definitions[i]) /\ original.ns = definitions[i].public
        /\ original.value = TextOf(definitions[i], p, c)
        /\ ReadsAs(text, slips, definitions, i, p, c)
  BY <1>1 DEF CopyInv
<1>3. PICK p, c :
        /\ HasReference(definitions[i]) /\ original.ns = definitions[i].public
        /\ original.value = TextOf(definitions[i], p, c)
        /\ Reading(text, definitions, i, p, c)
  BY <1>1, <1>2 DEF ReadsAs
<1>4. WellBuilt(definitions)
  BY RegistryIsWellBuilt
<1>5. k > Len(definitions[i].prefix)
  <2>1. Definition = definitions[i]
    BY <1>3, DefinitionIs
  <2> QED BY <1>1, <2>1
<1>6. Succeeds(ParseReference(new, definitions)) =>
        ParseReference(new, definitions) = Success(definitions[i], p, c)
  BY <1>3, <1>4, <1>5, SlipNoticedInText
<1>7. ReadsAs(new, 1, definitions, i, p, c)
  BY <1>6 DEF ReadsAs
<1>8. new \in Seq(ReferenceSymbols \cup Keyboard)
  <2>1. PICK S : S = ReferenceSymbols \cup Keyboard
    OBVIOUS
  <2>2. text \in Seq(S) /\ x \in S
    BY <2>1 DEF CopyInv
  <2>3. EditedInto(S, text, new, k)
    BY <2>2, SlipIsEdit
  <2>4. PICK b, m, n, z \in Seq(S) : new = b \o (n \o z)
    BY <2>3 DEF EditedInto
  <2>5. new \in Seq(S)
    BY <2>4
  <2> QED BY <2>1, <2>5
<1>9. original \in issued
  BY <1>1 DEF CopyInv
<1> QED BY <1>1, <1>3, <1>7, <1>8, <1>9 DEF CopyInv

\* Whatever happens to the copy.
LEMMA CopyingKeepsCopy ==
  ASSUME RegistryInv, StorageInv, CopyInv, Copying
  PROVE  CopyInv'
<1>1. CASE \E identity \in issued : TakeDown(identity)
  BY <1>1, TakeDownKeepsCopy
<1>2. CASE OmitHyphens \/ WriteSmall
  BY <1>2, HyphensAndCaseKeepCopy
<1>3. CASE \E alias \in DOMAIN Resembles : UseAlias(alias)
  BY <1>3, AliasKeepsCopy
<1>4. ASSUME NEW k \in 1..Len(text), Leave(k) \/ Transpose(k)
      PROVE  CopyInv'
  <2>1. text[k] \in ReferenceSymbols \cup Keyboard
    BY DEF CopyInv
  <2>2. PICK new : Behind(k) /\ Slip(new) /\ IsSlip(new, text, k, text[k])
    BY <1>4 DEF Leave, Transpose, IsSlip
  <2> QED BY <2>1, <2>2, SlipKeepsCopy
<1>5. ASSUME NEW k \in 1..Len(text), NEW x \in Keyboard, Mistype(k, x) \/ Add(k, x)
      PROVE  CopyInv'
  <2>1. PICK new : Behind(k) /\ Slip(new) /\ IsSlip(new, text, k, x)
    BY <1>5 DEF Mistype, Add, IsSlip
  <2> QED BY <2>1, SlipKeepsCopy
<1> QED BY <1>1, <1>2, <1>3, <1>4, <1>5 DEF Copying

-----------------------------------------------------------------------------
(* The invariant *)

Outcomes ==
  {"building", "created", "invalid_public_prefix", "duplicate_public_prefix",
   "invalid_ref_prefix", "invalid_ref_length", "invalid_namespace_definition",
   "duplicate_ref_prefix", "ambiguous_ref_prefix"}

IInv == outcome \in Outcomes /\ RegistryInv /\ StorageInv /\ CopyInv

\* The errors of one round of the loop are among the outcomes.
LEMMA ErrorIsOutcome ==
  ASSUME NEW d
  PROVE  DefinitionError(definitions, d) \in (Outcomes \ {"building", "created"}) \cup {"ok"}
<1>1. ReferenceError(d) \in {"ok", "invalid_ref_prefix", "invalid_ref_length",
                             "invalid_namespace_definition"}
  BY DEF ReferenceError
<1> QED BY <1>1 DEF DefinitionError, Outcomes

\* It holds at the beginning,
LEMMA IInvInitially == Init => IInv
<1> SUFFICES ASSUME Init PROVE IInv
  OBVIOUS
<1>1. RegistryInv
  BY DEF Init, RegistryInv
<1>2. StorageInv
  BY DEF Init, StorageInv
<1>3. CopyInv
  BY DEF Init, CopyInv
<1> QED BY <1>1, <1>2, <1>3 DEF Init, IInv, Outcomes

\* ... while the registry is built: nothing is issued or copied yet,
LEMMA BuildingKeepsIInv ==
  ASSUME IInv, Building
  PROVE  IInv'
<1>1. /\ outcome = "building" /\ references = {} /\ allocations = {} /\ issued = {}
      /\ references' = {} /\ allocations' = {} /\ issued' = {}
      /\ original' = original /\ text' = text /\ slips' = slips
  BY DEF IInv, StorageInv, Building, Create, Register, storage, copy
<1>2. StorageInv'
  BY <1>1 DEF StorageInv
<1>3. original = Nothing
  BY <1>1 DEF IInv, CopyInv
<1>4. CopyInv'
  BY <1>1, <1>3 DEF IInv, CopyInv
<1>5. RegistryInv' /\ outcome' \in Outcomes
  <2>1. CASE Create
    BY <2>1 DEF Create, IInv, RegistryInv, Outcomes
  <2>2. ASSUME NEW d \in Definitions, Register(d)
        PROVE  RegistryInv' /\ outcome' \in Outcomes
    <3>1. RegistryInv'
      BY <2>2, RegisterKeepsRegistry DEF IInv
    <3>2. DefinitionError(definitions, d) \in (Outcomes \ {"building", "created"}) \cup {"ok"}
      BY ErrorIsOutcome
    <3>3. outcome' = outcome \/ (DefinitionError(definitions, d) # "ok"
                                 /\ outcome' = DefinitionError(definitions, d))
      BY <2>2 DEF Register
    <3> QED BY <3>1, <3>2, <3>3 DEF IInv
  <2> QED BY <2>1, <2>2 DEF Building
<1> QED BY <1>2, <1>4, <1>5 DEF IInv

\* ... while references are issued: nothing is copied yet,
LEMMA IssuingKeepsIInv ==
  ASSUME IInv, Issuing
  PROVE  IInv'
<1>1. PICK d \in ToSet(definitions) :
        \/ \E bytes \in ByteStrings : IssueRandom(d, bytes)
        \/ \E n \in Numbers, scope \in Years \cup {<<>>} : IssueSequential(d, n, scope)
  BY DEF Issuing
<1>2. PICK i \in DOMAIN definitions : d = definitions[i]
  BY DEF ToSet
<1>3. StorageInv'
  BY <1>1, <1>2, RandomKeepsStorage, SequentialKeepsStorage DEF IInv
<1>4. /\ definitions' = definitions /\ outcome' = outcome /\ original = Nothing
      /\ original' = original /\ text' = text /\ slips' = slips
  BY <1>1 DEF IssueRandom, IssueSequential, Issue, registry, copy
<1>5. CopyInv'
  BY <1>4 DEF IInv, CopyInv
<1>6. RegistryInv'
  BY <1>4 DEF IInv, RegistryInv
<1> QED BY <1>3, <1>4, <1>5, <1>6 DEF IInv

\* ... and while one is copied: registry and tables stay.
LEMMA CopyingKeepsIInv ==
  ASSUME IInv, Copying
  PROVE  IInv'
<1>1. /\ definitions' = definitions /\ outcome' = outcome /\ references' = references
      /\ allocations' = allocations /\ issued' = issued
  BY DEF Copying, TakeDown, OmitHyphens, WriteSmall, UseAlias, Rewrite, Mistype, Leave, Add,
         Transpose, Slip, registry, storage
<1>2. CopyInv'
  BY CopyingKeepsCopy DEF IInv
<1>3. RegistryInv'
  BY <1>1 DEF IInv, RegistryInv
<1>4. StorageInv'
  BY <1>1 DEF IInv, StorageInv
<1> QED BY <1>1, <1>2, <1>3, <1>4 DEF IInv

\* So it holds for good.
LEMMA IInvAlways == Spec => []IInv
<1>1. IInv /\ [Next]_vars => IInv'
  <2>1. ASSUME IInv, UNCHANGED vars PROVE IInv'
    <3>1. RegistryInv'
      BY <2>1 DEF vars, IInv, RegistryInv
    <3>2. StorageInv'
      BY <2>1 DEF vars, IInv, StorageInv
    <3>3. CopyInv'
      BY <2>1 DEF vars, IInv, CopyInv
    <3> QED BY <2>1, <3>1, <3>2, <3>3 DEF vars, IInv
  <2> QED BY <2>1, BuildingKeepsIInv, IssuingKeepsIInv, CopyingKeepsIInv DEF Next
<1> QED BY <1>1, IInvInitially, PTL DEF Spec

-----------------------------------------------------------------------------
(* The theorems *)

\* Only complete and valid definitions are in a registry, whatever callers pass,
\* and the loop ends in the registry or in one of its errors (registry.ts).
THEOREM TypeCorrect == Spec => []TypeOK
<1>1. IInv => TypeOK
  <2> SUFFICES ASSUME IInv PROVE TypeOK
    OBVIOUS
  <2>1. \A i \in DOMAIN definitions : Complete(definitions[i])
    BY RegistryIsWellBuilt DEF IInv
  <2>2. ASSUME NEW d \in ToSet(definitions)
        PROVE  /\ d.public \in PublicPrefixes
               /\ HasReference(d) => Len(d.prefix) \in PrefixLengths
               /\ d.strategy = "random" => d.payloadLength = ProfileLengths[d.profile]
               /\ d.strategy = "sequence" => d.width \in ValidWidths
    <3>1. PICK i \in DOMAIN definitions : d = definitions[i]
      BY DEF ToSet
    <3> QED BY <2>1, <3>1 DEF Complete, ReferenceDefinition
  <2> QED BY <2>2 DEF TypeOK, IInv, CopyInv, Outcomes
<1> QED BY <1>1, IInvAlways, PTL

\* No text has two readings: a registry that was accepted never has two
\* namespaces whose prefixes start one text, whatever the order they were
\* registered in (locateNamespace, reference.ts; SPEC.md:84).
THEOREM OneReading == Spec => []ReadingIsUnique
<1>1. IInv => ReadingIsUnique
  <2> SUFFICES ASSUME IInv,
                      NEW i \in DOMAIN definitions, NEW j \in DOMAIN definitions,
                      HasReference(definitions[i]), HasReference(definitions[j]),
                      IsPrefix(definitions[i].prefix, UpperCase(text)),
                      IsPrefix(definitions[j].prefix, UpperCase(text))
               PROVE  i = j
    BY DEF ReadingIsUnique
  <2>1. PICK p \in Seq(Letters) : p = definitions[i].prefix
    BY RegistryIsWellBuilt DEF IInv, Complete, ReferenceDefinition
  <2>2. PICK q \in Seq(Letters) : q = definitions[j].prefix
    BY RegistryIsWellBuilt DEF IInv, Complete, ReferenceDefinition
  <2>3. Len(p) <= Len(q) \/ Len(q) <= Len(p)
    OBVIOUS
  <2>4. IsPrefix(p, UpperCase(text)) /\ IsPrefix(q, UpperCase(text))
    BY <2>1, <2>2
  <2>5. IsPrefix(p, q) \/ IsPrefix(q, p)
    BY <2>3, <2>4, PrefixesAreComparable
  <2> QED BY <2>1, <2>2, <2>5 DEF IInv, RegistryInv
<1> QED BY <1>1, IInvAlways, PTL

\* What the invariant says of a copy, for the theorems below.
LEMMA CopyHasReading ==
  ASSUME IInv, original # Nothing
  PROVE  /\ WellBuilt(definitions) /\ original \in issued
         /\ \E i \in DOMAIN definitions : \E p, c :
              /\ Success(definitions[i], p, c)
                   = [code |-> "ok", namespace |-> original.ns, value |-> original.value]
              /\ ReadsAs(text, slips, definitions, i, p, c)
<1>1. original \in issued
  BY DEF IInv, CopyInv
<1>2. PICK i \in DOMAIN definitions : \E p, c :
        /\ HasReference(definitions[i]) /\ original.ns = definitions[i].public
        /\ original.value = TextOf(definitions[i], p, c)
        /\ ReadsAs(text, slips, definitions, i, p, c)
  BY DEF IInv, CopyInv
<1>3. WellBuilt(definitions)
  BY RegistryIsWellBuilt DEF IInv
<1> QED BY <1>1, <1>2, <1>3 DEF Success

\* However a reference was copied -- in small letters, without hyphens, with
\* look-alikes in a random payload, any number of times -- the copy is read as
\* the reference that was issued (parseReference, reference.ts; SPEC.md:74).
THEOREM EveryCopyIsRead == Spec => []CopiesAreRead
<1>1. IInv => CopiesAreRead
  <2> SUFFICES ASSUME IInv, original # Nothing, slips = 0
               PROVE  ParseReference(text, definitions)
                        = [code |-> "ok", namespace |-> original.ns, value |-> original.value]
    BY DEF CopiesAreRead
  <2>1. WellBuilt(definitions)
    BY CopyHasReading
  <2>2. PICK i \in DOMAIN definitions : \E p, c :
          /\ Success(definitions[i], p, c)
               = [code |-> "ok", namespace |-> original.ns, value |-> original.value]
          /\ ReadsAs(text, slips, definitions, i, p, c)
    BY CopyHasReading
  <2>3. PICK p, c :
          /\ Success(definitions[i], p, c)
               = [code |-> "ok", namespace |-> original.ns, value |-> original.value]
          /\ Reading(text, definitions, i, p, c)
    BY <2>2 DEF ReadsAs
  <2> QED BY <2>1, <2>3, ReadingIsParsed
<1> QED BY <1>1, IInvAlways, PTL

\* Whatever is read is the original.
LEMMA ReadIsOriginal ==
  ASSUME IInv, original # Nothing, Succeeds(ParseReference(text, definitions))
  PROVE  ParseReference(text, definitions)
           = [code |-> "ok", namespace |-> original.ns, value |-> original.value]
<1>1. PICK i \in DOMAIN definitions : \E p, c :
        /\ Success(definitions[i], p, c)
             = [code |-> "ok", namespace |-> original.ns, value |-> original.value]
        /\ ReadsAs(text, slips, definitions, i, p, c)
  BY CopyHasReading
<1> QED BY <1>1 DEF ReadsAs

\* One mistake in a copy -- a wrong, missing or additional symbol or two
\* neighbours swapped, anywhere behind the prefix, in a text with or without
\* hyphens -- is refused or read as the reference that was meant, for payloads of
\* every length (the check symbols of reference.ts; SPEC.md:104).
THEOREM NoSlipMisreads == Spec => []OneSlipNeverMisreads
<1>1. IInv => OneSlipNeverMisreads
  BY ReadIsOriginal DEF OneSlipNeverMisreads
<1> QED BY <1>1, IInvAlways, PTL

\* The two tables hold one row with the parts of an issued reference.
LEMMA OneOwner ==
  ASSUME RegistryInv, StorageInv, NEW x \in issued
  PROVE  Owners(x.value, x.ns) = {[ns |-> x.ns, mid |-> x.mid]}
<1>1. PICK i \in DOMAIN definitions : IssuedFor(x, definitions[i], references, allocations)
  BY DEF StorageInv
<1>2. /\ x.ns = definitions[i].public
      /\ Stored(x, definitions[i], references, allocations)
      /\ definitions[i].strategy \in {"random", "sequence"}
  BY <1>1, RegistryIsWellBuilt DEF IssuedFor, Complete, HasReference
<1>3. CASE definitions[i].strategy = "random"
  <2>1. PICK row \in references : row.ref = x.value /\ row.ns = x.ns /\ row.mid = x.mid
    BY <1>2, <1>3 DEF Stored
  <2>2. FoundReferences(x.value, x.ns) = {row}
    BY <2>1 DEF FoundReferences, StorageInv
  <2> QED BY <2>1, <2>2 DEF Owners
<1>4. CASE definitions[i].strategy = "sequence"
  <2>1. FoundReferences(x.value, x.ns) = {}
    <3> SUFFICES ASSUME NEW row \in references, row.ns = x.ns PROVE FALSE
      BY DEF FoundReferences
    <3>1. PICK j \in DOMAIN definitions :
            definitions[j].strategy = "random" /\ row.ns = definitions[j].public
      BY DEF StorageInv
    <3>2. j = i
      BY <1>2, <3>1 DEF RegistryInv
    <3> QED BY <1>4, <3>1, <3>2
  <2>2. PICK row \in allocations :
          /\ row.ns = x.ns /\ row.mid = x.mid
          /\ SqlParts(x.value) = {[prefix |-> row.prefix, scope |-> row.scope,
                                   sequence |-> row.sequence]}
    BY <1>2, <1>4 DEF Stored
  <2>3. \A other \in allocations :
          (/\ other.ns = x.ns
           /\ \E parts \in SqlParts(x.value) :
                /\ other.prefix = parts.prefix /\ other.scope = parts.scope
                /\ other.sequence = parts.sequence) <=> other = row
    BY <2>2 DEF StorageInv
  <2>4. FoundAllocations(x.value, x.ns) = {row}
    BY <2>3 DEF FoundAllocations
  <2> QED BY <2>1, <2>2, <2>4 DEF Owners
<1> QED BY <1>2, <1>3, <1>4

\* What is read is answered with the MID it was issued with and no other,
\* although two tables are searched and other references of the same number,
\* scope or namespace are in them; and every faithful copy is answered
\* (resolver.ts, the lookups of sqlite.ts, mysql.ts and migration 004).
THEOREM EveryCopyResolves == Spec => []ResolvesToOwner
<1>1. IInv => (CopiesAreRead => ResolvesToOwner)
  <2> SUFFICES ASSUME IInv, CopiesAreRead, original # Nothing
               PROVE  LET found == Resolve(text) IN
                      /\ found \subseteq {[ns |-> original.ns, mid |-> original.mid]}
                      /\ slips = 0 => found # {}
    BY DEF ResolvesToOwner
  <2>1. Owners(original.value, original.ns) = {[ns |-> original.ns, mid |-> original.mid]}
    BY CopyHasReading, OneOwner DEF IInv
  <2>2. slips = 0 => Succeeds(ParseReference(text, definitions))
    BY DEF CopiesAreRead, Succeeds
  <2>3. CASE ~Succeeds(ParseReference(text, definitions))
    BY <2>2, <2>3 DEF Resolve
  <2>4. CASE Succeeds(ParseReference(text, definitions))
    <3>1. ParseReference(text, definitions)
            = [code |-> "ok", namespace |-> original.ns, value |-> original.value]
      BY <2>4, ReadIsOriginal
    <3>2. PICK parsed : parsed = ParseReference(text, definitions) /\ Succeeds(parsed)
                        /\ parsed.value = original.value /\ parsed.namespace = original.ns
      BY <2>4, <3>1
    <3>3. Resolve(text) = Owners(parsed.value, parsed.namespace)
      BY <3>2 DEF Resolve
    <3> QED BY <2>1, <3>2, <3>3
  <2> QED BY <2>3, <2>4
<1> QED BY <1>1, IInvAlways, EveryCopyIsRead, PTL

\* The normalized form of whatever is read, the copies with a mistake included,
\* is read as itself, by the parser and by the service, which sorts texts by
\* their looks before it parses them (detectIdentifierKind, service.ts).
THEOREM NormalizedForever == Spec => []NormalizedIsStable
<1>1. IInv => NormalizedIsStable
  <2> SUFFICES ASSUME IInv, Succeeds(ParseReference(text, definitions))
               PROVE  LET parsed == ParseReference(text, definitions) IN
                      /\ ParseReference(parsed.value, definitions) = parsed
                      /\ ParseIdentifier(parsed.value, definitions) = parsed
    BY DEF NormalizedIsStable
  <2>1. WellBuilt(definitions) /\ text \in Seq(ReferenceSymbols \cup Keyboard)
    BY RegistryIsWellBuilt DEF IInv, CopyInv
  <2> QED BY <2>1, NormalizedIsRead
<1> QED BY <1>1, IInvAlways, PTL

\* What inspect says of a text it refuses is so: where it recognizes the
\* registry a registered prefix starts the text, and where it finds the checksum
\* wrong another check symbol makes the text valid (inspect, service.ts;
\* SPEC.md:104).
THEOREM InspectNeverLies == Spec => []InspectIsHonest
<1>1. IInv => InspectIsHonest
  <2> SUFFICES ASSUME IInv PROVE InspectIsHonest
    OBVIOUS
  <2>1. WellBuilt(definitions) /\ text \in Seq(ReferenceSymbols \cup Keyboard)
    BY RegistryIsWellBuilt DEF IInv, CopyInv
  <2>2. /\ Inspect(text, definitions).registryRecognized =>
             \E i \in DOMAIN definitions :
               HasReference(definitions[i]) /\ IsPrefix(definitions[i].prefix, UpperCase(text))
        /\ FALSE \in Inspect(text, definitions).checksumValid =>
             \E c \in CheckSymbols :
               Succeeds(ParseReference(Append(Front(text), c), definitions))
    BY <2>1, InspectedHonestly
  <2>3. \A i \in DOMAIN definitions : definitions[i] \in ToSet(definitions)
    BY DEF ToSet
  <2> QED BY <2>2, <2>3 DEF InspectIsHonest
<1> QED BY <1>1, IInvAlways, PTL

-----------------------------------------------------------------------------
(* The registry, exported *)

\* One definition of the export, and the export definition by definition.
Exported(d) ==
  IF d.strategy = "random"
  THEN [public |-> d.public, strategy |-> "random", prefix |-> d.prefix, profile |-> d.profile]
  ELSE d

\* A definition as the loop registers it is valid in the form it is exported in
\* and registered as it was.
LEMMA ExportedIsRegistered ==
  ASSUME NEW d \in Accepted
  PROVE  /\ Registered(Exported(d)) = d /\ ReferenceError(Exported(d)) = "ok"
         /\ Exported(d).public = d.public /\ Exported(d).strategy = d.strategy
         /\ HasReference(d) => Exported(d).prefix = d.prefix
<1>1. PICK e \in Definitions : /\ e.public \in PublicPrefixes /\ ReferenceError(e) = "ok"
                               /\ d = Registered(e)
  BY DEF Accepted
<1>2. d.strategy = e.strategy /\ e.strategy \in {"none", "random", "sequence"}
  BY <1>1, RegisteredIsComplete DEF ReferenceError
<1>3. e.strategy # "none" => Len(e.prefix) \in PrefixLengths /\ ToSet(e.prefix) \subseteq Letters
  BY <1>1 DEF ReferenceError
<1>4. CASE e.strategy = "none"
  <2>1. d = e
    BY <1>1, <1>4 DEF Registered
  <2> QED BY <1>4, <2>1 DEF Exported, Registered, ReferenceError, HasReference
<1>5. CASE e.strategy = "random"
  <2>1. PICK profile \in DOMAIN ProfileLengths :
          /\ profile # Unset
          /\ d = [public |-> e.public, strategy |-> "random", prefix |-> e.prefix,
                  profile |-> profile, payloadLength |-> ProfileLengths[profile]]
    <3>1. e.profile \in DOMAIN ProfileLengths \cup {Unset}
      BY <1>1, <1>3, <1>5 DEF ReferenceError
    <3>2. "standard" # Unset
      BY DEF Unset
    <3> QED BY <1>1, <1>5, <3>1, <3>2, RegistryAssumption DEF Registered
  <2>2. Exported(d) = [public |-> e.public, strategy |-> "random", prefix |-> e.prefix,
                       profile |-> profile]
    BY <2>1 DEF Exported
  <2>3. Registered(Exported(d)) = d
    BY <2>1, <2>2 DEF Registered
  <2>4. ReferenceError(Exported(d)) = "ok"
    BY <1>3, <1>5, <2>1, <2>2 DEF ReferenceError
  <2> QED BY <2>1, <2>2, <2>3, <2>4
<1>6. CASE e.strategy = "sequence"
  <2>1. PICK scope :
          /\ scope # Unset
          /\ d = [public |-> e.public, strategy |-> "sequence", prefix |-> e.prefix,
                  scope |-> scope, width |-> e.width]
    <3>1. "none" # Unset
      BY DEF Unset
    <3> QED BY <1>1, <1>6, <3>1 DEF Registered
  <2>2. e.width \in ValidWidths
    BY <1>1, <1>6 DEF ReferenceError
  <2>3. Exported(d) = d
    BY <2>1 DEF Exported
  <2>4. Registered(d) = d
    BY <2>1 DEF Registered
  <2>5. ReferenceError(d) = "ok"
    BY <1>3, <1>6, <2>1, <2>2 DEF ReferenceError
  <2> QED BY <2>3, <2>4, <2>5
<1> QED BY <1>2, <1>4, <1>5, <1>6

\* A list of exported definitions, each at most once, in any order.
ListOfExport(list, n) ==
  /\ n \in Nat /\ DOMAIN list = 1..n /\ Len(list) = n
  /\ \A k \in 1..n : \E i \in DOMAIN definitions : list[k] = Exported(definitions[i])
  /\ \A k, l \in 1..n : k # l => list[k] # list[l]

\* Such a list is accepted, and each definition comes out as it was registered.
LEMMA ListIsAccepted ==
  ASSUME RegistryInv, NEW list, NEW n, ListOfExport(list, n)
  PROVE  CreateNamespaceRegistry(list)
           = [code |-> "ok", definitions |-> [k \in 1..n |-> Registered(list[k])]]
<1>1. /\ n \in Nat /\ DOMAIN list = 1..n /\ Len(list) = n
      /\ \A k, l \in 1..n : k # l => list[k] # list[l]
  BY DEF ListOfExport
<1>2. \A k \in 1..n : \E i \in DOMAIN definitions : list[k] = Exported(definitions[i])
  BY DEF ListOfExport
<1>3. PICK at \in [1..n -> DOMAIN definitions] :
        \A k \in 1..n : list[k] = Exported(definitions[at[k]])
  <2> DEFINE at == [k \in 1..n |-> CHOOSE i \in DOMAIN definitions :
                                     list[k] = Exported(definitions[i])]
  <2>1. at \in [1..n -> DOMAIN definitions]
        /\ \A k \in 1..n : list[k] = Exported(definitions[at[k]])
    BY <1>2
  <2> QED BY <2>1
<1>4. \A i \in DOMAIN definitions : definitions[i] \in Accepted
  BY DEF RegistryInv
<1>5. \A k \in 1..n :
        /\ Registered(list[k]) = definitions[at[k]] /\ ReferenceError(list[k]) = "ok"
        /\ list[k].public = definitions[at[k]].public
        /\ HasReference(list[k]) =>
             HasReference(definitions[at[k]]) /\ list[k].prefix = definitions[at[k]].prefix
  BY <1>3, <1>4, ExportedIsRegistered DEF HasReference
<1>6. \A k, l \in 1..n : k # l => at[k] # at[l]
  BY <1>1, <1>3
<1> DEFINE before(i) == [k \in 1..i |-> Registered(list[k])]
<1>7. ASSUME NEW i \in 1..n
      PROVE  DefinitionError(before(i - 1), list[i]) = "ok"
  <2>1. \A e \in ToSet(before(i - 1)) : \E k \in 1..n : k # i /\ e = definitions[at[k]]
    <3>1. \A k \in 1..i - 1 : k \in 1..n /\ k # i
      BY <1>1
    <3>2. ToSet(before(i - 1)) = {Registered(list[k]) : k \in 1..i - 1}
      BY DEF ToSet
    <3> HIDE DEF before
    <3> QED BY <1>5, <3>1, <3>2
  <2>2. list[i].public \in PublicPrefixes
    BY <1>3, <1>5, RegistryIsWellBuilt DEF Complete
  <2>3. \A e \in ToSet(before(i - 1)) :
          /\ e.public # list[i].public
          /\ (HasReference(list[i]) /\ HasReference(e)) =>
               /\ e.prefix # list[i].prefix
               /\ ~IsPrefix(e.prefix, list[i].prefix) /\ ~IsPrefix(list[i].prefix, e.prefix)
    <3> SUFFICES ASSUME NEW e \in ToSet(before(i - 1))
                 PROVE  /\ e.public # list[i].public
                        /\ (HasReference(list[i]) /\ HasReference(e)) =>
                             /\ e.prefix # list[i].prefix
                             /\ ~IsPrefix(e.prefix, list[i].prefix)
                             /\ ~IsPrefix(list[i].prefix, e.prefix)
      OBVIOUS
    <3>1. PICK k \in 1..n : k # i /\ e = definitions[at[k]]
      BY <2>1
    <3> HIDE DEF before
    <3>2. PICK u \in DOMAIN definitions : u = at[k]
      BY <1>3
    <3>3. PICK v \in DOMAIN definitions : v = at[i]
      BY <1>3
    <3>4. u # v /\ e = definitions[u]
      BY <1>6, <3>1, <3>2, <3>3
    <3>5. e.public # list[i].public
      BY <1>5, <3>3, <3>4 DEF RegistryInv
    <3>6. ASSUME HasReference(list[i]), HasReference(e)
          PROVE  /\ e.prefix # list[i].prefix
                 /\ ~IsPrefix(e.prefix, list[i].prefix) /\ ~IsPrefix(list[i].prefix, e.prefix)
      <4>1. HasReference(definitions[v]) /\ list[i].prefix = definitions[v].prefix
        BY <1>5, <3>3, <3>6
      <4>2. ~IsPrefix(e.prefix, list[i].prefix) /\ ~IsPrefix(list[i].prefix, e.prefix)
        BY <3>4, <3>6, <4>1 DEF RegistryInv
      <4>3. PICK s \in Seq(Letters) : s = e.prefix
        BY <3>4, <3>6, RegistryIsWellBuilt DEF Complete, ReferenceDefinition
      <4>4. IsPrefix(s, s)
        BY DEF IsPrefix
      <4> QED BY <4>2, <4>3, <4>4
    <3> QED BY <3>5, <3>6
  <2> HIDE DEF before
  <2> QED BY <1>5, <2>2, <2>3 DEF DefinitionError
<1>8. before(n) = [k \in 1..n |-> Registered(list[k])]
  OBVIOUS
<1>9. CreateNamespaceRegistry(list) =
        LET bad == {i \in DOMAIN list : DefinitionError(before(i - 1), list[i]) # "ok"} IN
        IF bad = {} THEN [code |-> "ok", definitions |-> before(Len(list))]
        ELSE [code |-> DefinitionError(before((CHOOSE i \in bad : \A j \in bad : i <= j) - 1),
                                       list[CHOOSE i \in bad : \A j \in bad : i <= j]),
              definitions |-> <<>>]
  BY DEF CreateNamespaceRegistry
<1> HIDE DEF before
<1> QED BY <1>1, <1>7, <1>8, <1>9

\* The orders of a finite set are sequences of all its elements, each once.
LEMMA OrderOfSet ==
  ASSUME NEW T, IsFiniteSet(T), NEW list \in SetToSeqs(T)
  PROVE  /\ Cardinality(T) \in Nat /\ DOMAIN list = 1..Cardinality(T)
         /\ Len(list) = Cardinality(T)
         /\ \A k, l \in 1..Cardinality(T) : k # l => list[k] # list[l]
         /\ \A k \in 1..Cardinality(T) : list[k] \in T
         /\ \A x \in T : \E k \in 1..Cardinality(T) : list[k] = x
<1>1. PICK n \in Nat : n = Cardinality(T)
  BY FS_CardinalityType
<1>2. list \in [1..n -> T] /\ \A k, l \in 1..n : k # l => list[k] # list[l]
  BY <1>1 DEF SetToSeqs
<1>3. list \in Injection(1..n, T)
  BY <1>2 DEF Injection, IsInjective
<1>4. Cardinality(1..n) = n
  BY FS_Interval
<1>5. list \in Surjection(1..n, T)
  BY <1>1, <1>3, <1>4, FS_Injection
<1>6. \A x \in T : \E k \in 1..n : list[k] = x
  BY <1>5 DEF Surjection
<1>7. Len(list) = n
  <2>1. list \in Seq(T)
    BY <1>2
  <2> QED BY <1>2, <2>1
<1> QED BY <1>1, <1>2, <1>6, <1>7

\* A sequence has finitely many elements.
LEMMA ElementsAreFinite ==
  ASSUME NEW list, NEW n \in Nat, DOMAIN list = 1..n, list = [k \in 1..n |-> list[k]]
  PROVE  IsFiniteSet(ToSet(list))
<1>1. list \in Surjection(1..n, ToSet(list))
  BY DEF Surjection, ToSet
<1>2. IsFiniteSet(1..n)
  BY FS_Interval
<1> QED BY <1>1, <1>2, FS_Surjection

\* A registry that was accepted is accepted again from its export, in every order
\* of its definitions, and comes out the same: what one service exports no other
\* one refuses (registry.ts, exchange.ts:12-53).
THEOREM EveryExportIsAccepted == Spec => []RegistryIsReproducible
<1>1. IInv => RegistryIsReproducible
  <2> SUFFICES ASSUME RegistryInv PROVE RegistryIsReproducible
    BY DEF IInv
  <2> DEFINE exported == ExportRegistry(definitions)
  <2>1. PICK n \in Nat : /\ n = Len(definitions) /\ DOMAIN definitions = 1..n
                         /\ definitions = [k \in 1..n |-> definitions[k]]
                         /\ \A k \in 1..n : definitions[k] \in Accepted
    BY DEF RegistryInv
  <2>2. exported = [k \in 1..n |-> Exported(definitions[k])]
    BY <2>1 DEF ExportRegistry, Exported
  <2> HIDE DEF exported
  <2>3. \A k \in 1..n : /\ Registered(exported[k]) = definitions[k]
                        /\ exported[k].public = definitions[k].public
    BY <2>1, <2>2, ExportedIsRegistered
  <2>4. ListOfExport(exported, n)
    <3>1. \A k, l \in 1..n : k # l => exported[k] # exported[l]
      <4>1. \A k, l \in 1..n : definitions[k].public = definitions[l].public => k = l
        BY <2>1 DEF RegistryInv
      <4> QED BY <2>3, <4>1
    <3>2. Len(exported) = n
      <4>1. exported \in Seq({Exported(definitions[k]) : k \in 1..n})
        BY <2>2
      <4> QED BY <2>2, <4>1
    <3> QED BY <2>1, <2>2, <3>1, <3>2 DEF ListOfExport
  <2>5. ImportRegistry(exported).definitions = definitions
    <3>1. ImportRegistry(exported)
            = [code |-> "ok", definitions |-> [k \in 1..n |-> Registered(exported[k])]]
      BY <2>4, ListIsAccepted DEF ImportRegistry
    <3>2. [k \in 1..n |-> Registered(exported[k])] = [k \in 1..n |-> definitions[k]]
      BY <2>3
    <3>3. definitions = [k \in 1..n |-> Registered(exported[k])]
      BY <2>1, <3>2
    <3>4. PICK made : made = [k \in 1..n |-> Registered(exported[k])]
      OBVIOUS
    <3> QED BY <3>1, <3>3, <3>4
  <2>6. ASSUME NEW list \in SetToSeqs(ToSet(exported))
        PROVE  LET made == ImportRegistry(list) IN
               made.code = "ok" /\ ToSet(made.definitions) = ToSet(definitions)
    <3>1. IsFiniteSet(ToSet(exported))
      <4>1. DOMAIN exported = 1..n /\ exported = [k \in 1..n |-> exported[k]]
        BY <2>2
      <4> QED BY <4>1, ElementsAreFinite
    <3>2. PICK m \in Nat :
            /\ DOMAIN list = 1..m /\ Len(list) = m
            /\ \A k, l \in 1..m : k # l => list[k] # list[l]
            /\ \A k \in 1..m : list[k] \in ToSet(exported)
            /\ \A x \in ToSet(exported) : \E k \in 1..m : list[k] = x
      BY <3>1, OrderOfSet
    <3>3. ToSet(exported) = {exported[k] : k \in 1..n}
      BY <2>2 DEF ToSet
    <3>4. \A k \in 1..m : \E i \in 1..n : list[k] = exported[i]
      BY <3>2, <3>3
    <3>5. ListOfExport(list, m)
      BY <2>1, <2>2, <3>2, <3>4 DEF ListOfExport
    <3>6. ImportRegistry(list)
            = [code |-> "ok", definitions |-> [k \in 1..m |-> Registered(list[k])]]
      BY <3>5, ListIsAccepted DEF ImportRegistry
    <3>7. PICK made : made = [k \in 1..m |-> Registered(list[k])]
      OBVIOUS
    <3>8. ToSet(made) = {Registered(list[k]) : k \in 1..m}
      BY <3>7 DEF ToSet
    <3>9. ToSet(definitions) = {definitions[i] : i \in 1..n}
      BY <2>1 DEF ToSet
    <3>10. \A k \in 1..m : \E i \in 1..n : Registered(list[k]) = definitions[i]
      BY <2>3, <3>4
    <3>11. \A i \in 1..n : \E k \in 1..m : Registered(list[k]) = definitions[i]
      <4> SUFFICES ASSUME NEW i \in 1..n
                   PROVE  \E k \in 1..m : Registered(list[k]) = definitions[i]
        OBVIOUS
      <4>1. exported[i] \in ToSet(exported)
        BY <3>3
      <4>2. PICK k \in 1..m : list[k] = exported[i]
        BY <3>2, <4>1
      <4> QED BY <2>3, <4>2
    <3>12. ToSet(made) = ToSet(definitions)
      BY <3>8, <3>9, <3>10, <3>11
    <3> QED BY <3>6, <3>7, <3>12
  <2> QED BY <2>5, <2>6 DEF RegistryIsReproducible, exported
<1> QED BY <1>1, IInvAlways, PTL
=============================================================================
