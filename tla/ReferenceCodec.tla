---------------------------- MODULE ReferenceCodec ----------------------------
(***************************************************************************)
(* Writing and reading references: packages/typescript/src/reference.ts,   *)
(* the identifier kinds and inspection of service.ts, and the parts        *)
(* sql-storage.ts cuts a sequential reference into for the lookup.  The    *)
(* lengths 4, 2..8, 4..18 and 100 of the code are constants.               *)
(***************************************************************************)
EXTENDS NamespaceRegistry

CONSTANTS
  GroupLength, \* symbols between hyphens in a random reference, 4 in the code
  ScopeLength, \* digits of a calendar year, 4 in the code
  MaxLength    \* of a text that is read as a reference, 100 in the code

ASSUME LengthsAssumption ==
  GroupLength \in Nat \ {0} /\ ScopeLength \in Nat \ {0} /\ MaxLength \in Nat
\* What is written is not too long to be read: at most 34 of 100 symbols.
ASSUME MaxLengthAssumption ==
  \A n \in PrefixLengths :
    /\ \A profile \in DOMAIN ProfileLengths :
         LET length == ProfileLengths[profile] IN
         n + length + (length - 1) \div GroupLength + 3 <= MaxLength
    /\ \A width \in ValidWidths : n + ScopeLength + width + 4 <= MaxLength

Hyphen == "-"
ReferenceSymbols ==
  CheckSymbols \cup Letters \cup ToSet(SmallLetters) \cup {"_", Hyphen}

Failure(code) == [code |-> code]
Succeeds(result) == result.code = "ok"

-----------------------------------------------------------------------------
(* Writing *)

\* The payload in groups, with a hyphen between each two.
Grouped(payload) ==
  Loop([written \in [count : Nat, text : Seq(ReferenceSymbols)] |-> [c \in DataSymbols |->
          [count |-> written.count + 1,
           text |-> IF written.count # 0 /\ written.count % GroupLength = 0
                    THEN written.text \o <<Hyphen, c>>
                    ELSE Append(written.text, c)]]],
       [count |-> 0, text |-> <<>>], payload).text

FormatReference(prefix, payload, check) ==
  prefix \o <<Hyphen>> \o Grouped(payload) \o <<Hyphen, check>>

\* The five low bits of each byte choose a symbol.
CreateReferenceCandidate(d, bytes) ==
  LET payload == [i \in DOMAIN bytes |-> DataAlphabet[1 + (bytes[i] % 32)]] IN
  FormatReference(d.prefix, payload, CalculateCheckSymbol(RandomRadix, payload))

\* Mutant: no hyphen between scope and number.
FormatPartsTogether(prefix, scope, sequence, check) ==
  prefix \o <<Hyphen>> \o scope \o sequence \o <<Hyphen, check>>

FormatSequentialParts(prefix, scope, sequence, check) ==
  prefix \o <<Hyphen>>
    \o (IF scope = <<>> THEN <<>> ELSE scope \o <<Hyphen>>)
    \o sequence \o <<Hyphen, check>>

\* The decimal digits of n in width places, from the last to the first, and
\* what is left of n: nothing, if they are enough.
PaddedDigits(n, width) ==
  Loop([written \in [rest : Nat, digits : Seq(Digits)] |-> [place \in 1..width |->
          [rest |-> written.rest \div 10,
           digits |-> <<DataAlphabet[1 + (written.rest % 10)]>> \o written.digits]]],
       [rest |-> n, digits |-> <<>>], [place \in 1..width |-> place])

\* scope is <<>> where the caller passes none.
FormatSequentialReference(d, n, scope) ==
  LET padded == PaddedDigits(n, d.width)
      sequence == padded.digits
  IN
  IF padded.rest # 0 THEN Failure("sequence_overflow")
  ELSE IF \/ d.scope = "calendar-year"
               /\ ~(Len(scope) = ScopeLength /\ ToSet(scope) \subseteq Digits)
          \/ d.scope # "calendar-year" /\ scope # <<>>
  THEN Failure("invalid_ref")
  ELSE [code |-> "ok",
        value |-> FormatSequentialParts(d.prefix, scope, sequence,
                    CalculateCheckSymbol(SequentialRadix, scope \o sequence))]

-----------------------------------------------------------------------------
(* Reading *)

\* split("-")
Split(text) ==
  Loop([groups \in Seq(Seq(ReferenceSymbols)) |-> [c \in ReferenceSymbols |->
          IF c = Hyphen THEN Append(groups, <<>>)
          ELSE [groups EXCEPT ![Len(groups)] = Append(@, c)]]],
       <<<<>>>>, text)

\* replaceAll("-", "")
WithoutHyphens(text) ==
  Loop([kept \in Seq(ReferenceSymbols) |-> [c \in ReferenceSymbols |->
          IF c = Hyphen THEN kept ELSE Append(kept, c)]],
       <<>>, text)

\* No hyphens at all, or the canonical ones.
ValidHyphenation(body, groupLengths) ==
  \/ Hyphen \notin ToSet(body)
  \/ [i \in DOMAIN Split(body) |-> Len(Split(body)[i])] = groupLengths

\* 4-4-2-1 for a payload of ten symbols.
RandomGroups(payloadLength) ==
  LET full == payloadLength \div GroupLength
      rest == payloadLength % GroupLength
  IN [i \in 1..full |-> GroupLength] \o (IF rest = 0 THEN <<>> ELSE <<rest>>) \o <<1>>

\* Mutant: L is not taken for 1.
AliasButL(symbol) ==
  CASE symbol = "O" -> "0" [] symbol = "I" -> "1" [] OTHER -> symbol

Alias(symbol) ==
  CASE symbol = "O" -> "0" [] symbol \in {"I", "L"} -> "1" [] OTHER -> symbol
NormalizePayload(payload) == [i \in DOMAIN payload |-> Alias(payload[i])]

ParseRandomReference(body, d) ==
  LET symbols == WithoutHyphens(body)
      payload == NormalizePayload(Front(symbols))
      check == Last(symbols)
  IN IF Len(symbols) # d.payloadLength + 1 THEN Failure("invalid_ref_length")
     ELSE IF ~ValidHyphenation(body, RandomGroups(d.payloadLength))
     THEN Failure("invalid_ref")
     ELSE IF \/ ~ToSet(payload) \subseteq DataSymbols
             \/ check \notin CheckSymbols
     THEN Failure("invalid_ref_symbol")
     ELSE IF CalculateCheckSymbol(RandomRadix, payload) # check
     THEN Failure("invalid_checksum")
     ELSE [code |-> "ok", namespace |-> d.public,
           value |-> FormatReference(d.prefix, payload, check)]

ParseSequentialReference(body, d) ==
  LET scopeLength == IF d.scope = "calendar-year" THEN ScopeLength ELSE 0
      symbols == WithoutHyphens(body)
      payload == Front(symbols)
      check == Last(symbols)
  IN IF Len(symbols) # scopeLength + d.width + 1 THEN Failure("invalid_ref_length")
     ELSE IF ~ValidHyphenation(body,
                IF scopeLength = 0 THEN <<d.width, 1>> ELSE <<scopeLength, d.width, 1>>)
     THEN Failure("invalid_ref")
     ELSE IF ~ToSet(payload) \subseteq Digits \/ check \notin CheckSymbols
     THEN Failure("invalid_ref_symbol")
     ELSE IF CalculateCheckSymbol(SequentialRadix, payload) # check
     THEN Failure("invalid_checksum")
     ELSE [code |-> "ok", namespace |-> d.public,
           value |-> FormatSequentialParts(d.prefix, SubSeq(payload, 1, scopeLength),
                       SubSeq(payload, scopeLength + 1, Len(payload)), check)]

\* The places of the namespaces a text may belong to: their prefix stands
\* before its first hyphen, or it has none and starts with their prefix.
\* Prefixes are letters, so a hyphen behind one is the first.
Candidates(text, definitions) ==
  {i \in DOMAIN definitions :
     /\ HasReference(definitions[i])
     /\ LET prefix == definitions[i].prefix IN
        IF Hyphen \in ToSet(text) THEN IsPrefix(Append(prefix, Hyphen), text)
                                  ELSE IsPrefix(prefix, text)}

\* locateNamespace takes the first of them.
ParseReference(text, definitions) ==
  LET upper == UpperCase(text)
      places == Candidates(upper, definitions)
      d == definitions[CHOOSE i \in places : \A j \in places : i <= j]
      skipped == Len(d.prefix) + (IF Hyphen \in ToSet(text) THEN 1 ELSE 0)
      body == SubSeq(upper, skipped + 1, Len(upper))
  IN IF Len(text) \notin 1..MaxLength \/ ~ToSet(text) \subseteq ReferenceSymbols
     THEN Failure("invalid_ref")
     ELSE IF places = {} THEN Failure("unknown_namespace")
     ELSE IF d.strategy = "sequence" THEN ParseSequentialReference(body, d)
     ELSE ParseRandomReference(body, d)

-----------------------------------------------------------------------------
(* The service's view of a text. *)

\* The pattern [a-z]{2,8} followed by a hyphen or a digit stands for a
\* reference.  A text of these lengths is no UUID.
DetectIdentifierKind(text) ==
  LET upper == UpperCase(text)
      letters == {n \in 0..Len(upper) : ToSet(SubSeq(upper, 1, n)) \subseteq Letters}
      n == CHOOSE n \in letters : n + 1 \notin letters
  IN IF "_" \in ToSet(text) THEN "pid"
     ELSE IF /\ n \in PrefixLengths /\ n < Len(upper)
             /\ upper[n + 1] \in Digits \cup {Hyphen}
     THEN "ref"
     ELSE "unknown"

\* parse, normalize and validate: the classification, then the parser.  What
\* has an underscore and is no longer than a reference is no PID.
ParseIdentifier(text, definitions) ==
  CASE DetectIdentifierKind(text) = "ref" -> ParseReference(text, definitions)
    [] DetectIdentifierKind(text) = "pid" -> Failure("invalid_pid")
    [] OTHER -> Failure("invalid_kind")

\* Mutant: only an unknown namespace is not recognized.
InspectOptimist(text, definitions) ==
  LET parsed == ParseIdentifier(text, definitions) IN
  [valid |-> Succeeds(parsed),
   code |-> parsed.code,
   registryRecognized |-> parsed.code # "unknown_namespace",
   checksumValid |-> IF Succeeds(parsed) THEN {TRUE}
                     ELSE IF parsed.code = "invalid_checksum" THEN {FALSE} ELSE {}]

\* inspect: registryRecognized is derived from the error code, checksumValid is
\* left out ({}) where no check symbol was compared.
Inspect(text, definitions) ==
  LET parsed == ParseIdentifier(text, definitions) IN
  [valid |-> Succeeds(parsed),
   code |-> parsed.code,
   registryRecognized |->
     /\ DetectIdentifierKind(text) = "ref"
     /\ parsed.code \notin {"invalid_ref", "unknown_namespace"},
   checksumValid |-> IF Succeeds(parsed) THEN {TRUE}
                     ELSE IF parsed.code = "invalid_checksum" THEN {FALSE} ELSE {}]

-----------------------------------------------------------------------------
(* What the adapters look a reference up by. *)

Number(digits) ==
  Loop([n \in Nat |-> [c \in Digits |-> 10 * n + ValueOf[c]]], 0, digits)

\* parseSequentialReference of sql-storage.ts: the parts, or none.
SqlParts(reference) ==
  LET groups == Split(reference)
      n == Len(groups)
      scope == IF n = 4 THEN groups[2] ELSE <<>>
      sequence == groups[n - 1]
  IN IF /\ n \in {3, 4}
        /\ Len(groups[1]) \in PrefixLengths /\ ToSet(groups[1]) \subseteq Letters
        /\ n = 4 => Len(scope) = ScopeLength /\ ToSet(scope) \subseteq Digits
        /\ Len(sequence) \in ValidWidths /\ ToSet(sequence) \subseteq Digits
        /\ Len(groups[n]) = 1 /\ groups[n][1] \in CheckSymbols \cup Letters
     THEN {[prefix |-> groups[1], scope |-> scope, sequence |-> Number(sequence)]}
     ELSE {}
=============================================================================
