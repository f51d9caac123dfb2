--------------------------- MODULE NamespaceRegistry ---------------------------
(***************************************************************************)
(* createNamespaceRegistry of packages/typescript/src/registry.ts, and the *)
(* exchange form of exchange.ts.  A definition is what a caller passes for *)
(* one namespace; a namespace without references has strategy "none".  The *)
(* registry is the sequence of registered definitions, in their order.     *)
(***************************************************************************)
EXTENDS CheckSymbol

CONSTANTS
  PublicPrefixes, \* the names TYPE_ID_PREFIX matches, among those in use
  PrefixLengths,  \* 2..8 in the code
  ProfileLengths, \* PROFILE_LENGTHS: profile -> payload length
  ValidWidths     \* 4..18 in the code

ASSUME RegistryAssumption ==
  /\ PrefixLengths \subseteq Nat \ {0} /\ ValidWidths \subseteq Nat \ {0}
  /\ "standard" \in DOMAIN ProfileLengths
  /\ \A profile \in DOMAIN ProfileLengths : ProfileLengths[profile] \in Nat \ {0}

\* A field the caller left out.
Unset == "undefined"

\* Mutant: every width is taken.
ReferenceErrorAnyWidth(d) ==
  IF d.strategy = "none" THEN "ok"
  ELSE IF ~(Len(d.prefix) \in PrefixLengths /\ ToSet(d.prefix) \subseteq Letters)
  THEN "invalid_ref_prefix"
  ELSE CASE d.strategy = "random" ->
              IF d.profile \in DOMAIN ProfileLengths \cup {Unset}
              THEN "ok" ELSE "invalid_namespace_definition"
         [] d.strategy = "sequence" -> "ok"
         [] OTHER -> "invalid_namespace_definition"

\* registerReference: the error of a reference definition, or "ok".
ReferenceError(d) ==
  IF d.strategy = "none" THEN "ok"
  ELSE IF ~(Len(d.prefix) \in PrefixLengths /\ ToSet(d.prefix) \subseteq Letters)
  THEN "invalid_ref_prefix"
  ELSE CASE d.strategy = "random" ->
              IF d.profile \in DOMAIN ProfileLengths \cup {Unset}
              THEN "ok" ELSE "invalid_namespace_definition"
         [] d.strategy = "sequence" ->
              IF d.width \in ValidWidths THEN "ok" ELSE "invalid_ref_length"
         [] OTHER -> "invalid_namespace_definition"

\* ... and the reference as it is registered, with its defaults.
Registered(d) ==
  LET given(field, default) == IF field = Unset THEN default ELSE field IN
  CASE d.strategy = "none" -> d
    [] d.strategy = "random" ->
         LET profile == given(d.profile, "standard") IN
         [public |-> d.public, strategy |-> "random", prefix |-> d.prefix,
          profile |-> profile, payloadLength |-> ProfileLengths[profile]]
    [] d.strategy = "sequence" ->
         [public |-> d.public, strategy |-> "sequence", prefix |-> d.prefix,
          scope |-> given(d.scope, "none"), width |-> d.width]

HasReference(d) == d.strategy # "none"

\* Mutant: a new prefix may start a registered one.
DefinitionErrorOneWay(definitions, d) ==
  LET others == {e \in ToSet(definitions) : HasReference(e)} IN
  IF d.public \notin PublicPrefixes THEN "invalid_public_prefix"
  ELSE IF \E e \in ToSet(definitions) : e.public = d.public
  THEN "duplicate_public_prefix"
  ELSE IF ReferenceError(d) # "ok" THEN ReferenceError(d)
  ELSE IF HasReference(d) /\ \E e \in others : IsPrefix(e.prefix, d.prefix)
  THEN "ambiguous_ref_prefix"
  ELSE "ok"

\* Mutant: equal prefixes are found, prefixes of prefixes are not.
DefinitionErrorEqual(definitions, d) ==
  LET others == {e \in ToSet(definitions) : HasReference(e)} IN
  IF d.public \notin PublicPrefixes THEN "invalid_public_prefix"
  ELSE IF \E e \in ToSet(definitions) : e.public = d.public
  THEN "duplicate_public_prefix"
  ELSE IF ReferenceError(d) # "ok" THEN ReferenceError(d)
  ELSE IF HasReference(d) /\ \E e \in others : e.prefix = d.prefix
  THEN "duplicate_ref_prefix"
  ELSE "ok"

\* One round of the loop over the definitions: the error it throws, or "ok".
DefinitionError(definitions, d) ==
  LET others == {e \in ToSet(definitions) : HasReference(e)} IN
  IF d.public \notin PublicPrefixes THEN "invalid_public_prefix"
  ELSE IF \E e \in ToSet(definitions) : e.public = d.public
  THEN "duplicate_public_prefix"
  ELSE IF ReferenceError(d) # "ok" THEN ReferenceError(d)
  ELSE IF HasReference(d) /\ \E e \in others : e.prefix = d.prefix
  THEN "duplicate_ref_prefix"
  ELSE IF /\ HasReference(d)
          /\ \E e \in others : IsPrefix(e.prefix, d.prefix) \/ IsPrefix(d.prefix, e.prefix)
  THEN "ambiguous_ref_prefix"
  ELSE "ok"

\* The whole loop: the error of the first bad definition, or the registry.
CreateNamespaceRegistry(list) ==
  LET registered(n) == [i \in 1..n |-> Registered(list[i])]
      error(i) == DefinitionError(registered(i - 1), list[i])
      bad == {i \in DOMAIN list : error(i) # "ok"}
  IN IF bad = {} THEN [code |-> "ok", definitions |-> registered(Len(list))]
     ELSE [code |-> error(CHOOSE i \in bad : \A j \in bad : i <= j), definitions |-> <<>>]

\* exportRegistry: the definitions a registry can be created from again.
ExportRegistry(definitions) ==
  [i \in DOMAIN definitions |->
     LET d == definitions[i] IN
     IF d.strategy = "random"
     THEN [public |-> d.public, strategy |-> "random", prefix |-> d.prefix,
           profile |-> d.profile]
     ELSE d]

\* importRegistry of a list in the supported version of the format.
ImportRegistry(list) == CreateNamespaceRegistry(list)
=============================================================================
