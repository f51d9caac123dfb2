-------------------------- MODULE MCReferenceReading --------------------------
(* An instance of ReferenceReading for TLC. *)
EXTENDS ReferenceReading, TLC

MCPublicPrefixes == {"order", "ticket", "invoice", "job", "tag"}

\* The lengths of the code, halved; a compact payload still looks like a scope
\* and a sequence.
MCProfileLengths == "compact" :> 4 @@ "standard" :> 5

Random(public, prefix, profile) ==
  [public |-> public, strategy |-> "random", prefix |-> prefix, profile |-> profile]
Sequential(public, prefix, scope, width) ==
  [public |-> public, strategy |-> "sequence", prefix |-> prefix, scope |-> scope,
   width |-> width]

\* Good definitions of every strategy, two of them with prefixes that start one
\* another, and one of each kind createNamespaceRegistry refuses.
MCDefinitions ==
  {Random("order", <<"A", "B">>, "compact"),
   Random("ticket", <<"A", "B", "C">>, Unset),
   Sequential("invoice", <<"I", "N">>, "calendar-year", 2),
   Sequential("job", <<"A", "C">>, Unset, 3),
   [public |-> "tag", strategy |-> "none"],
   Random("order", <<"O", "X">>, "compact"),
   Random("tag", <<"I", "N">>, "standard"),
   Random("tag", <<"X">>, "compact"),
   Random("tag", <<"X", "Y">>, "low"),
   Random("Tag", <<"X", "Y">>, "compact"),
   Sequential("tag", <<"X", "Y">>, "none", 4),
   [public |-> "tag", strategy |-> "uuid", prefix |-> <<"X", "Y">>]}

\* A compact and a standard payload, with the symbols that have aliases.
MCByteStrings == {<<12, 0, 255, 33>>, <<12, 13, 14, 0, 33>>}
MCYears == {<<"2", "6">>, <<"2", "7">>}
=============================================================================
