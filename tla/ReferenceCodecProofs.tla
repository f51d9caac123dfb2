------------------------- MODULE ReferenceCodecProofs -------------------------
(***************************************************************************)
(* The loops of the reference codec, for payloads and texts of any length: *)
(* what is written is read back, a single mistake in a payload changes its *)
(* check symbol, and what a text is read as depends on its symbols alone.  *)
(***************************************************************************)
EXTENDS ReferenceCodec, SequenceTheorems, WellFoundedInduction, TLAPS

-----------------------------------------------------------------------------
(* Loops and induction over sequences *)

\* The least number of a set.
LEMMA LeastNumber ==
  ASSUME NEW T, T \subseteq Nat, T # {}
  PROVE  \E n \in T : \A m \in T : n <= m
  <1>1. PICK x \in T : \A y \in T : ~(<<y, x>> \in OpToRel(<, Nat))
    BY WFMin, NatLessThanWellFounded
  <1>2. \A y \in T : ~(y < x)
    BY <1>1 DEF OpToRel
  <1>3. QED
    BY <1>2

\* Induction over sequences: a set that has the empty one and every longer one has
\* all.
LEMMA SequenceInduction ==
  ASSUME NEW S, NEW T, <<>> \in T,
         \A s \in Seq(S), c \in S : s \in T => Append(s, c) \in T
  PROVE  Seq(S) \subseteq T
  <1> SUFFICES ASSUME NEW t \in Seq(S), t \notin T PROVE FALSE
    OBVIOUS
  <1> DEFINE Bad == {n \in Nat : \E s \in Seq(S) : Len(s) = n /\ s \notin T}
  <1>1. Bad \subseteq Nat /\ Bad # {}
    <2>1. Len(t) \in Nat
      OBVIOUS
    <2>2. QED
      BY <2>1
  <1>2. PICK n \in Bad : \A m \in Bad : n <= m
    <2> HIDE DEF Bad
    <2> QED BY <1>1, LeastNumber
  <1>3. PICK s \in Seq(S) : Len(s) = n /\ s \notin T
    BY <1>2
  <1>4. PICK r \in Seq(S), c \in S : s = Append(r, c)
    BY <1>3, SequenceEmptyOrAppend
  <1>5. r \notin T /\ Len(r) \in Nat /\ Len(r) < n
    BY <1>3, <1>4
  <1>6. Len(r) \in Bad
    BY <1>5
  <1>7. QED
    BY <1>2, <1>5, <1>6

\* f is the sequence of states of a loop ...
Runs(f, round, start, list) ==
  f = [i \in 0..Len(list) |-> IF i = 0 THEN start ELSE round[f[i - 1]][list[i]]]

\* ... and they are in V.
RunsIn(f, V, round, start, list) ==
  Runs(f, round, start, list) /\ \A i \in 0..Len(list) : f[i] \in V

\* g is one round further than f.
Further(g, f, round, list, c) == g[Len(list) + 1] = round[f[Len(list)]][c]

\* A loop over a longer list goes through the states of the shorter one.
LEMMA RunsOn ==
  ASSUME NEW V, NEW S, NEW round \in [V -> [S -> V]], NEW start \in V,
         NEW list \in Seq(S), NEW c \in S,
         NEW f, RunsIn(f, V, round, start, list)
  PROVE  \E g : RunsIn(g, V, round, start, Append(list, c)) /\ Further(g, f, round, list, c)
  <1> DEFINE n == Len(list)
             longer == Append(list, c)
             g == [i \in 0..n + 1 |-> IF i <= n THEN f[i] ELSE round[f[n]][c]]
  <1>1. /\ n \in Nat /\ Len(longer) = n + 1
        /\ \A i \in 1..n : longer[i] = list[i]
        /\ longer[n + 1] = c
    OBVIOUS
  <1>2. \A i \in 0..n : f[i] \in V
    BY DEF RunsIn
  <1>3. /\ \A i \in 0..n : f[i] = IF i = 0 THEN start ELSE round[f[i - 1]][list[i]]
    BY DEF Runs, RunsIn
  <1> HIDE DEF n, longer
  <1>4. round[f[n]][c] \in V
    BY <1>1, <1>2
  <1>5. /\ g = [i \in 0..n + 1 |-> g[i]]
        /\ \A i \in 0..n : g[i] = f[i]
        /\ g[n + 1] = round[f[n]][c]
    BY <1>1
  <1> HIDE DEF g
  <1>6. ASSUME NEW i \in 0..n + 1
        PROVE  /\ g[i] = IF i = 0 THEN start ELSE round[g[i - 1]][longer[i]]
               /\ g[i] \in V
    <2>1. CASE i = 0
      <3>1. 0 \in 0..n
        BY <1>1
      <3>2. QED
        BY <1>3, <1>5, <2>1, <3>1
    <2>2. CASE i \in 1..n
      <3>1. i \in 0..n /\ i - 1 \in 0..n /\ i # 0
        BY <1>1, <2>2
      <3>2. g[i] = f[i] /\ g[i - 1] = f[i - 1] /\ longer[i] = list[i] /\ f[i] \in V
        BY <1>1, <1>2, <1>5, <2>2, <3>1
      <3>3. QED
        BY <1>3, <3>1, <3>2
    <2>3. CASE i = n + 1
      <3>1. i # 0 /\ i - 1 = n /\ n \in 0..n
        BY <1>1, <2>3
      <3>2. g[n] = f[n]
        BY <1>5, <3>1
      <3>3. QED
        BY <1>1, <1>4, <1>5, <2>3, <3>1, <3>2
    <2>4. QED
      BY <1>1, <2>1, <2>2, <2>3
  <1>7. g = [i \in 0..n + 1 |-> IF i = 0 THEN start ELSE round[g[i - 1]][longer[i]]]
    BY <1>5, <1>6
  <1>8. RunsIn(g, V, round, start, longer)
    BY <1>1, <1>6, <1>7 DEF Runs, RunsIn
  <1>9. QED
    BY <1>5, <1>8 DEF n, longer, Further

\* Every loop has such states.
LEMMA LoopHasRun ==
  ASSUME NEW V, NEW S, NEW round \in [V -> [S -> V]], NEW start \in V
  PROVE  \A list \in Seq(S) : \E f : RunsIn(f, V, round, start, list)
  <1> DEFINE T == {list \in Seq(S) : \E f : RunsIn(f, V, round, start, list)}
  <1>1. <<>> \in T
    <2> DEFINE f == [i \in 0..0 |-> start]
    <2>1. f[0] = start /\ f = [i \in 0..0 |-> IF i = 0 THEN start ELSE round[f[i - 1]][<<>>[i]]]
      OBVIOUS
    <2> HIDE DEF f
    <2>2. Len(<<>>) = 0 /\ \A i \in 0..0 : i = 0
      OBVIOUS
    <2>3. RunsIn(f, V, round, start, <<>>)
      BY <2>1, <2>2 DEF Runs, RunsIn
    <2>4. QED
      BY <2>3
  <1>2. ASSUME NEW list \in Seq(S), NEW c \in S, list \in T
        PROVE  Append(list, c) \in T
    <2>1. PICK f : RunsIn(f, V, round, start, list)
      BY <1>2
    <2>2. \E g : RunsIn(g, V, round, start, Append(list, c))
      BY <2>1, RunsOn
    <2>3. QED
      BY <2>2
  <1>3. Seq(S) \subseteq T
    <2> HIDE DEF T
    <2> QED BY <1>1, <1>2, SequenceInduction
  <1>4. QED
    BY <1>3

\* Two runs of one loop are the same.
LEMMA RunIsUnique ==
  ASSUME NEW round, NEW start, NEW S, NEW list \in Seq(S),
         NEW f, Runs(f, round, start, list), NEW g, Runs(g, round, start, list)
  PROVE  f = g
  <1> DEFINE n == Len(list)
             Bad == {i \in 0..n : f[i] # g[i]}
  <1>1. n \in Nat
    OBVIOUS
  <1>2. /\ \A i \in 0..n : f[i] = IF i = 0 THEN start ELSE round[f[i - 1]][list[i]]
        /\ \A i \in 0..n : g[i] = IF i = 0 THEN start ELSE round[g[i - 1]][list[i]]
        /\ f = [i \in 0..n |-> f[i]] /\ g = [i \in 0..n |-> g[i]]
    BY DEF Runs
  <1> HIDE DEF n
  <1>3. ASSUME Bad # {} PROVE FALSE
    <2>1. PICK i \in Bad : \A j \in Bad : i <= j
      <3>1. Bad \subseteq Nat
        BY <1>1
      <3> HIDE DEF Bad
      <3>2. QED BY <1>3, <3>1, LeastNumber
    <2>2. i \in 0..n /\ f[i] # g[i]
      BY <2>1
    <2>3. i # 0
      BY <1>2, <2>2
    <2>4. i - 1 \in 0..n /\ i - 1 < i
      BY <1>1, <2>2, <2>3
    <2>5. i - 1 \notin Bad
      BY <1>1, <2>1, <2>2, <2>4
    <2>6. f[i - 1] = g[i - 1]
      BY <2>4, <2>5
    <2>7. QED
      BY <1>2, <2>2, <2>3, <2>6
  <1>4. \A i \in 0..n : f[i] = g[i]
    BY <1>3
  <1>5. QED
    BY <1>2, <1>4

\* A loop ends in the last state of its run.
LEMMA LoopIs ==
  ASSUME NEW round, NEW start, NEW S, NEW list \in Seq(S),
         NEW f, Runs(f, round, start, list)
  PROVE  Loop(round, start, list) = f[Len(list)]
  <1> DEFINE state == CHOOSE g : g = [i \in 0..Len(list) |->
                             IF i = 0 THEN start ELSE round[g[i - 1]][list[i]]]
  <1>1. state = [i \in 0..Len(list) |-> IF i = 0 THEN start ELSE round[state[i - 1]][list[i]]]
    <2>1. \E g : g = [i \in 0..Len(list) |-> IF i = 0 THEN start ELSE round[g[i - 1]][list[i]]]
      BY DEF Runs
    <2>2. QED
      BY <2>1
  <1>2. Loop(round, start, list) = state[Len(list)]
    BY DEF Loop
  <1> HIDE DEF state
  <1>3. Runs(state, round, start, list)
    BY <1>1 DEF Runs
  <1>4. state = f
    BY <1>3, RunIsUnique
  <1>5. QED
    BY <1>2, <1>4

\* What a loop is in, before and after one more round.
Rounds(round, start, V, S) ==
  /\ Loop(round, start, <<>>) = start
  /\ \A list \in Seq(S) : Loop(round, start, list) \in V
  /\ \A list \in Seq(S) : \A c \in S :
       Loop(round, start, Append(list, c)) = round[Loop(round, start, list)][c]

\* A loop starts at start and makes one round for each further item.
LEMMA LoopSteps ==
  ASSUME NEW V, NEW S, NEW round \in [V -> [S -> V]], NEW start \in V
  PROVE  Rounds(round, start, V, S)
  <1>1. Loop(round, start, <<>>) = start
    <2>1. <<>> \in Seq(S) /\ Len(<<>>) = 0
      OBVIOUS
    <2>2. PICK f : RunsIn(f, V, round, start, <<>>)
      BY <2>1, LoopHasRun
    <2>3. f[0] = start
      BY <2>1, <2>2 DEF Runs, RunsIn
    <2>4. Loop(round, start, <<>>) = f[Len(<<>>)]
      BY <2>1, <2>2, LoopIs DEF RunsIn
    <2>5. QED
      BY <2>1, <2>3, <2>4
  <1>2. ASSUME NEW list \in Seq(S), NEW c \in S
        PROVE  /\ Loop(round, start, list) \in V
               /\ Loop(round, start, Append(list, c)) = round[Loop(round, start, list)][c]
    <2>1. PICK f : RunsIn(f, V, round, start, list)
      BY LoopHasRun
    <2>2. PICK g : RunsIn(g, V, round, start, Append(list, c)) /\ Further(g, f, round, list, c)
      BY <2>1, RunsOn
    <2>3. Append(list, c) \in Seq(S) /\ Len(list) \in Nat /\ Len(Append(list, c)) = Len(list) + 1
      OBVIOUS
    <2>4. Loop(round, start, list) = f[Len(list)]
      BY <2>1, LoopIs DEF RunsIn
    <2>5. Loop(round, start, Append(list, c)) = g[Len(Append(list, c))]
      BY <2>2, <2>3, LoopIs DEF RunsIn
    <2>6. f[Len(list)] \in V
      BY <2>1, <2>3 DEF RunsIn
    <2>7. QED
      BY <2>2, <2>3, <2>4, <2>5, <2>6 DEF Further
  <1>3. QED
    BY <1>1, <1>2 DEF Rounds

\* A loop over one item is one round.
LEMMA LoopOfOne ==
  ASSUME NEW V, NEW S, NEW round \in [V -> [S -> V]], NEW start \in V, NEW c \in S
  PROVE  Loop(round, start, <<c>>) = round[start][c]
  <1>1. Rounds(round, start, V, S)
    BY LoopSteps
  <1>2. <<>> \in Seq(S) /\ Append(<<>>, c) = <<c>>
    OBVIOUS
  <1>3. /\ Loop(round, start, <<>>) = start
        /\ Loop(round, start, Append(<<>>, c)) = round[Loop(round, start, <<>>)][c]
    BY <1>1, <1>2 DEF Rounds
  <1>4. QED
    BY <1>2, <1>3

\* What one round makes of a state and an item.
RoundOf(round, V, S) == round \in [V -> [S -> V]]

\* A loop over two lists goes on with the second where the first has ended.
LEMMA LoopOfTwo ==
  ASSUME NEW V, NEW S, NEW round, RoundOf(round, V, S), NEW start \in V,
         NEW s \in Seq(S), NEW t \in Seq(S)
  PROVE  Loop(round, start, s \o t) = Loop(round, Loop(round, start, s), t)
  <1> DEFINE middle == Loop(round, start, s)
             T == {u \in Seq(S) : Loop(round, start, s \o u) = Loop(round, middle, u)}
  <1>1. Rounds(round, start, V, S)
    BY LoopSteps DEF RoundOf
  <1>2. middle \in V
    BY <1>1 DEF Rounds
  <1> HIDE DEF middle
  <1>3. Rounds(round, middle, V, S)
    BY <1>2, LoopSteps DEF RoundOf
  <1>4. <<>> \in T
    <2>1. s \o <<>> = s /\ <<>> \in Seq(S)
      OBVIOUS
    <2>2. Loop(round, middle, <<>>) = middle
      BY <1>3 DEF Rounds
    <2>3. QED
      BY <2>1, <2>2 DEF middle
  <1>5. ASSUME NEW u \in Seq(S), NEW c \in S, u \in T PROVE Append(u, c) \in T
    <2>1. s \o Append(u, c) = Append(s \o u, c) /\ s \o u \in Seq(S) /\ Append(u, c) \in Seq(S)
      OBVIOUS
    <2>2. Loop(round, start, Append(s \o u, c)) = round[Loop(round, start, s \o u)][c]
      BY <1>1, <2>1 DEF Rounds
    <2>3. Loop(round, middle, Append(u, c)) = round[Loop(round, middle, u)][c]
      BY <1>3 DEF Rounds
    <2>4. QED
      BY <1>5, <2>1, <2>2, <2>3
  <1>6. Seq(S) \subseteq T
    <2> HIDE DEF T
    <2> QED BY <1>4, <1>5, SequenceInduction
  <1>7. QED
    BY <1>6 DEF middle

-----------------------------------------------------------------------------
(* The symbols *)

\* The symbols of a text that is read: no hyphen among the others.
Others == ReferenceSymbols \ {Hyphen}
\* One symbol as toUpperCase and toLowerCase leave it.
Cap(c) == IF c \in DOMAIN Capital THEN Capital[c] ELSE c
Low(c) == IF c \in DOMAIN Small THEN Small[c] ELSE c

\* The letters, one by one.
LEMMA LetterSets ==
  /\ Letters = {"A", "B", "C", "D", "E", "F", "G", "H", "I", "J", "K", "L", "M",
                "N", "O", "P", "Q", "R", "S", "T", "U", "V", "W", "X", "Y", "Z"}
  /\ DOMAIN Capital = {"a", "b", "c", "d", "e", "f", "g", "h", "i", "j", "k", "l", "m",
                "n", "o", "p", "q", "r", "s", "t", "u", "v", "w", "x", "y", "z"}
  /\ ToSet(SmallLetters) = DOMAIN Capital
  /\ DOMAIN Small = Letters
  BY DEF Letters, Capital, Small, ToSet, CapitalLetters, SmallLetters

\* The data alphabet, one by one; it has no symbol twice.
LEMMA DataSets ==
  /\ DataSymbols = {"0", "1", "2", "3", "4", "5", "6", "7", "8", "9", "A", "B", "C", "D",
        "E", "F", "G", "H", "J", "K", "M", "N", "P", "Q", "R", "S", "T", "V", "W", "X",
        "Y", "Z"}
  /\ Len(DataAlphabet) = 32 /\ DataAlphabet \in Seq(DataSymbols)
  /\ \A i, j \in 1..32 : DataAlphabet[i] = DataAlphabet[j] => i = j
  /\ \A i \in 1..32 : DataAlphabet[i] \in DataSymbols
  /\ \A c \in DataSymbols : \E i \in 1..32 : DataAlphabet[i] = c
  <1>1. DataSymbols = {"0", "1", "2", "3", "4", "5", "6", "7", "8", "9", "A", "B", "C", "D",
        "E", "F", "G", "H", "J", "K", "M", "N", "P", "Q", "R", "S", "T", "V", "W", "X",
        "Y", "Z"}
    BY DEF DataSymbols, ToSet, DataAlphabet
  <1>2. Len(DataAlphabet) = 32 /\ DOMAIN DataAlphabet = 1..32
    BY DEF DataAlphabet
  <1>3. \A i, j \in 1..32 : DataAlphabet[i] = DataAlphabet[j] => i = j
    BY DEF DataAlphabet
  <1>4. DataSymbols = {DataAlphabet[i] : i \in 1..32}
    BY <1>2 DEF DataSymbols, ToSet
  <1>5. DataAlphabet = [i \in 1..32 |-> DataAlphabet[i]]
    BY DEF DataAlphabet
  <1>6. DataAlphabet \in Seq(DataSymbols)
    BY <1>4, <1>5
  <1>7. QED
    BY <1>1, <1>2, <1>3, <1>4, <1>6

\* The digits, one by one.
LEMMA DigitSet ==
  /\ Digits = {"0", "1", "2", "3", "4", "5", "6", "7", "8", "9"}
  /\ Digits \subseteq DataSymbols
  <1>1. Digits = {"0", "1", "2", "3", "4", "5", "6", "7", "8", "9"}
    BY DEF Digits, DataAlphabet
  <1>2. QED
    BY <1>1, DataSets

\* The places of two sequences in a row.
LEMMA Concatenation ==
  ASSUME NEW S, NEW s \in Seq(S), NEW t \in Seq(S)
  PROVE  /\ s \o t \in Seq(S) /\ Len(s \o t) = Len(s) + Len(t)
         /\ \A i \in 1..Len(s) : (s \o t)[i] = s[i]
         /\ \A i \in 1..Len(t) : (s \o t)[Len(s) + i] = t[i]
  OBVIOUS

\* The check alphabet is the data alphabet and five more symbols, none twice.
LEMMA CheckSets ==
  /\ CheckSymbols = DataSymbols \cup {"*", "~", "$", "=", "U"}
  /\ Len(CheckAlphabet) = 37
  /\ \A i, j \in 1..37 : CheckAlphabet[i] = CheckAlphabet[j] => i = j
  /\ \A i \in 1..37 : CheckAlphabet[i] \in CheckSymbols
  /\ \A i \in 1..32 : CheckAlphabet[i] = DataAlphabet[i]
  <1> DEFINE last == <<"*", "~", "$", "=", "U">>
             all == <<"0", "1", "2", "3", "4", "5", "6", "7", "8", "9", "A", "B", "C", "D", "E", "F",
    "G", "H", "J", "K", "M", "N", "P", "Q", "R", "S", "T", "V", "W", "X", "Y", "Z", "*", "~", "$", "=", "U">>
  <1>1. DOMAIN CheckAlphabet = 1..37 /\ Len(CheckAlphabet) = 37 /\ CheckAlphabet = all
    <2> HIDE DEF all
    <2>1. Len(DataAlphabet) = 32 /\ DataAlphabet \in Seq(DataSymbols)
      BY DataSets
    <2>2. Len(last) = 5 /\ last \in Seq({"*", "~", "$", "=", "U"})
      OBVIOUS
    <2>3. CheckAlphabet = DataAlphabet \o last
      BY DEF CheckAlphabet
    <2> HIDE DEF last
    <2>4. /\ Len(CheckAlphabet) = 37 /\ CheckAlphabet = [i \in 1..37 |-> CheckAlphabet[i]]
          /\ \A i \in 1..32 : CheckAlphabet[i] = DataAlphabet[i]
          /\ \A i \in 33..37 : CheckAlphabet[i] = last[i - 32]
      <3> DEFINE X == DataSymbols \cup {"*", "~", "$", "=", "U"}
      <3>1. DataAlphabet \in Seq(X) /\ last \in Seq(X)
        BY <2>1, <2>2
      <3> HIDE DEF X
      <3>2. /\ CheckAlphabet \in Seq(X) /\ Len(CheckAlphabet) = 37
            /\ \A i \in 1..32 : CheckAlphabet[i] = DataAlphabet[i]
            /\ \A i \in 1..5 : CheckAlphabet[32 + i] = last[i]
        <4>1. PICK a \in Seq(X), b \in Seq(X) : a = DataAlphabet /\ b = last
          BY <3>1
        <4>2. Len(a) = 32 /\ Len(b) = 5 /\ CheckAlphabet = a \o b
          BY <2>1, <2>2, <2>3, <4>1
        <4>3. /\ CheckAlphabet \in Seq(X) /\ Len(CheckAlphabet) = 37
              /\ \A i \in 1..32 : CheckAlphabet[i] = a[i]
              /\ \A i \in 1..5 : CheckAlphabet[32 + i] = b[i]
          <5>1. /\ a \o b \in Seq(X) /\ Len(a \o b) = Len(a) + Len(b)
                /\ \A i \in 1..Len(a) : (a \o b)[i] = a[i]
                /\ \A i \in 1..Len(b) : (a \o b)[Len(a) + i] = b[i]
            BY Concatenation
          <5>2. Len(a) + Len(b) = 37
            BY <4>2
          <5>3. Len(CheckAlphabet) = 37
            BY <4>2, <5>1, <5>2
          <5>4. \A i \in 1..32 : CheckAlphabet[i] = a[i]
            BY <4>2, <5>1
          <5>5. \A i \in 1..5 : CheckAlphabet[32 + i] = b[i]
            BY <4>2, <5>1
          <5> QED BY <4>2, <5>1, <5>3, <5>4, <5>5
        <4> QED BY <4>1, <4>3
      <3>3. \A i \in 33..37 : CheckAlphabet[i] = last[i - 32]
        <4>1. \A i \in 33..37 : i - 32 \in 1..5 /\ 32 + (i - 32) = i
          OBVIOUS
        <4> QED BY <3>2, <4>1, ZenonT(60)
      <3>4. CheckAlphabet = [i \in 1..37 |-> CheckAlphabet[i]]
        BY <3>2
      <3> QED BY <3>2, <3>3, <3>4
    <2>5. \A i \in 1..37 : CheckAlphabet[i] = all[i]
      BY <2>4 DEF last, all, DataAlphabet
    <2>6. all = [i \in 1..37 |-> all[i]]
      BY DEF all
    <2> QED BY <2>4, <2>5, <2>6
  <1>2. \A i, j \in 1..37 : all[i] = all[j] => i = j
    OBVIOUS
  <1>3. CheckSymbols = {all[i] : i \in 1..37}
    BY <1>1 DEF CheckSymbols, ToSet
  <1>4. {all[i] : i \in 1..37} = DataSymbols \cup {"*", "~", "$", "=", "U"}
    BY DataSets
  <1>5. \A i \in 1..32 : all[i] = DataAlphabet[i]
    BY DEF DataAlphabet
  <1>6. QED
    BY <1>1, <1>2, <1>3, <1>4, <1>5

\* How the sets of symbols lie in one another.
LEMMA SymbolSets ==
  /\ DataSymbols \subseteq CheckSymbols /\ Digits \subseteq DataSymbols
  /\ CheckSymbols \subseteq Others /\ Letters \subseteq Others
  /\ Others \subseteq ReferenceSymbols /\ Hyphen \in ReferenceSymbols /\ Hyphen \notin Others
  /\ "_" \notin CheckSymbols /\ "_" \notin Letters /\ "_" # Hyphen
  /\ CheckSymbols \cap DOMAIN Capital = {} /\ Letters \cap DOMAIN Capital = {}
  /\ Hyphen \notin DOMAIN Capital /\ "_" \notin DOMAIN Capital
  /\ ReferenceSymbols = CheckSymbols \cup Letters \cup DOMAIN Capital \cup {"_", Hyphen}
  <1>1. Hyphen = "-"
    BY DEF Hyphen
  <1>2. ReferenceSymbols = CheckSymbols \cup Letters \cup DOMAIN Capital \cup {"_", Hyphen}
    BY LetterSets DEF ReferenceSymbols
  <1>3. DataSymbols \subseteq CheckSymbols /\ Digits \subseteq DataSymbols
    BY CheckSets, DigitSet
  <1>4. Hyphen \notin DataSymbols /\ "_" \notin DataSymbols /\ DataSymbols \cap DOMAIN Capital = {}
    BY <1>1, DataSets, LetterSets
  <1>5. Hyphen \notin CheckSymbols /\ "_" \notin CheckSymbols /\ CheckSymbols \cap DOMAIN Capital = {}
    BY <1>1, <1>4, CheckSets, LetterSets
  <1>6. /\ Hyphen \notin Letters /\ "_" \notin Letters /\ Letters \cap DOMAIN Capital = {}
        /\ Hyphen \notin DOMAIN Capital /\ "_" \notin DOMAIN Capital /\ "_" # Hyphen
    BY <1>1, LetterSets
  <1>7. QED
    BY <1>2, <1>3, <1>5, <1>6 DEF Others

\* Each small letter has its capital, and the other way round.
LEMMA LetterCase ==
  /\ \A x \in DOMAIN Capital : Capital[x] \in Letters
  /\ \A x \in Letters : Small[x] \in DOMAIN Capital /\ Capital[Small[x]] = x
  <1>1. /\ \A i, j \in 1..26 : SmallLetters[i] = SmallLetters[j] => i = j
        /\ Len(SmallLetters) = 26
    BY DEF SmallLetters
  <1>2. /\ \A i, j \in 1..26 : CapitalLetters[i] = CapitalLetters[j] => i = j
        /\ Len(CapitalLetters) = 26
    BY DEF CapitalLetters
  <1>3. DOMAIN Capital = {SmallLetters[i] : i \in 1..26}
    BY <1>1, LetterSets DEF ToSet, SmallLetters
  <1>4. Letters = {CapitalLetters[i] : i \in 1..26}
    BY <1>2 DEF Letters, ToSet, CapitalLetters
  <1>5. ASSUME NEW i \in 1..26 PROVE Capital[SmallLetters[i]] = CapitalLetters[i]
    <2>1. SmallLetters[i] \in DOMAIN Capital
      BY <1>3
    <2>2. (CHOOSE j \in 1..26 : SmallLetters[j] = SmallLetters[i]) = i
      BY <1>1
    <2>3. QED
      BY <2>1, <2>2 DEF Capital
  <1>6. ASSUME NEW i \in 1..26 PROVE Small[CapitalLetters[i]] = SmallLetters[i]
    <2>1. CapitalLetters[i] \in DOMAIN Small
      BY <1>4, LetterSets
    <2>2. (CHOOSE j \in 1..26 : CapitalLetters[j] = CapitalLetters[i]) = i
      BY <1>2
    <2>3. QED
      BY <2>1, <2>2 DEF Small
  <1>7. ASSUME NEW x \in DOMAIN Capital PROVE Capital[x] \in Letters
    <2>1. PICK i \in 1..26 : x = SmallLetters[i]
      BY <1>3
    <2>2. Capital[x] = CapitalLetters[i]
      BY <1>5, <2>1
    <2>3. QED
      BY <1>4, <2>2
  <1>8. ASSUME NEW x \in Letters PROVE Small[x] \in DOMAIN Capital /\ Capital[Small[x]] = x
    <2>1. PICK i \in 1..26 : x = CapitalLetters[i]
      BY <1>4
    <2>2. Small[x] = SmallLetters[i] /\ Capital[SmallLetters[i]] = x
      BY <1>5, <1>6, <2>1
    <2>3. SmallLetters[i] \in DOMAIN Capital
      BY <1>3
    <2>4. QED
      BY <2>2, <2>3
  <1>9. QED
    BY <1>7, <1>8

\* Capitals have no capitals, and the hyphen has no case.
LEMMA Case ==
  /\ \A x \in ReferenceSymbols :
       /\ Cap(x) \in ReferenceSymbols /\ Low(x) \in ReferenceSymbols
       /\ Cap(x) = Hyphen <=> x = Hyphen
       /\ Cap(Cap(x)) = Cap(x) /\ Cap(Low(x)) = Cap(x)
  /\ \A x \in CheckSymbols \cup Letters \cup {Hyphen} : Cap(x) = x
  /\ \A x : Cap(x) = Hyphen => x = Hyphen
  <1>1. \A x \in CheckSymbols \cup Letters \cup {Hyphen} : Cap(x) = x
    BY SymbolSets DEF Cap
  <1>2. \A x \in DOMAIN Capital : Cap(x) \in Letters
    BY LetterCase DEF Cap
  <1>3. \A x : Cap(x) = Hyphen => x = Hyphen
    BY <1>2, SymbolSets DEF Cap
  <1>4. ASSUME NEW x \in ReferenceSymbols
        PROVE  /\ Cap(x) \in ReferenceSymbols /\ Low(x) \in ReferenceSymbols
               /\ Cap(x) = Hyphen <=> x = Hyphen
               /\ Cap(Cap(x)) = Cap(x) /\ Cap(Low(x)) = Cap(x)
    <2>1. Cap(x) \in ReferenceSymbols /\ Cap(Cap(x)) = Cap(x)
      BY <1>1, <1>2, SymbolSets DEF Cap
    <2>2. Low(x) \in ReferenceSymbols /\ Cap(Low(x)) = Cap(x)
      <3>1. CASE x \in Letters
        BY <1>1, <3>1, LetterCase, LetterSets, SymbolSets DEF Low, Cap
      <3>2. CASE x \notin Letters
        BY <3>2, LetterSets DEF Low
      <3> QED BY <3>1, <3>2
    <2>3. QED
      BY <1>1, <1>3, <2>1, <2>2
  <1>5. QED
    BY <1>1, <1>3, <1>4

\* Digits and letters are no look-alikes of a hyphen, and check symbols have no
\* look-alikes in their place.
LEMMA Aliases ==
  /\ \A x \in ReferenceSymbols : Alias(x) \in ReferenceSymbols
  /\ \A x : Alias(x) = Hyphen <=> x = Hyphen
  /\ \A x \in CheckSymbols : Alias(x) = x
  <1>1. "0" \in CheckSymbols /\ "1" \in CheckSymbols
    BY DataSets, CheckSets
  <1>2. \A x \in CheckSymbols : x \notin {"O", "I", "L"}
    <2>1. \A x \in DataSymbols : x \notin {"O", "I", "L"}
      BY DataSets
    <2> QED BY <2>1, CheckSets
  <1>3. \A x : Alias(x) = IF x = "O" THEN "0" ELSE IF x \in {"I", "L"} THEN "1" ELSE x
    BY DEF Alias
  <1>4. QED
    BY <1>1, <1>2, <1>3, SymbolSets DEF Hyphen

-----------------------------------------------------------------------------
(* Texts with and without hyphens *)

\* A sequence is the function on its places.
LEMMA ByPlaces ==
  ASSUME NEW S, NEW s \in Seq(S)
  PROVE  s = [i \in 1..Len(s) |-> s[i]]
  OBVIOUS

\* The places of a sequence with one more symbol.
LEMMA Appended ==
  ASSUME NEW S, NEW s \in Seq(S), NEW c \in S
  PROVE  Append(s, c) = [i \in 1..Len(s) + 1 |-> IF i = Len(s) + 1 THEN c ELSE s[i]]
  <1>1. Append(s, c) \in Seq(S) /\ Len(Append(s, c)) = Len(s) + 1 /\ Len(s) \in Nat
    OBVIOUS
  <1>2. Append(s, c) = [i \in 1..Len(s) + 1 |-> Append(s, c)[i]]
    <2>1. PICK t \in Seq(S) : t = Append(s, c)
      BY <1>1
    <2>2. t = [i \in 1..Len(t) |-> t[i]]
      BY ByPlaces
    <2> QED BY <1>1, <2>1, <2>2
  <1>3. \A i \in 1..Len(s) + 1 : Append(s, c)[i] = IF i = Len(s) + 1 THEN c ELSE s[i]
    OBVIOUS
  <1>4. QED
    BY <1>2, <1>3

\* The last symbol replaced.
LEMMA LastReplaced ==
  ASSUME NEW S, NEW s \in Seq(S), NEW c \in S, NEW d \in S
  PROVE  [Append(s, c) EXCEPT ![Len(Append(s, c))] = d] = Append(s, d)
  <1>1. /\ Append(s, c) = [i \in 1..Len(s) + 1 |-> IF i = Len(s) + 1 THEN c ELSE s[i]]
        /\ Append(s, d) = [i \in 1..Len(s) + 1 |-> IF i = Len(s) + 1 THEN d ELSE s[i]]
    BY Appended
  <1>2. Len(Append(s, c)) = Len(s) + 1
    OBVIOUS
  <1>3. [Append(s, c) EXCEPT ![Len(s) + 1] = d]
          = [i \in 1..Len(s) + 1 |-> IF i = Len(s) + 1 THEN d ELSE s[i]]
    BY <1>1
  <1>4. QED
    BY <1>1, <1>2, <1>3

\* One symbol behind another.
LEMMA PairAppended ==
  ASSUME NEW c, NEW d
  PROVE  Append(<<c>>, d) = <<c, d>>
  <1>1. <<c>> \in Seq({c, d}) /\ d \in {c, d} /\ Len(<<c>>) = 1
    OBVIOUS
  <1>2. Append(<<c>>, d) = [i \in 1..Len(<<c>>) + 1 |-> IF i = Len(<<c>>) + 1 THEN d ELSE <<c>>[i]]
    BY <1>1, Appended
  <1>3. [i \in 1..1 + 1 |-> IF i = 1 + 1 THEN d ELSE <<c>>[i]] = <<c, d>>
    OBVIOUS
  <1>4. QED
    BY <1>1, <1>2, <1>3, Zenon

\* Appending to the second of two sequences is appending to both.
LEMMA AppendToSecond ==
  ASSUME NEW S, NEW s \in Seq(S), NEW t \in Seq(S), NEW c \in S
  PROVE  s \o Append(t, c) = Append(s \o t, c)
  OBVIOUS

\* A sequence over a set is one over a larger set.
LEMMA LargerSet ==
  ASSUME NEW S, NEW T, S \subseteq T, NEW s \in Seq(S)
  PROVE  s \in Seq(T)
  OBVIOUS

\* Every symbol of a text is a hyphen or another one.
LEMMA HyphenAndOthers ==
  /\ Hyphen \in ReferenceSymbols /\ Hyphen \notin Others
  /\ Others \subseteq ReferenceSymbols
  /\ \A s \in Seq(Others) : s \in Seq(ReferenceSymbols)
  BY SymbolSets, LargerSet

\* WithoutHyphens, symbol by symbol (replaceAll, reference.ts:194).
LEMMA HyphensDropped ==
  /\ WithoutHyphens(<<>>) = <<>>
  /\ \A s \in Seq(ReferenceSymbols) : WithoutHyphens(s) \in Seq(Others)
  /\ \A s \in Seq(ReferenceSymbols) : WithoutHyphens(Append(s, Hyphen)) = WithoutHyphens(s)
  /\ \A s \in Seq(ReferenceSymbols), c \in Others :
       WithoutHyphens(Append(s, c)) = Append(WithoutHyphens(s), c)
  <1> DEFINE S == ReferenceSymbols
             round == [kept \in Seq(S) |-> [c \in S |->
                         IF c = Hyphen THEN kept ELSE Append(kept, c)]]
  <1>1. \A s : WithoutHyphens(s) = Loop(round, <<>>, s)
    BY DEF WithoutHyphens
  <1>2. round \in [Seq(S) -> [S -> Seq(S)]] /\ <<>> \in Seq(S)
    OBVIOUS
  <1>3. \A kept \in Seq(S), c \in S :
          round[kept][c] = IF c = Hyphen THEN kept ELSE Append(kept, c)
    OBVIOUS
  <1>4. Hyphen \in S /\ Others \subseteq S /\ Hyphen \notin Others
    BY SymbolSets
  <1> HIDE DEF S, round
  <1>5. Rounds(round, <<>>, Seq(S), S)
    BY <1>2, LoopSteps
  <1>6. /\ WithoutHyphens(<<>>) = <<>>
        /\ \A s \in Seq(S) : WithoutHyphens(s) \in Seq(S)
        /\ \A s \in Seq(S), c \in S :
             WithoutHyphens(Append(s, c)) =
               IF c = Hyphen THEN WithoutHyphens(s) ELSE Append(WithoutHyphens(s), c)
    BY <1>1, <1>3, <1>5 DEF Rounds
  <1> DEFINE T == {s \in Seq(S) : WithoutHyphens(s) \in Seq(Others)}
  <1>7. Seq(S) \subseteq T
    <2>1. <<>> \in T
      <3>1. <<>> \in Seq(S) /\ <<>> \in Seq(Others)
        OBVIOUS
      <3> QED BY <1>6, <3>1
    <2>2. ASSUME NEW s \in Seq(S), NEW c \in S, s \in T PROVE Append(s, c) \in T
      <3>1. CASE c = Hyphen
        BY <1>6, <2>2, <3>1
      <3>2. CASE c # Hyphen
        <4>1. c \in Others
          BY <3>2 DEF Others, S
        <4>2. Append(WithoutHyphens(s), c) \in Seq(Others)
          BY <2>2, <4>1
        <4>3. WithoutHyphens(Append(s, c)) = Append(WithoutHyphens(s), c)
          BY <1>6, <3>2
        <4> QED BY <4>2, <4>3
      <3> QED BY <3>1, <3>2
    <2> HIDE DEF T
    <2> QED BY <2>1, <2>2, SequenceInduction
  <1>8. QED
    BY <1>4, <1>6, <1>7 DEF S

\* The texts of two parts.
LEMMA HyphensDroppedFromBoth ==
  ASSUME NEW s \in Seq(ReferenceSymbols), NEW t \in Seq(ReferenceSymbols)
  PROVE  WithoutHyphens(s \o t) = WithoutHyphens(s) \o WithoutHyphens(t)
  <1> DEFINE S == ReferenceSymbols
             T == {u \in Seq(S) : WithoutHyphens(s \o u)
                                    = WithoutHyphens(s) \o WithoutHyphens(u)}
  <1>1. <<>> \in T
    <2>1. WithoutHyphens(s) \in Seq(Others)
      BY HyphensDropped
    <2>2. s \o <<>> = s /\ <<>> \in Seq(S)
      OBVIOUS
    <2>3. WithoutHyphens(s) \o <<>> = WithoutHyphens(s)
      BY <2>1
    <2> QED BY <2>2, <2>3, HyphensDropped
  <1>2. ASSUME NEW u \in Seq(S), NEW c \in S, u \in T PROVE Append(u, c) \in T
    <2>1. s \o Append(u, c) = Append(s \o u, c) /\ s \o u \in Seq(S) /\ Append(u, c) \in Seq(S)
      OBVIOUS
    <2>2. CASE c = Hyphen
      BY <1>2, <2>1, <2>2, HyphensDropped
    <2>3. CASE c # Hyphen
      <3>1. c \in Others
        BY <2>3 DEF Others
      <3>2. /\ WithoutHyphens(Append(s \o u, c)) = Append(WithoutHyphens(s \o u), c)
            /\ WithoutHyphens(Append(u, c)) = Append(WithoutHyphens(u), c)
        BY <2>1, <3>1, HyphensDropped
      <3>3. WithoutHyphens(s) \in Seq(Others) /\ WithoutHyphens(u) \in Seq(Others)
        BY HyphensDropped
      <3>4. Append(WithoutHyphens(s) \o WithoutHyphens(u), c)
              = WithoutHyphens(s) \o Append(WithoutHyphens(u), c)
        <4>1. PICK a \in Seq(Others), b \in Seq(Others) :
                a = WithoutHyphens(s) /\ b = WithoutHyphens(u)
          BY <3>3
        <4>2. a \o Append(b, c) = Append(a \o b, c)
          BY <3>1, AppendToSecond
        <4> QED BY <4>1, <4>2
      <3> QED BY <1>2, <2>1, <3>2, <3>4
    <2> QED BY <2>2, <2>3
  <1>3. Seq(S) \subseteq T
    <2> HIDE DEF T
    <2> QED BY <1>1, <1>2, SequenceInduction
  <1>4. QED
    BY <1>3

\* A text that has none loses none.
LEMMA NoHyphens ==
  ASSUME NEW s \in Seq(Others)
  PROVE  WithoutHyphens(s) = s /\ Hyphen \notin ToSet(s)
  <1> DEFINE T == {u \in Seq(Others) : WithoutHyphens(u) = u}
  <1>1. <<>> \in T
    BY HyphensDropped
  <1>2. ASSUME NEW u \in Seq(Others), NEW c \in Others, u \in T PROVE Append(u, c) \in T
    <2>1. u \in Seq(ReferenceSymbols)
      BY HyphenAndOthers
    <2>2. Append(u, c) \in Seq(Others)
      OBVIOUS
    <2> QED BY <1>2, <2>1, <2>2, HyphensDropped
  <1>3. Seq(Others) \subseteq T
    <2> HIDE DEF T
    <2> QED BY <1>1, <1>2, SequenceInduction
  <1>4. Hyphen \notin ToSet(s)
    <2>1. \A i \in DOMAIN s : s[i] \in Others
      OBVIOUS
    <2> QED BY <2>1, SymbolSets DEF ToSet
  <1>5. QED
    BY <1>3, <1>4

\* The lengths of the groups between the hyphens of a text.
GroupLengths(text) == [i \in DOMAIN Split(text) |-> Len(Split(text)[i])]
\* The last group has one symbol more.
OneLonger(lengths) == [lengths EXCEPT ![Len(lengths)] = @ + 1]

\* Split, symbol by symbol: a hyphen opens a new group.
LEMMA SplitSteps ==
  /\ Split(<<>>) = << <<>> >>
  /\ \A s \in Seq(ReferenceSymbols) :
       /\ Split(s) \in Seq(Seq(ReferenceSymbols)) /\ Len(Split(s)) >= 1
       /\ Split(Append(s, Hyphen)) = Append(Split(s), <<>>)
       /\ \A c \in Others :
            Split(Append(s, c)) = [Split(s) EXCEPT ![Len(Split(s))] = Append(@, c)]
  <1> DEFINE S == ReferenceSymbols
             V == Seq(Seq(S))
             round == [groups \in V |-> [c \in S |->
                         IF c = Hyphen THEN Append(groups, <<>>)
                         ELSE [groups EXCEPT ![Len(groups)] = Append(@, c)]]]
  <1>1. \A s : Split(s) = Loop(round, <<<<>>>>, s)
    BY DEF Split
  <1>2. ASSUME NEW groups \in V, NEW c \in S
        PROVE  /\ Append(groups, <<>>) \in V
               /\ [groups EXCEPT ![Len(groups)] = Append(@, c)] \in V
               /\ Len([groups EXCEPT ![Len(groups)] = Append(@, c)]) = Len(groups)
    <2>1. <<>> \in Seq(S)
      OBVIOUS
    <2> HIDE DEF S
    <2>2. Append(groups, <<>>) \in V
      BY <2>1
    <2> DEFINE n == Len(groups)
               new == [groups EXCEPT ![n] = Append(@, c)]
    <2>3. n \in Nat /\ groups \in [1..n -> Seq(S)]
      OBVIOUS
    <2>4. \A i \in 1..n : new[i] \in Seq(S)
      <3>1. \A i \in 1..n : groups[i] \in Seq(S)
        BY <2>3
      <3>2. \A i \in 1..n : Append(groups[i], c) \in Seq(S)
        BY <3>1
      <3>3. \A i \in 1..n : new[i] = IF i = n THEN Append(groups[n], c) ELSE groups[i]
        BY <2>3
      <3> QED BY <3>1, <3>2, <3>3
    <2>5. new = [i \in 1..n |-> new[i]]
      BY <2>3
    <2> HIDE DEF new
    <2>6. new \in V /\ Len(new) = n
      BY <2>3, <2>4, <2>5
    <2> QED BY <2>2, <2>6 DEF new
  <1>3. round \in [V -> [S -> V]] /\ <<<<>>>> \in V
    <2>1. \A groups \in V, c \in S : round[groups][c] \in V
      <3> HIDE DEF V
      <3> QED BY <1>2
    <2>2. <<<<>>>> \in V
      OBVIOUS
    <2> HIDE DEF V
    <2> QED BY <2>1, <2>2
  <1>4. \A groups \in V, c \in S :
          round[groups][c] = IF c = Hyphen THEN Append(groups, <<>>)
                             ELSE [groups EXCEPT ![Len(groups)] = Append(@, c)]
    <2> HIDE DEF V
    <2> QED OBVIOUS
  <1>5. Hyphen \in S /\ Others \subseteq S /\ Hyphen \notin Others
    BY SymbolSets
  <1>6. \A groups \in V : Len(groups) \in Nat /\ Len(Append(groups, <<>>)) = Len(groups) + 1
    OBVIOUS
  <1> HIDE DEF S, V, round
  <1>7. Rounds(round, <<<<>>>>, V, S)
    BY <1>3, LoopSteps
  <1>8. /\ Split(<<>>) = <<<<>>>>
        /\ \A s \in Seq(S) : Split(s) \in V
        /\ \A s \in Seq(S), c \in S :
             Split(Append(s, c)) =
               IF c = Hyphen THEN Append(Split(s), <<>>)
               ELSE [Split(s) EXCEPT ![Len(Split(s))] = Append(@, c)]
    <2>1. /\ Loop(round, <<<<>>>>, <<>>) = <<<<>>>>
          /\ \A s \in Seq(S) : Loop(round, <<<<>>>>, s) \in V
          /\ \A s \in Seq(S) : \A c \in S :
               Loop(round, <<<<>>>>, Append(s, c)) = round[Loop(round, <<<<>>>>, s)][c]
      BY <1>7 DEF Rounds
    <2>2. /\ Split(<<>>) = <<<<>>>>
          /\ \A s \in Seq(S) : Split(s) \in V
          /\ \A s \in Seq(S), c \in S : Split(Append(s, c)) = round[Split(s)][c]
      BY <1>1, <2>1
    <2> QED BY <1>4, <2>2
  <1> DEFINE T == {s \in Seq(S) : Len(Split(s)) >= 1}
  <1>9. Seq(S) \subseteq T
    <2>1. <<>> \in T
      <3>1. <<>> \in Seq(S) /\ Len(<<<<>>>>) = 1
        OBVIOUS
      <3>2. Split(<<>>) = <<<<>>>>
        BY <1>8
      <3>3. Len(Split(<<>>)) = 1
        BY <3>1, <3>2, Zenon
      <3> QED BY <3>1, <3>3
    <2>2. ASSUME NEW s \in Seq(S), NEW c \in S, s \in T PROVE Append(s, c) \in T
      <3>1. Append(s, c) \in Seq(S) /\ Split(s) \in V
        BY <1>8
      <3>2. CASE c = Hyphen
        BY <1>6, <1>8, <2>2, <3>1, <3>2
      <3>3. CASE c # Hyphen
        BY <1>2, <1>8, <2>2, <3>1, <3>3
      <3> QED BY <3>2, <3>3
    <2> HIDE DEF T
    <2> QED BY <2>1, <2>2, SequenceInduction
  <1>10. QED
    BY <1>5, <1>8, <1>9 DEF S, V

\* What is no hyphen stays in one group.
LEMMA OneGroup ==
  ASSUME NEW w \in Seq(Others)
  PROVE  Split(w) = <<w>>
  <1> DEFINE T == {u \in Seq(Others) : Split(u) = <<u>>}
  <1>1. <<>> \in T
    <2>1. <<>> \in Seq(Others)
      OBVIOUS
    <2> QED BY <2>1, SplitSteps
  <1>2. ASSUME NEW u \in Seq(Others), NEW c \in Others, u \in T PROVE Append(u, c) \in T
    <2>1. u \in Seq(ReferenceSymbols) /\ Append(u, c) \in Seq(Others)
      BY HyphenAndOthers
    <2>2. Split(Append(u, c)) = [<<u>> EXCEPT ![Len(<<u>>)] = Append(@, c)]
      BY <1>2, <2>1, SplitSteps
    <2>3. [<<u>> EXCEPT ![Len(<<u>>)] = Append(@, c)] = <<Append(u, c)>>
      OBVIOUS
    <2> QED BY <2>1, <2>2, <2>3
  <1>3. Seq(Others) \subseteq T
    <2> HIDE DEF T
    <2> QED BY <1>1, <1>2, SequenceInduction
  <1>4. QED
    BY <1>3

\* A hyphen and what is none make one more group.
LEMMA OneMoreGroup ==
  ASSUME NEW s \in Seq(ReferenceSymbols), NEW w \in Seq(Others)
  PROVE  Split(Append(s, Hyphen) \o w) = Append(Split(s), w)
  <1> DEFINE a == Append(s, Hyphen)
             g == Split(s)
             T == {u \in Seq(Others) : Split(a \o u) = Append(g, u)}
  <1>1. a \in Seq(ReferenceSymbols)
    BY HyphenAndOthers
  <1>2. Split(a) = Append(g, <<>>) /\ g \in Seq(Seq(ReferenceSymbols))
    BY SplitSteps
  <1> HIDE DEF a, g
  <1>3. <<>> \in T
    <2>1. <<>> \in Seq(Others) /\ a \o <<>> = a
      BY <1>1
    <2> QED BY <1>2, <2>1
  <1>4. ASSUME NEW u \in Seq(Others), NEW c \in Others, u \in T PROVE Append(u, c) \in T
    <2>1. u \in Seq(ReferenceSymbols) /\ c \in ReferenceSymbols /\ Append(u, c) \in Seq(Others)
      BY HyphenAndOthers
    <2>2. a \o u \in Seq(ReferenceSymbols) /\ a \o Append(u, c) = Append(a \o u, c)
      BY <1>1, <2>1, AppendToSecond
    <2>3. Split(Append(a \o u, c)) = [Append(g, u) EXCEPT ![Len(Append(g, u))] = Append(@, c)]
      BY <1>4, <2>2, SplitSteps
    <2>4. [Append(g, u) EXCEPT ![Len(Append(g, u))] = Append(@, c)] = Append(g, Append(u, c))
      <3>2. Append(u, c) \in Seq(ReferenceSymbols)
        BY <2>1
      <3>3. Append(g, u)[Len(Append(g, u))] = u
        BY <1>2, <2>1
      <3>4. [Append(g, u) EXCEPT ![Len(Append(g, u))] = Append(u, c)] = Append(g, Append(u, c))
        <4>1. PICK G : G = Seq(ReferenceSymbols)
          OBVIOUS
        <4>2. PICK h \in Seq(G), v \in G, x \in G : h = g /\ v = u /\ x = Append(u, c)
          BY <1>2, <2>1, <3>2, <4>1
        <4>3. [Append(h, v) EXCEPT ![Len(Append(h, v))] = x] = Append(h, x)
          BY LastReplaced
        <4> QED BY <4>2, <4>3
      <3> QED BY <3>3, <3>4
    <2> QED BY <2>1, <2>2, <2>3, <2>4
  <1>5. Seq(Others) \subseteq T
    <2> HIDE DEF T
    <2> QED BY <1>3, <1>4, SequenceInduction
  <1>6. QED
    BY <1>5 DEF a, g

\* The lengths of the groups, symbol by symbol.
LEMMA GroupLengthsSteps ==
  /\ GroupLengths(<<>>) = <<0>>
  /\ \A s \in Seq(ReferenceSymbols) :
       /\ GroupLengths(s) \in Seq(Nat) /\ Len(GroupLengths(s)) >= 1
       /\ GroupLengths(Append(s, Hyphen)) = Append(GroupLengths(s), 0)
       /\ \A c \in Others : GroupLengths(Append(s, c)) = OneLonger(GroupLengths(s))
  <1>1. GroupLengths(<<>>) = <<0>>
    <2>1. Split(<<>>) = << <<>> >>
      BY SplitSteps
    <2>2. GroupLengths(<<>>) = [i \in 1..1 |-> Len(<<>>)]
      BY <2>1 DEF GroupLengths
    <2>3. [i \in 1..1 |-> Len(<<>>)] = <<0>>
      OBVIOUS
    <2> QED BY <2>2, <2>3
  <1>2. ASSUME NEW s \in Seq(ReferenceSymbols)
        PROVE  /\ GroupLengths(s) \in Seq(Nat) /\ Len(GroupLengths(s)) >= 1
               /\ GroupLengths(Append(s, Hyphen)) = Append(GroupLengths(s), 0)
               /\ \A c \in Others : GroupLengths(Append(s, c)) = OneLonger(GroupLengths(s))
    <2> DEFINE g == Split(s)
               n == Len(g)
               l == GroupLengths(s)
    <2>1. g \in Seq(Seq(ReferenceSymbols)) /\ n \in Nat \ {0} /\ DOMAIN g = 1..n
      BY SplitSteps
    <2>2. l = [i \in 1..n |-> Len(g[i])]
      BY <2>1 DEF GroupLengths
    <2>3. Split(Append(s, Hyphen)) = Append(g, <<>>)
      BY SplitSteps
    <2>4. \A c \in Others : Split(Append(s, c)) = [g EXCEPT ![n] = Append(@, c)]
      BY SplitSteps
    <2>5. \A i \in 1..n : g[i] \in Seq(ReferenceSymbols) /\ Len(g[i]) \in Nat
      BY <2>1
    <2> HIDE DEF g, n, l
    <2>6. l \in Seq(Nat) /\ Len(l) = n /\ DOMAIN l = 1..n
      BY <2>1, <2>2, <2>5
    <2>7. GroupLengths(Append(s, Hyphen)) = Append(l, 0)
      <3>1. GroupLengths(Append(s, Hyphen)) = [i \in DOMAIN Append(g, <<>>) |-> Len(Append(g, <<>>)[i])]
        BY <2>3 DEF GroupLengths
      <3>2. /\ DOMAIN Append(g, <<>>) = 1..n + 1
            /\ \A i \in 1..n : Append(g, <<>>)[i] = g[i]
            /\ Append(g, <<>>)[n + 1] = <<>>
        BY <2>1 DEF n
      <3>3. /\ Append(l, 0) = [i \in 1..n + 1 |-> Append(l, 0)[i]]
            /\ \A i \in 1..n : Append(l, 0)[i] = l[i]
            /\ Append(l, 0)[n + 1] = 0
        <4>1. PICK N : N = Nat
          OBVIOUS
        <4>2. l \in Seq(N) /\ 0 \in N
          BY <2>6, <4>1
        <4>3. Append(l, 0) = [i \in 1..Len(l) + 1 |-> IF i = Len(l) + 1 THEN 0 ELSE l[i]]
          BY <4>2, Appended
        <4>4. n \in Nat /\ Len(l) = n
          BY <2>1, <2>6
        <4> QED BY <4>3, <4>4
      <3>4. ASSUME NEW i \in 1..n + 1 PROVE Append(l, 0)[i] = Len(Append(g, <<>>)[i])
        <4>1. CASE i = n + 1
          BY <3>2, <3>3, <4>1
        <4>2. CASE i \in 1..n
          BY <2>2, <3>2, <3>3, <4>2
        <4>3. i = n + 1 \/ i \in 1..n
          BY <2>1
        <4> QED BY <4>1, <4>2, <4>3
      <3> QED BY <3>1, <3>2, <3>3, <3>4
    <2>8. ASSUME NEW c \in Others PROVE GroupLengths(Append(s, c)) = OneLonger(l)
      <3> DEFINE h == [g EXCEPT ![n] = Append(@, c)]
      <3>1. /\ DOMAIN h = 1..n
            /\ \A i \in 1..n : h[i] = IF i = n THEN Append(g[n], c) ELSE g[i]
        BY <2>1
      <3>2. GroupLengths(Append(s, c)) = [i \in DOMAIN h |-> Len(h[i])]
        BY <2>4 DEF GroupLengths
      <3>3. n \in 1..n /\ Len(Append(g[n], c)) = Len(g[n]) + 1
        <4>1. n \in 1..n
          BY <2>1
        <4>2. g[n] \in Seq(ReferenceSymbols) /\ c \in ReferenceSymbols
          BY <2>5, <4>1, SymbolSets
        <4> QED BY <4>1, <4>2
      <3> HIDE DEF h
      <3>4. \A i \in 1..n : Len(h[i]) = IF i = n THEN l[n] + 1 ELSE l[i]
        BY <2>2, <3>1, <3>3
      <3>5. OneLonger(l) = [i \in 1..n |-> IF i = n THEN l[n] + 1 ELSE l[i]]
        BY <2>6, <3>3 DEF OneLonger
      <3> QED BY <3>1, <3>2, <3>4, <3>5
    <2> QED BY <2>1, <2>6, <2>7, <2>8 DEF l
  <1>3. QED
    BY <1>1, <1>2

\* The symbols of a text replaced, each for itself, and hyphens by hyphens.
Mapped(f, text) == [i \in DOMAIN text |-> f[text[i]]]
\* A replacement of symbols that takes no symbol for a hyphen and no hyphen for a
\* symbol.
Replacement(f) ==
  /\ f \in [ReferenceSymbols -> ReferenceSymbols]
  /\ \A c \in ReferenceSymbols : f[c] = Hyphen <=> c = Hyphen

\* Symbols replaced one by one leave the length and the places alone.
LEMMA MappedSteps ==
  ASSUME NEW S, NEW f \in [S -> S]
  PROVE  /\ Mapped(f, <<>>) = <<>>
         /\ \A s \in Seq(S) :
              /\ Mapped(f, s) \in Seq(S) /\ Len(Mapped(f, s)) = Len(s)
              /\ \A i \in 1..Len(s) : Mapped(f, s)[i] = f[s[i]]
  <1>1. Mapped(f, <<>>) = <<>>
    BY DEF Mapped
  <1>2. ASSUME NEW s \in Seq(S)
        PROVE  /\ Mapped(f, s) \in Seq(S) /\ Len(Mapped(f, s)) = Len(s)
               /\ \A i \in 1..Len(s) : Mapped(f, s)[i] = f[s[i]]
    <2>1. DOMAIN s = 1..Len(s) /\ Len(s) \in Nat /\ \A i \in 1..Len(s) : s[i] \in S
      OBVIOUS
    <2>2. Mapped(f, s) = [i \in 1..Len(s) |-> f[s[i]]]
      BY <2>1 DEF Mapped
    <2> QED BY <2>1, <2>2
  <1>3. QED
    BY <1>1, <1>2

\* Replacing the symbols of a longer text.
LEMMA MappedAppend ==
  ASSUME NEW S, NEW f \in [S -> S], NEW s \in Seq(S), NEW c \in S
  PROVE  Mapped(f, Append(s, c)) = Append(Mapped(f, s), f[c])
  <1> DEFINE n == Len(s)
             m == Mapped(f, s)
  <1>1. Append(s, c) = [i \in 1..n + 1 |-> IF i = n + 1 THEN c ELSE s[i]]
    BY Appended
  <1>2. m \in Seq(S) /\ Len(m) = n /\ \A i \in 1..n : m[i] = f[s[i]]
    BY MappedSteps
  <1>3. f[c] \in S /\ n \in Nat
    OBVIOUS
  <1> HIDE DEF m, n
  <1>4. Append(m, f[c]) = [i \in 1..n + 1 |-> IF i = n + 1 THEN f[c] ELSE m[i]]
    BY <1>2, <1>3, Appended
  <1>5. Mapped(f, Append(s, c))
          = [i \in 1..n + 1 |-> IF i = n + 1 THEN f[c] ELSE f[s[i]]]
    BY <1>1 DEF Mapped
  <1>6. \A i \in 1..n + 1 : (IF i = n + 1 THEN f[c] ELSE f[s[i]])
                               = (IF i = n + 1 THEN f[c] ELSE m[i])
    BY <1>2, <1>3
  <1> QED BY <1>4, <1>5, <1>6 DEF m

\* Replacing the symbols of two texts in a row.
LEMMA MappedBoth ==
  ASSUME NEW S, NEW f \in [S -> S], NEW s \in Seq(S), NEW t \in Seq(S)
  PROVE  Mapped(f, s \o t) = Mapped(f, s) \o Mapped(f, t)
  <1> DEFINE m == Mapped(f, s)
             T == {u \in Seq(S) : Mapped(f, s \o u) = m \o Mapped(f, u)}
  <1>1. m \in Seq(S)
    BY MappedSteps
  <1>2. <<>> \in T
    <2>1. <<>> \in Seq(S) /\ s \o <<>> = s /\ m \o <<>> = m
      BY <1>1
    <2> QED BY <2>1, MappedSteps
  <1>3. ASSUME NEW u \in Seq(S), NEW c \in S, u \in T PROVE Append(u, c) \in T
    <2>1. s \o Append(u, c) = Append(s \o u, c) /\ s \o u \in Seq(S) /\ Append(u, c) \in Seq(S)
      BY AppendToSecond
    <2>2. /\ Mapped(f, Append(s \o u, c)) = Append(Mapped(f, s \o u), f[c])
          /\ Mapped(f, Append(u, c)) = Append(Mapped(f, u), f[c])
      <3>1. PICK v \in Seq(S) : v = s \o u
        BY <2>1
      <3>2. Mapped(f, Append(v, c)) = Append(Mapped(f, v), f[c])
        BY MappedAppend
      <3>3. Mapped(f, Append(u, c)) = Append(Mapped(f, u), f[c])
        BY MappedAppend
      <3> QED BY <3>1, <3>2, <3>3
    <2>3. PICK v \in Seq(S) : v = Mapped(f, u)
      BY MappedSteps
    <2>4. f[c] \in S
      OBVIOUS
    <2> HIDE DEF m
    <2>5. m \o Append(v, f[c]) = Append(m \o v, f[c])
      BY <1>1, <2>4, AppendToSecond
    <2> QED BY <1>3, <2>1, <2>2, <2>3, <2>5
  <1>4. Seq(S) \subseteq T
    <2> HIDE DEF T
    <2> QED BY <1>2, <1>3, SequenceInduction
  <1>5. QED
    BY <1>4

\* Such a replacement leaves the hyphens where they are.
LEMMA HyphensStay ==
  ASSUME NEW f, Replacement(f), NEW s \in Seq(ReferenceSymbols)
  PROVE  /\ WithoutHyphens(Mapped(f, s)) = Mapped(f, WithoutHyphens(s))
         /\ GroupLengths(Mapped(f, s)) = GroupLengths(s)
         /\ Hyphen \in ToSet(Mapped(f, s)) <=> Hyphen \in ToSet(s)
  <1> DEFINE S == ReferenceSymbols
             T == {t \in Seq(S) :
                     /\ WithoutHyphens(Mapped(f, t)) = Mapped(f, WithoutHyphens(t))
                     /\ GroupLengths(Mapped(f, t)) = GroupLengths(t)}
  <1>1. f \in [S -> S] /\ \A c \in S : f[c] = Hyphen <=> c = Hyphen
    BY DEF Replacement
  <1>2. <<>> \in T
    <2>1. <<>> \in Seq(S) /\ Mapped(f, <<>>) = <<>>
      BY <1>1, MappedSteps
    <2> QED BY <2>1, HyphensDropped
  <1>3. ASSUME NEW t \in Seq(S), NEW c \in S, t \in T PROVE Append(t, c) \in T
    <2> DEFINE m == Mapped(f, t)
               w == WithoutHyphens(t)
    <2>1. Append(t, c) \in Seq(S)
      OBVIOUS
    <2>2. m \in Seq(S) /\ Mapped(f, Append(t, c)) = Append(m, f[c])
      <3>1. m \in Seq(S)
        BY <1>1, MappedSteps
      <3>2. Mapped(f, Append(t, c)) = Append(m, f[c])
        BY <1>1, MappedAppend
      <3> QED BY <3>1, <3>2
    <2>3. w \in Seq(Others) /\ w \in Seq(S)
      BY HyphensDropped, HyphenAndOthers
    <2>4. WithoutHyphens(m) = Mapped(f, w) /\ GroupLengths(m) = GroupLengths(t)
      BY <1>3
    <2>5. CASE c = Hyphen
      <3>1. f[c] = Hyphen
        BY <1>1, <2>5
      <3>2. WithoutHyphens(Append(m, Hyphen)) = WithoutHyphens(m) /\ WithoutHyphens(Append(t, c)) = w
        BY <2>2, <2>5, HyphensDropped
      <3>3. GroupLengths(Append(m, Hyphen)) = Append(GroupLengths(m), 0)
            /\ GroupLengths(Append(t, c)) = Append(GroupLengths(t), 0)
        BY <2>2, <2>5, GroupLengthsSteps
      <3> HIDE DEF m, w
      <3> QED BY <2>1, <2>2, <2>4, <3>1, <3>2, <3>3
    <2>6. CASE c # Hyphen
      <3>1. c \in Others /\ f[c] \in Others
        BY <1>1, <2>6 DEF Others
      <3>2. /\ WithoutHyphens(Append(m, f[c])) = Append(WithoutHyphens(m), f[c])
            /\ WithoutHyphens(Append(t, c)) = Append(w, c)
        BY <2>2, <3>1, HyphensDropped
      <3>3. GroupLengths(Append(m, f[c])) = OneLonger(GroupLengths(m))
            /\ GroupLengths(Append(t, c)) = OneLonger(GroupLengths(t))
        BY <2>2, <3>1, GroupLengthsSteps
      <3>4. Mapped(f, Append(w, c)) = Append(Mapped(f, w), f[c])
        BY <1>1, <2>3, MappedAppend
      <3> HIDE DEF m, w
      <3> QED BY <2>1, <2>2, <2>4, <3>2, <3>3, <3>4
    <2> QED BY <2>5, <2>6
  <1>4. Seq(S) \subseteq T
    <2> HIDE DEF T
    <2> QED BY <1>2, <1>3, SequenceInduction
  <1>5. Hyphen \in ToSet(Mapped(f, s)) <=> Hyphen \in ToSet(s)
    <2>1. DOMAIN Mapped(f, s) = DOMAIN s /\ \A i \in DOMAIN s : Mapped(f, s)[i] = f[s[i]]
      BY DEF Mapped
    <2>2. \A i \in DOMAIN s : s[i] \in S
      OBVIOUS
    <2> QED BY <1>1, <2>1, <2>2 DEF ToSet
  <1>6. QED
    BY <1>4, <1>5

\* toUpperCase and toLowerCase are such replacements, and the second is undone
\* by the first.
Upper == [c \in ReferenceSymbols |-> Cap(c)]
\* LowerCase, symbol by symbol.
Lower == [c \in ReferenceSymbols |-> Low(c)]

\* UpperCase replaces symbols; case is settled by it, whatever it was.
LEMMA UpperIsReplacement ==
  /\ Replacement(Upper)
  /\ \A s \in Seq(ReferenceSymbols) :
       /\ UpperCase(s) = Mapped(Upper, s) /\ UpperCase(s) \in Seq(ReferenceSymbols)
       /\ Len(UpperCase(s)) = Len(s)
       /\ \A i \in 1..Len(s) : UpperCase(s)[i] = Cap(s[i])
       /\ LowerCase(s) \in Seq(ReferenceSymbols) /\ Len(LowerCase(s)) = Len(s)
       /\ UpperCase(LowerCase(s)) = UpperCase(s) /\ UpperCase(UpperCase(s)) = UpperCase(s)
  <1> DEFINE S == ReferenceSymbols
  <1>1. Upper \in [S -> S] /\ Lower \in [S -> S]
    BY Case DEF Upper, Lower
  <1>2. Replacement(Upper)
    BY <1>1, Case DEF Replacement, Upper
  <1>3. ASSUME NEW s \in Seq(S)
        PROVE  UpperCase(s) = Mapped(Upper, s) /\ LowerCase(s) = Mapped(Lower, s)
    <2>1. \A i \in DOMAIN s : s[i] \in S
      OBVIOUS
    <2>2. /\ UpperCase(s) = [i \in DOMAIN s |-> Cap(s[i])]
          /\ LowerCase(s) = [i \in DOMAIN s |-> Low(s[i])]
      BY DEF UpperCase, LowerCase, Cap, Low
    <2> QED BY <2>1, <2>2 DEF Mapped, Upper, Lower
  <1>4. ASSUME NEW s \in Seq(S)
        PROVE  /\ UpperCase(s) \in Seq(S) /\ LowerCase(s) \in Seq(S)
               /\ Len(UpperCase(s)) = Len(s) /\ Len(LowerCase(s)) = Len(s)
               /\ \A i \in 1..Len(s) : UpperCase(s)[i] = Cap(s[i])
               /\ \A i \in 1..Len(s) : LowerCase(s)[i] = Low(s[i])
    <2>1. \A i \in 1..Len(s) : s[i] \in S
      OBVIOUS
    <2>2. /\ Mapped(Upper, s) \in Seq(S) /\ Mapped(Lower, s) \in Seq(S)
          /\ Len(Mapped(Upper, s)) = Len(s) /\ Len(Mapped(Lower, s)) = Len(s)
          /\ \A i \in 1..Len(s) : Mapped(Upper, s)[i] = Upper[s[i]]
          /\ \A i \in 1..Len(s) : Mapped(Lower, s)[i] = Lower[s[i]]
      <3>1. \A g \in [S -> S] :
              /\ Mapped(g, s) \in Seq(S) /\ Len(Mapped(g, s)) = Len(s)
              /\ \A i \in 1..Len(s) : Mapped(g, s)[i] = g[s[i]]
        BY MappedSteps
      <3> QED BY <1>1, <3>1
    <2> QED BY <1>3, <2>1, <2>2 DEF Upper, Lower
  <1>5. ASSUME NEW s \in Seq(S), NEW t \in Seq(S), Len(s) = Len(t),
               \A i \in 1..Len(s) : Cap(s[i]) = Cap(t[i])
        PROVE  UpperCase(s) = UpperCase(t)
    <2>1. UpperCase(s) = [i \in 1..Len(s) |-> Cap(s[i])] /\ UpperCase(t) = [i \in 1..Len(t) |-> Cap(t[i])]
      BY DEF UpperCase, Cap
    <2> QED BY <1>5, <2>1
  <1>6. ASSUME NEW s \in Seq(S)
        PROVE  UpperCase(LowerCase(s)) = UpperCase(s) /\ UpperCase(UpperCase(s)) = UpperCase(s)
    <2>1. \A i \in 1..Len(s) : s[i] \in S
      OBVIOUS
    <2>2. \A i \in 1..Len(s) : Cap(LowerCase(s)[i]) = Cap(s[i]) /\ Cap(UpperCase(s)[i]) = Cap(s[i])
      BY <1>4, <2>1, Case
    <2> QED BY <1>4, <1>5, <2>2
  <1>7. QED
    BY <1>2, <1>3, <1>4, <1>6

-----------------------------------------------------------------------------
(* Check symbols *)

\* The radices, the remainders and one round of the check-symbol loop.
Radices == {RandomRadix, SequentialRadix}
Remainders == 0..Modulus - 1
Round(radix) == [r \in Remainders |-> [c \in DataSymbols |->
                   NextRemainder(radix, r, ValueOf[c])]]
Remainder(radix, payload) == Loop(Round(radix), 0, payload)

\* A symbol stands for its index in the alphabet.
LEMMA Values ==
  /\ \A c \in DataSymbols : ValueOf[c] \in 0..31 /\ DataAlphabet[1 + ValueOf[c]] = c
  /\ \A c, d \in DataSymbols : ValueOf[c] = ValueOf[d] => c = d
  /\ \A v \in 0..31 : ValueOf[DataAlphabet[1 + v]] = v
  /\ \A c \in Digits : ValueOf[c] \in 0..9
  /\ \A v \in 0..9 : DataAlphabet[1 + v] \in Digits
  /\ \A v \in 0..31 : CheckAlphabet[1 + v] = DataAlphabet[1 + v]
  <1>1. ASSUME NEW c \in DataSymbols
        PROVE  ValueOf[c] \in 0..31 /\ DataAlphabet[1 + ValueOf[c]] = c
    <2>1. PICK i \in 1..32 : DataAlphabet[i] = c
      BY DataSets
    <2>2. i - 1 \in 0..31 /\ (i - 1) + 1 = i
      OBVIOUS
    <2>3. \E v \in 0..31 : DataAlphabet[v + 1] = c
      BY <2>1, <2>2
    <2>4. ValueOf[c] = CHOOSE v \in 0..31 : DataAlphabet[v + 1] = c
      BY DEF ValueOf
    <2>5. ValueOf[c] \in 0..31 /\ DataAlphabet[ValueOf[c] + 1] = c
      BY <2>3, <2>4
    <2>6. ValueOf[c] + 1 = 1 + ValueOf[c]
      BY <2>5
    <2> QED BY <2>5, <2>6
  <1>2. \A c, d \in DataSymbols : ValueOf[c] = ValueOf[d] => c = d
    BY <1>1
  <1>3. ASSUME NEW v \in 0..31 PROVE ValueOf[DataAlphabet[1 + v]] = v
    <2>1. 1 + v \in 1..32
      OBVIOUS
    <2>2. DataAlphabet[1 + v] \in DataSymbols
      BY <2>1, DataSets
    <2>3. PICK u \in 0..31 : u = ValueOf[DataAlphabet[1 + v]] /\ DataAlphabet[1 + u] = DataAlphabet[1 + v]
      BY <1>1, <2>2
    <2>4. 1 + u \in 1..32
      OBVIOUS
    <2>5. 1 + u = 1 + v
      <3>1. \A i, j \in 1..32 : DataAlphabet[i] = DataAlphabet[j] => i = j
        BY DataSets
      <3> QED BY <2>1, <2>3, <2>4, <3>1
    <2> QED BY <2>3, <2>5
  <1>4. Digits = {DataAlphabet[i] : i \in 1..10}
    BY DEF Digits
  <1>5. ASSUME NEW c \in Digits PROVE ValueOf[c] \in 0..9
    <2>1. PICK i \in 1..10 : c = DataAlphabet[i]
      BY <1>4
    <2>2. i - 1 \in 0..9 /\ i - 1 \in 0..31 /\ 1 + (i - 1) = i
      OBVIOUS
    <2>3. ValueOf[DataAlphabet[1 + (i - 1)]] = i - 1
      BY <1>3, <2>2
    <2> QED BY <2>1, <2>2, <2>3
  <1>6. \A v \in 0..9 : DataAlphabet[1 + v] \in Digits
    <2>1. \A v \in 0..9 : 1 + v \in 1..10
      OBVIOUS
    <2> QED BY <1>4, <2>1
  <1>7. ASSUME NEW v \in 0..31 PROVE CheckAlphabet[1 + v] = DataAlphabet[1 + v]
    <2>1. 1 + v \in 1..32
      OBVIOUS
    <2> QED BY <2>1, CheckSets
  <1>8. QED
    BY <1>1, <1>2, <1>3, <1>5, <1>6, <1>7

\* The remainder stays a remainder.
LEMMA RemainderBound ==
  ASSUME NEW b \in Radices, NEW r \in Remainders, NEW v \in 0..31
  PROVE  NextRemainder(b, r, v) \in Remainders
  BY DEF NextRemainder, Modulus, Remainders, Radices, RandomRadix, SequentialRadix

\* One round keeps different remainders apart, for 37 divides no difference
\* times the radix.
LEMMA RemaindersStayApart ==
  ASSUME NEW b \in Radices, NEW r \in Remainders, NEW t \in Remainders,
         NEW v \in 0..31, r # t
  PROVE  NextRemainder(b, r, v) # NextRemainder(b, t, v)
  <1>1. CASE b = RandomRadix
    BY <1>1 DEF NextRemainder, Modulus, Remainders, RandomRadix
  <1>2. CASE b = SequentialRadix
    BY <1>2 DEF NextRemainder, Modulus, Remainders, SequentialRadix
  <1>3. QED
    BY <1>1, <1>2 DEF Radices

\* One round tells two symbols apart, for both are smaller than 37.
LEMMA SymbolsDiffer ==
  ASSUME NEW b \in Radices, NEW r \in Remainders, NEW v \in 0..31, NEW w \in 0..31, v # w
  PROVE  NextRemainder(b, r, v) # NextRemainder(b, r, w)
  BY DEF NextRemainder, Modulus, Remainders, Radices, RandomRadix, SequentialRadix

\* Two rounds tell two orders apart, for 37 does not divide (radix - 1) times a
\* difference of symbols.
LEMMA OrderMatters ==
  ASSUME NEW b \in Radices, NEW r \in Remainders, NEW v \in 0..31, NEW w \in 0..31, v # w
  PROVE  NextRemainder(b, NextRemainder(b, r, v), w)
           # NextRemainder(b, NextRemainder(b, r, w), v)
  <1>1. CASE b = RandomRadix
    BY <1>1 DEF NextRemainder, Modulus, Remainders, RandomRadix
  <1>2. CASE b = SequentialRadix
    BY <1>2 DEF NextRemainder, Modulus, Remainders, SequentialRadix
  <1>3. QED
    BY <1>1, <1>2 DEF Radices

\* The last symbol and the check symbol do not trade places, for 37 does not
\* divide twice a difference of symbols.
LEMMA LastAndCheckDiffer ==
  ASSUME NEW b \in Radices, NEW r \in Remainders, NEW v \in 0..31, NEW w \in 0..31,
         NextRemainder(b, r, v) = w, NextRemainder(b, r, w) = v
  PROVE  v = w
  <1>1. CASE b = RandomRadix
    BY <1>1 DEF NextRemainder, Modulus, Remainders, RandomRadix
  <1>2. CASE b = SequentialRadix
    BY <1>2 DEF NextRemainder, Modulus, Remainders, SequentialRadix
  <1>3. QED
    BY <1>1, <1>2 DEF Radices

\* The check symbol is that of the remainder the loop ends with (reference.ts:42-54).
LEMMA RemainderRounds ==
  ASSUME NEW b \in Radices
  PROVE  /\ Round(b) \in [Remainders -> [DataSymbols -> Remainders]] /\ 0 \in Remainders
         /\ \A r \in Remainders, c \in DataSymbols :
              Round(b)[r][c] = NextRemainder(b, r, ValueOf[c])
         /\ \A s \in Seq(DataSymbols) :
              /\ Remainder(b, s) \in Remainders
              /\ CalculateCheckSymbol(b, s) = CheckAlphabet[1 + Remainder(b, s)]
  <1>1. \A r \in Remainders, c \in DataSymbols : NextRemainder(b, r, ValueOf[c]) \in Remainders
    BY RemainderBound, Values
  <1>2. Round(b) \in [Remainders -> [DataSymbols -> Remainders]]
    BY <1>1 DEF Round
  <1>3. 0 \in Remainders
    BY DEF Remainders, Modulus
  <1>4. Rounds(Round(b), 0, Remainders, DataSymbols)
    BY <1>2, <1>3, LoopSteps
  <1>5. \A s \in Seq(DataSymbols) : Remainder(b, s) \in Remainders
    BY <1>4 DEF Rounds, Remainder
  <1>6. \A s : CalculateCheckSymbol(b, s) = CheckAlphabet[1 + Remainder(b, s)]
    BY DEF CalculateCheckSymbol, Remainder, Round, Remainders
  <1>7. \A r \in Remainders, c \in DataSymbols :
          Round(b)[r][c] = NextRemainder(b, r, ValueOf[c])
    BY DEF Round
  <1>8. QED
    BY <1>2, <1>3, <1>5, <1>6, <1>7

\* What follows a difference does not undo it.
LEMMA ApartToTheEnd ==
  ASSUME NEW b \in Radices, NEW p \in Remainders, NEW q \in Remainders, p # q,
         NEW t \in Seq(DataSymbols)
  PROVE  Loop(Round(b), p, t) # Loop(Round(b), q, t)
  <1> DEFINE S == DataSymbols
             T == {u \in Seq(S) : Loop(Round(b), p, u) # Loop(Round(b), q, u)}
  <1>1. Round(b) \in [Remainders -> [S -> Remainders]]
    BY RemainderRounds
  <1>2. Rounds(Round(b), p, Remainders, S) /\ Rounds(Round(b), q, Remainders, S)
    BY <1>1, LoopSteps
  <1>3. <<>> \in T
    <2>1. <<>> \in Seq(S)
      OBVIOUS
    <2> QED BY <1>2, <2>1 DEF Rounds
  <1>4. ASSUME NEW u \in Seq(S), NEW c \in S, u \in T PROVE Append(u, c) \in T
    <2>1. PICK x \in Remainders, y \in Remainders :
            x = Loop(Round(b), p, u) /\ y = Loop(Round(b), q, u)
      BY <1>2 DEF Rounds
    <2>2. /\ Loop(Round(b), p, Append(u, c)) = NextRemainder(b, x, ValueOf[c])
          /\ Loop(Round(b), q, Append(u, c)) = NextRemainder(b, y, ValueOf[c])
      BY <1>2, <2>1, RemainderRounds DEF Rounds
    <2>3. ValueOf[c] \in 0..31
      BY Values
    <2>4. NextRemainder(b, x, ValueOf[c]) # NextRemainder(b, y, ValueOf[c])
      BY <1>4, <2>1, <2>3, RemaindersStayApart
    <2>5. Append(u, c) \in Seq(S)
      OBVIOUS
    <2> QED BY <2>2, <2>4, <2>5
  <1>5. Seq(S) \subseteq T
    <2> HIDE DEF T
    <2> QED BY <1>3, <1>4, SequenceInduction
  <1>6. QED
    BY <1>5

\* The remainder of a payload in three parts.
LEMMA RemainderOfParts ==
  ASSUME NEW b \in Radices, NEW s \in Seq(DataSymbols), NEW m \in Seq(DataSymbols),
         NEW t \in Seq(DataSymbols)
  PROVE  Remainder(b, s \o m \o t) = Loop(Round(b), Loop(Round(b), Remainder(b, s), m), t)
  <1>1. RoundOf(Round(b), Remainders, DataSymbols) /\ 0 \in Remainders
    BY RemainderRounds DEF RoundOf
  <1>2. PICK sm \in Seq(DataSymbols) : sm = s \o m
    <2>1. s \o m \in Seq(DataSymbols)
      BY Concatenation
    <2> QED BY <2>1
  <1>3. Loop(Round(b), 0, s \o m) = Loop(Round(b), Remainder(b, s), m)
    BY <1>1, LoopOfTwo DEF Remainder
  <1>4. Loop(Round(b), 0, sm \o t) = Loop(Round(b), Loop(Round(b), 0, sm), t)
    BY <1>1, LoopOfTwo
  <1>5. QED
    BY <1>2, <1>3, <1>4 DEF Remainder

\* One round, and two.
LEMMA RemainderOfOne ==
  ASSUME NEW b \in Radices, NEW r \in Remainders, NEW c \in DataSymbols, NEW d \in DataSymbols
  PROVE  /\ Loop(Round(b), r, <<c>>) = NextRemainder(b, r, ValueOf[c])
         /\ Loop(Round(b), r, <<c, d>>)
              = NextRemainder(b, NextRemainder(b, r, ValueOf[c]), ValueOf[d])
  <1>1. Round(b) \in [Remainders -> [DataSymbols -> Remainders]]
    BY RemainderRounds
  <1>2. Loop(Round(b), r, <<c>>) = NextRemainder(b, r, ValueOf[c])
    BY <1>1, LoopOfOne, RemainderRounds
  <1>3. NextRemainder(b, r, ValueOf[c]) \in Remainders
    BY RemainderBound, Values
  <1>4. Loop(Round(b), r, Append(<<c>>, d)) = Round(b)[Loop(Round(b), r, <<c>>)][d]
    <2>1. Rounds(Round(b), r, Remainders, DataSymbols)
      BY <1>1, LoopSteps
    <2>2. <<c>> \in Seq(DataSymbols)
      OBVIOUS
    <2> QED BY <2>1, <2>2 DEF Rounds
  <1>5. Append(<<c>>, d) = <<c, d>>
    BY PairAppended
  <1>6. QED
    BY <1>2, <1>3, <1>4, <1>5, RemainderRounds

\* Payloads with different remainders have different check symbols.
LEMMA CheckSymbolsDiffer ==
  ASSUME NEW b \in Radices, NEW s \in Seq(DataSymbols), NEW t \in Seq(DataSymbols),
         Remainder(b, s) # Remainder(b, t)
  PROVE  CalculateCheckSymbol(b, s) # CalculateCheckSymbol(b, t)
  <1>1. PICK p \in Remainders, q \in Remainders :
          p = Remainder(b, s) /\ q = Remainder(b, t)
    BY RemainderRounds
  <1>2. p \in 0..36 /\ q \in 0..36 /\ p # q
    BY <1>1 DEF Remainders, Modulus
  <1>3. CheckAlphabet[1 + p] # CheckAlphabet[1 + q]
    <2>1. 1 + p \in 1..37 /\ 1 + q \in 1..37 /\ 1 + p # 1 + q
      BY <1>2
    <2>2. \A i, j \in 1..37 : CheckAlphabet[i] = CheckAlphabet[j] => i = j
      BY CheckSets
    <2> QED BY <2>1, <2>2
  <1>4. QED
    BY <1>1, <1>3, RemainderRounds

\* One or two symbols behind a sequence.
LEMMA AppendedParts ==
  ASSUME NEW S, NEW s \in Seq(S), NEW c \in S, NEW d \in S
  PROVE  /\ s \o <<c>> = Append(s, c)
         /\ s \o <<c, d>> = Append(Append(s, c), d)
  <1>1. \A e \in S : <<e>> \in Seq(S)
    OBVIOUS
  <1>2. s \o <<c>> = Append(s, c)
    BY AppendIsConcat
  <1>3. s \o Append(<<c>>, d) = Append(s \o <<c>>, d)
    BY <1>1, AppendToSecond
  <1>4. Append(<<c>>, d) = <<c, d>>
    BY PairAppended
  <1>5. QED
    BY <1>2, <1>3, <1>4, Zenon

\* A wrong symbol, or two neighbours in the wrong order, changes the check
\* symbol of a payload of any length, in both radices; and the last symbol and
\* the check symbol never fit each other's place (calculateReferenceCheckSymbol,
\* calculateSequentialCheckSymbol; spec/checksums.md:42: "detect common
\* transcription errors").
THEOREM TypoIsNoticed ==
  ASSUME NEW b \in Radices, NEW s \in Seq(DataSymbols), NEW t \in Seq(DataSymbols),
         NEW c \in DataSymbols, NEW d \in DataSymbols, c # d
  PROVE  /\ CalculateCheckSymbol(b, s \o <<c>> \o t) # CalculateCheckSymbol(b, s \o <<d>> \o t)
         /\ CalculateCheckSymbol(b, s \o <<c, d>> \o t)
              # CalculateCheckSymbol(b, s \o <<d, c>> \o t)
         /\ CalculateCheckSymbol(b, s \o <<c>>) = d => CalculateCheckSymbol(b, s \o <<d>>) # c
  <1> DEFINE S == DataSymbols
             r == Remainder(b, s)
             v == ValueOf[c]
             w == ValueOf[d]
  <1>1. r \in Remainders
    BY RemainderRounds
  <1>2. v \in 0..31 /\ w \in 0..31 /\ v # w
    BY Values
  <1>3. \A e \in S : <<e>> \in Seq(S) /\ s \o <<e>> \in Seq(S) /\ s \o <<e>> \o t \in Seq(S)
    <2>1. \A e \in S : <<e>> \in Seq(S)
      OBVIOUS
    <2>2. \A e \in S : s \o <<e>> \in Seq(S)
      BY <2>1, Concatenation
    <2> QED BY <2>1, <2>2, Concatenation
  <1>4. \A e, f \in S : <<e, f>> \in Seq(S) /\ s \o <<e, f>> \o t \in Seq(S)
    <2>1. \A e, f \in S : <<e, f>> \in Seq(S)
      OBVIOUS
    <2>2. \A e, f \in S : s \o <<e, f>> \in Seq(S)
      BY <2>1, Concatenation
    <2> QED BY <2>1, <2>2, Concatenation
  <1>5. CalculateCheckSymbol(b, s \o <<c>> \o t) # CalculateCheckSymbol(b, s \o <<d>> \o t)
    <2> DEFINE p == NextRemainder(b, r, v)
               q == NextRemainder(b, r, w)
    <2>1. p \in Remainders /\ q \in Remainders /\ p # q
      BY <1>1, <1>2, RemainderBound, SymbolsDiffer
    <2>2. Loop(Round(b), r, <<c>>) = p /\ Loop(Round(b), r, <<d>>) = q
      BY <1>1, RemainderOfOne
    <2> HIDE DEF p, q, r
    <2>3. Loop(Round(b), p, t) # Loop(Round(b), q, t)
      BY <2>1, ApartToTheEnd
    <2>4. Remainder(b, s \o <<c>> \o t) = Loop(Round(b), p, t)
      BY <1>3, <2>2, RemainderOfParts, ZenonT(60) DEF r
    <2>5. Remainder(b, s \o <<d>> \o t) = Loop(Round(b), q, t)
      BY <1>3, <2>2, RemainderOfParts, ZenonT(60) DEF r
    <2> QED BY <1>3, <2>3, <2>4, <2>5, CheckSymbolsDiffer
  <1>6. CalculateCheckSymbol(b, s \o <<c, d>> \o t) # CalculateCheckSymbol(b, s \o <<d, c>> \o t)
    <2> DEFINE p == NextRemainder(b, NextRemainder(b, r, v), w)
               q == NextRemainder(b, NextRemainder(b, r, w), v)
    <2>1. p \in Remainders /\ q \in Remainders /\ p # q
      BY <1>1, <1>2, RemainderBound, OrderMatters
    <2>2. Loop(Round(b), r, <<c, d>>) = p /\ Loop(Round(b), r, <<d, c>>) = q
      BY <1>1, RemainderOfOne
    <2> HIDE DEF p, q, r
    <2>3. Loop(Round(b), p, t) # Loop(Round(b), q, t)
      BY <2>1, ApartToTheEnd
    <2>4. Remainder(b, s \o <<c, d>> \o t) = Loop(Round(b), p, t)
      <3>1. <<c, d>> \in Seq(S)
        BY <1>4
      <3>2. Remainder(b, s \o <<c, d>> \o t) = Loop(Round(b), Loop(Round(b), r, <<c, d>>), t)
        BY <3>1, RemainderOfParts DEF r
      <3> QED BY <2>2, <3>2
    <2>5. Remainder(b, s \o <<d, c>> \o t) = Loop(Round(b), q, t)
      <3>1. <<d, c>> \in Seq(S)
        BY <1>4
      <3>2. Remainder(b, s \o <<d, c>> \o t) = Loop(Round(b), Loop(Round(b), r, <<d, c>>), t)
        BY <3>1, RemainderOfParts DEF r
      <3> QED BY <2>2, <3>2
    <2> QED BY <1>4, <2>3, <2>4, <2>5, CheckSymbolsDiffer
  <1>7. ASSUME CalculateCheckSymbol(b, s \o <<c>>) = d, CalculateCheckSymbol(b, s \o <<d>>) = c
        PROVE  FALSE
    <2>1. ASSUME NEW e \in S
          PROVE  CalculateCheckSymbol(b, s \o <<e>>)
                   = CheckAlphabet[1 + NextRemainder(b, r, ValueOf[e])]
      <3>1. RoundOf(Round(b), Remainders, S) /\ 0 \in Remainders
        BY RemainderRounds DEF RoundOf
      <3>2. Remainder(b, s \o <<e>>) = Loop(Round(b), r, <<e>>)
        <4>1. PICK m \in Seq(S) : m = <<e>>
          BY <1>3
        <4>2. Loop(Round(b), 0, s \o m) = Loop(Round(b), Loop(Round(b), 0, s), m)
          BY <3>1, LoopOfTwo
        <4> QED BY <4>1, <4>2 DEF Remainder
      <3>3. Loop(Round(b), r, <<e>>) = NextRemainder(b, r, ValueOf[e])
        BY <1>1, RemainderOfOne
      <3>4. CalculateCheckSymbol(b, s \o <<e>>) = CheckAlphabet[1 + Remainder(b, s \o <<e>>)]
        BY <1>3, RemainderRounds
      <3> HIDE DEF r
      <3> QED BY <3>2, <3>3, <3>4
    <2>2. ASSUME NEW e \in S, NEW f \in S, CalculateCheckSymbol(b, s \o <<e>>) = f
          PROVE  NextRemainder(b, r, ValueOf[e]) = ValueOf[f]
      <3>1. PICK x \in Remainders : x = NextRemainder(b, r, ValueOf[e])
        BY <1>1, RemainderBound, Values
      <3>2. PICK y \in 0..31 : y = ValueOf[f] /\ f = CheckAlphabet[1 + y]
        BY Values
      <3>3. x \in 0..36
        BY DEF Remainders, Modulus
      <3>4. CheckAlphabet[1 + x] = CheckAlphabet[1 + y]
        BY <2>1, <2>2, <3>1, <3>2
      <3>5. \A i, j \in 1..37 : CheckAlphabet[i] = CheckAlphabet[j] => i = j
        BY CheckSets
      <3>6. x = y
        <4>1. 1 + x \in 1..37 /\ 1 + y \in 1..37
          BY <3>3
        <4>2. 1 + x = 1 + y
          BY <3>4, <3>5, <4>1
        <4> QED BY <3>3, <4>2
      <3> QED BY <3>1, <3>2, <3>6
    <2>3. NextRemainder(b, r, v) = w /\ NextRemainder(b, r, w) = v
      BY <1>7, <2>2
    <2> HIDE DEF r, v, w
    <2> QED BY <1>1, <1>2, <2>3, LastAndCheckDiffer
  <1>8. QED
    BY <1>5, <1>6, <1>7

\* What is in front of the last symbol.
LEMMA FrontAndLast ==
  ASSUME NEW S, NEW s \in Seq(S), NEW c \in S
  PROVE  Front(Append(s, c)) = s /\ Last(Append(s, c)) = c /\ Append(s, c) # <<>>
  <1>1. /\ Append(s, c) \in Seq(S) /\ Len(Append(s, c)) = Len(s) + 1
        /\ \A i \in 1..Len(s) : Append(s, c)[i] = s[i]
        /\ Append(s, c)[Len(s) + 1] = c
    OBVIOUS
  <1>2. PICK t \in Seq(S) : t = Append(s, c)
    BY <1>1
  <1>3. Len(t) = Len(s) + 1 /\ \A i \in 1..Len(s) : t[i] = s[i]
    BY <1>1, <1>2
  <1>4. SubSeq(t, 1, Len(s)) = s
    BY <1>3
  <1>5. Len(t) - 1 = Len(s) /\ t # <<>>
    BY <1>3
  <1>6. QED
    BY <1>1, <1>2, <1>3, <1>4, <1>5 DEF Front, Last

\* Every text but the empty one has a front and a last symbol.
LEMMA FrontThenLast ==
  ASSUME NEW S, NEW s \in Seq(S), s # <<>>
  PROVE  Front(s) \in Seq(S) /\ Last(s) \in S /\ s = Append(Front(s), Last(s))
  <1>1. PICK t \in Seq(S), c \in S : s = Append(t, c)
    BY SequenceEmptyOrAppend
  <1>2. Front(s) = t /\ Last(s) = c
    BY <1>1, FrontAndLast
  <1>3. QED
    BY <1>1, <1>2

\* The parts of a sequence are over the set the whole is over.
LEMMA PartsIn ==
  ASSUME NEW S, NEW D, NEW u \in Seq(S), NEW w \in Seq(S), u \o w \in Seq(D)
  PROVE  u \in Seq(D) /\ w \in Seq(D)
  <1>1. /\ Len(u \o w) = Len(u) + Len(w)
        /\ \A i \in 1..Len(u) : (u \o w)[i] = u[i]
        /\ \A i \in 1..Len(w) : (u \o w)[Len(u) + i] = w[i]
    BY Concatenation
  <1>2. PICK x \in Seq(D) : x = u \o w
    OBVIOUS
  <1>3. \A i \in 1..Len(u) : u[i] \in D
    <2>1. \A i \in 1..Len(u) : i \in 1..Len(x)
      BY <1>1, <1>2
    <2> QED BY <1>1, <1>2, <2>1
  <1>4. \A i \in 1..Len(w) : w[i] \in D
    <2>1. \A i \in 1..Len(w) : Len(u) + i \in 1..Len(x)
      BY <1>1, <1>2
    <2> QED BY <1>1, <1>2, <2>1
  <1>5. QED
    BY <1>3, <1>4

\* What a parser makes of the symbols behind a prefix: payload and check symbol.
IsReading(radix, f, symbols, payload, check) ==
  /\ symbols \in Seq(Others) /\ symbols # <<>>
  /\ payload = Mapped(f, Front(symbols)) /\ payload \in Seq(DataSymbols)
  /\ check = Last(symbols) /\ check \in CheckSymbols
  /\ CalculateCheckSymbol(radix, payload) = check

\* What is read is the text up to its last symbol, and that is the check symbol.
LEMMA ReadingOf ==
  ASSUME NEW b \in Radices, NEW f, Replacement(f), NEW s \in Seq(Others), NEW l \in Others,
         NEW p, NEW c, IsReading(b, f, Append(s, l), p, c)
  PROVE  /\ p = Mapped(f, s) /\ p \in Seq(DataSymbols)
         /\ c = l /\ c \in CheckSymbols /\ CalculateCheckSymbol(b, p) = c
  BY FrontAndLast DEF IsReading

\* Replacing the symbols of three texts in a row, and where the results lie.
LEMMA MappedParts ==
  ASSUME NEW f, Replacement(f), NEW a \in Seq(Others), NEW m \in Seq(Others),
         NEW z \in Seq(Others), Mapped(f, a \o m \o z) \in Seq(DataSymbols)
  PROVE  /\ Mapped(f, a \o m \o z) = Mapped(f, a) \o Mapped(f, m) \o Mapped(f, z)
         /\ Mapped(f, a) \in Seq(DataSymbols) /\ Mapped(f, m) \in Seq(DataSymbols)
         /\ Mapped(f, z) \in Seq(DataSymbols)
  <1> DEFINE S == ReferenceSymbols
             fa == Mapped(f, a)
             fm == Mapped(f, m)
             fz == Mapped(f, z)
  <1>1. f \in [S -> S] /\ a \in Seq(S) /\ m \in Seq(S) /\ z \in Seq(S)
    BY HyphenAndOthers DEF Replacement
  <1>2. fa \in Seq(S) /\ fm \in Seq(S) /\ fz \in Seq(S)
    BY <1>1, MappedSteps
  <1>3. a \o m \in Seq(S) /\ fa \o fm \in Seq(S)
    BY <1>1, <1>2, Concatenation
  <1>4. Mapped(f, a \o m) = fa \o fm
    BY <1>1, MappedBoth
  <1>5. Mapped(f, (a \o m) \o z) = Mapped(f, a \o m) \o fz
    BY <1>1, <1>3, MappedBoth
  <1> HIDE DEF fa, fm, fz, S
  <1>6. Mapped(f, a \o m \o z) = fa \o fm \o fz
    BY <1>4, <1>5 DEF fz
  <1>7. fa \o fm \o fz \in Seq(DataSymbols)
    BY <1>6
  <1>8. fa \o fm \in Seq(DataSymbols) /\ fz \in Seq(DataSymbols)
    BY <1>2, <1>3, <1>7, PartsIn
  <1>9. fa \in Seq(DataSymbols) /\ fm \in Seq(DataSymbols)
    BY <1>2, <1>8, PartsIn
  <1>10. QED
    BY <1>6, <1>8, <1>9 DEF fa, fm, fz

\* Two symbol sequences that differ by one wrong symbol, or by two neighbours in
\* the wrong order, the check symbol included, are not both readings, unless of
\* the same payload and check symbol.
Slipped(s, t, a, x, y, z) ==
  \/ s = a \o <<x>> \o z /\ t = a \o <<y>> \o z
  \/ s = a \o <<x, y>> \o z /\ t = a \o <<y, x>> \o z

\* Of two texts that differ by one symbol or by two swapped ones not both are read,
\* or both as the same.
LEMMA SlipIsNoticed ==
  ASSUME NEW b \in Radices, NEW f, Replacement(f), \A c \in CheckSymbols : f[c] = c,
         NEW a \in Seq(Others), NEW x \in Others, NEW y \in Others, NEW z \in Seq(Others),
         NEW s, NEW t, NEW p, NEW c, NEW q, NEW d
  PROVE  Slipped(s, t, a, x, y, z) /\ IsReading(b, f, s, p, c) /\ IsReading(b, f, t, q, d)
           => q = p /\ d = c
  <1> SUFFICES ASSUME Slipped(s, t, a, x, y, z),
                      IsReading(b, f, s, p, c), IsReading(b, f, t, q, d)
               PROVE  q = p /\ d = c
    OBVIOUS
  <1> DEFINE S == ReferenceSymbols
             fa == Mapped(f, a)
  <1>1. /\ f \in [S -> S] /\ a \in Seq(S) /\ x \in S /\ y \in S
        /\ \A u \in Seq(Others) : u \in Seq(S)
    BY HyphenAndOthers DEF Replacement
  <1>2. <<x>> \in Seq(Others) /\ <<y>> \in Seq(Others)
        /\ <<x, y>> \in Seq(Others) /\ <<y, x>> \in Seq(Others) /\ <<>> \in Seq(Others)
    OBVIOUS
  <1>3. /\ Mapped(f, <<x>>) = <<f[x]>> /\ Mapped(f, <<y>>) = <<f[y]>>
        /\ Mapped(f, <<x, y>>) = <<f[x], f[y]>> /\ Mapped(f, <<y, x>>) = <<f[y], f[x]>>
    BY DEF Mapped
  <1>4. CASE z = <<>>
    <2>1. \A u \in Seq(Others) : u \o z = u
      BY <1>4
    <2>2. /\ a \o <<x>> = Append(a, x) /\ a \o <<y>> = Append(a, y)
          /\ a \o <<x, y>> = Append(Append(a, x), y) /\ a \o <<y, x>> = Append(Append(a, y), x)
      BY AppendedParts
    <2>3. Append(a, x) \in Seq(Others) /\ Append(a, y) \in Seq(Others)
      OBVIOUS
    <2>4. /\ a \o <<x>> \o z = Append(a, x) /\ a \o <<y>> \o z = Append(a, y)
          /\ a \o <<x, y>> \o z = Append(Append(a, x), y)
          /\ a \o <<y, x>> \o z = Append(Append(a, y), x)
      <3>1. Append(Append(a, x), y) \in Seq(Others) /\ Append(Append(a, y), x) \in Seq(Others)
        BY <2>3
      <3> QED BY <2>1, <2>2, <2>3, <3>1
    <2>5. CASE s = a \o <<x>> \o z /\ t = a \o <<y>> \o z
      <3>1. p = fa /\ CalculateCheckSymbol(b, p) = c
        <4>1. IsReading(b, f, Append(a, x), p, c)
          BY <2>4, <2>5, Zenon
        <4> QED BY <4>1, ReadingOf
      <3>2. q = fa /\ CalculateCheckSymbol(b, q) = d
        <4>1. IsReading(b, f, Append(a, y), q, d)
          BY <2>4, <2>5, Zenon
        <4> QED BY <4>1, ReadingOf
      <3> QED BY <3>1, <3>2
    <2>6. CASE s = a \o <<x, y>> \o z /\ t = a \o <<y, x>> \o z
      <3>1. /\ p = Mapped(f, Append(a, x)) /\ p \in Seq(DataSymbols)
            /\ c = y /\ c \in CheckSymbols /\ CalculateCheckSymbol(b, p) = c
        <4>1. IsReading(b, f, Append(Append(a, x), y), p, c)
          BY <2>4, <2>6, Zenon
        <4>2. PICK u \in Seq(Others) : u = Append(a, x)
          BY <2>3
        <4>3. IsReading(b, f, Append(u, y), p, c)
          BY <4>1, <4>2
        <4>4. /\ p = Mapped(f, u) /\ p \in Seq(DataSymbols)
              /\ c = y /\ c \in CheckSymbols /\ CalculateCheckSymbol(b, p) = c
          BY <4>3, ReadingOf
        <4> QED BY <4>2, <4>4, Zenon
      <3>2. /\ q = Mapped(f, Append(a, y)) /\ q \in Seq(DataSymbols)
            /\ d = x /\ d \in CheckSymbols /\ CalculateCheckSymbol(b, q) = d
        <4>1. IsReading(b, f, Append(Append(a, y), x), q, d)
          BY <2>4, <2>6, Zenon
        <4>2. PICK u \in Seq(Others) : u = Append(a, y)
          BY <2>3
        <4>3. IsReading(b, f, Append(u, x), q, d)
          BY <4>1, <4>2
        <4>4. /\ q = Mapped(f, u) /\ q \in Seq(DataSymbols)
              /\ d = x /\ d \in CheckSymbols /\ CalculateCheckSymbol(b, q) = d
          BY <4>3, ReadingOf
        <4> QED BY <4>2, <4>4, Zenon
      <3>3. f[x] = x /\ f[y] = y
        BY <3>1, <3>2
      <3>4. Mapped(f, Append(a, x)) = Append(fa, x) /\ Mapped(f, Append(a, y)) = Append(fa, y)
        BY <1>1, <3>3, MappedAppend
      <3>5. fa \in Seq(S)
        BY <1>1, MappedSteps
      <3> HIDE DEF fa, S
      <3>6. Append(fa, x) = fa \o <<x>> /\ Append(fa, y) = fa \o <<y>>
        BY <1>1, <3>5, AppendedParts
      <3>7. fa \in Seq(DataSymbols) /\ <<x>> \in Seq(DataSymbols)
        BY <1>1, <1>2, <3>1, <3>4, <3>5, <3>6, PartsIn DEF S
      <3>8. <<y>> \in Seq(DataSymbols)
        BY <1>1, <1>2, <3>2, <3>4, <3>5, <3>6, PartsIn DEF S
      <3>9. x \in DataSymbols /\ y \in DataSymbols
        BY <3>7, <3>8
      <3>10. CalculateCheckSymbol(b, fa \o <<x>>) = y /\ CalculateCheckSymbol(b, fa \o <<y>>) = x
        BY <3>1, <3>2, <3>4, <3>6
      <3>11. x = y
        BY <3>7, <3>9, <3>10, TypoIsNoticed
      <3> QED BY <3>1, <3>2, <3>11
    <2> QED BY <2>5, <2>6 DEF Slipped
  <1>5. CASE z # <<>>
    <2>1. PICK u \in Seq(Others), l \in Others : z = Append(u, l)
      BY <1>5, SequenceEmptyOrAppend
    <2>2. ASSUME NEW m \in Seq(Others)
          PROVE  /\ a \o m \o u \in Seq(Others)
                 /\ a \o m \o z = Append(a \o m \o u, l)
      <3>1. a \o m \in Seq(Others)
        BY Concatenation
      <3>2. a \o m \o u \in Seq(Others)
        BY <3>1, Concatenation
      <3>3. (a \o m) \o Append(u, l) = Append((a \o m) \o u, l)
        BY <3>1, AppendToSecond
      <3> QED BY <2>1, <3>2, <3>3
    <2>3. ASSUME NEW m \in Seq(Others), NEW r, NEW e, IsReading(b, f, a \o m \o z, r, e)
          PROVE  /\ r = fa \o Mapped(f, m) \o Mapped(f, u) /\ e = l
                 /\ fa \in Seq(DataSymbols) /\ Mapped(f, m) \in Seq(DataSymbols)
                 /\ Mapped(f, u) \in Seq(DataSymbols)
                 /\ CalculateCheckSymbol(b, r) = l
      <3>1. PICK w \in Seq(Others) : w = a \o m \o u
        BY <2>2
      <3>2. r = Mapped(f, w) /\ r \in Seq(DataSymbols) /\ e = l /\ CalculateCheckSymbol(b, r) = e
        <4>1. IsReading(b, f, Append(w, l), r, e)
          BY <2>2, <2>3, <3>1
        <4> QED BY <4>1, ReadingOf
      <3>3. Mapped(f, a \o m \o u) \in Seq(DataSymbols)
        BY <3>1, <3>2
      <3> QED BY <3>1, <3>2, <3>3, MappedParts
    <2> DEFINE fu == Mapped(f, u)
    <2>4. CASE s = a \o <<x>> \o z /\ t = a \o <<y>> \o z
      <3>1. /\ p = fa \o <<f[x]>> \o fu /\ c = l
            /\ fa \in Seq(DataSymbols) /\ <<f[x]>> \in Seq(DataSymbols) /\ fu \in Seq(DataSymbols)
            /\ CalculateCheckSymbol(b, p) = l
        <4>1. PICK m \in Seq(Others) : m = <<x>>
          BY <1>2
        <4>2. IsReading(b, f, a \o m \o z, p, c)
          BY <2>4, <4>1
        <4>3. /\ p = fa \o Mapped(f, m) \o fu /\ c = l
              /\ fa \in Seq(DataSymbols) /\ Mapped(f, m) \in Seq(DataSymbols)
              /\ fu \in Seq(DataSymbols) /\ CalculateCheckSymbol(b, p) = l
          BY <2>3, <4>2
        <4> HIDE DEF fa, fu
        <4> QED BY <1>3, <4>1, <4>3
      <3>2. /\ q = fa \o <<f[y]>> \o fu /\ d = l
            /\ <<f[y]>> \in Seq(DataSymbols) /\ CalculateCheckSymbol(b, q) = l
        <4>1. PICK m \in Seq(Others) : m = <<y>>
          BY <1>2
        <4>2. IsReading(b, f, a \o m \o z, q, d)
          BY <2>4, <4>1
        <4>3. /\ q = fa \o Mapped(f, m) \o fu /\ d = l
              /\ fa \in Seq(DataSymbols) /\ Mapped(f, m) \in Seq(DataSymbols)
              /\ fu \in Seq(DataSymbols) /\ CalculateCheckSymbol(b, q) = l
          BY <2>3, <4>2
        <4> HIDE DEF fa, fu
        <4> QED BY <1>3, <4>1, <4>3
      <3>3. f[x] \in DataSymbols /\ f[y] \in DataSymbols
        BY <3>1, <3>2
      <3> HIDE DEF fa, fu
      <3>4. f[x] = f[y]
        <4>1. PICK g \in DataSymbols, h \in DataSymbols : g = f[x] /\ h = f[y]
          BY <3>3
        <4>2. CalculateCheckSymbol(b, fa \o <<g>> \o fu) = l
          BY <3>1, <4>1
        <4>3. CalculateCheckSymbol(b, fa \o <<h>> \o fu) = l
          BY <3>2, <4>1
        <4>4. g # h => CalculateCheckSymbol(b, fa \o <<g>> \o fu)
                         # CalculateCheckSymbol(b, fa \o <<h>> \o fu)
          BY <3>1, TypoIsNoticed
        <4> QED BY <4>1, <4>2, <4>3, <4>4
      <3> QED BY <3>1, <3>2, <3>4
    <2>5. CASE s = a \o <<x, y>> \o z /\ t = a \o <<y, x>> \o z
      <3>1. /\ p = fa \o <<f[x], f[y]>> \o fu /\ c = l
            /\ fa \in Seq(DataSymbols) /\ <<f[x], f[y]>> \in Seq(DataSymbols)
            /\ fu \in Seq(DataSymbols) /\ CalculateCheckSymbol(b, p) = l
        <4>1. PICK m \in Seq(Others) : m = <<x, y>>
          BY <1>2
        <4>2. IsReading(b, f, a \o m \o z, p, c)
          BY <2>5, <4>1
        <4>3. /\ p = fa \o Mapped(f, m) \o fu /\ c = l
              /\ fa \in Seq(DataSymbols) /\ Mapped(f, m) \in Seq(DataSymbols)
              /\ fu \in Seq(DataSymbols) /\ CalculateCheckSymbol(b, p) = l
          BY <2>3, <4>2
        <4> HIDE DEF fa, fu
        <4> QED BY <1>3, <4>1, <4>3
      <3>2. /\ q = fa \o <<f[y], f[x]>> \o fu /\ d = l
            /\ CalculateCheckSymbol(b, q) = l
        <4>1. PICK m \in Seq(Others) : m = <<y, x>>
          BY <1>2
        <4>2. IsReading(b, f, a \o m \o z, q, d)
          BY <2>5, <4>1
        <4>3. /\ q = fa \o Mapped(f, m) \o fu /\ d = l
              /\ fa \in Seq(DataSymbols) /\ Mapped(f, m) \in Seq(DataSymbols)
              /\ fu \in Seq(DataSymbols) /\ CalculateCheckSymbol(b, q) = l
          BY <2>3, <4>2
        <4> HIDE DEF fa, fu
        <4> QED BY <1>3, <4>1, <4>3
      <3>3. f[x] \in DataSymbols /\ f[y] \in DataSymbols
        BY <3>1
      <3> HIDE DEF fa, fu
      <3>4. f[x] = f[y]
        <4>1. PICK g \in DataSymbols, h \in DataSymbols : g = f[x] /\ h = f[y]
          BY <3>3
        <4>2. CalculateCheckSymbol(b, fa \o <<g, h>> \o fu) = l
          BY <3>1, <4>1
        <4>3. CalculateCheckSymbol(b, fa \o <<h, g>> \o fu) = l
          BY <3>2, <4>1
        <4>4. g # h => CalculateCheckSymbol(b, fa \o <<g, h>> \o fu)
                         # CalculateCheckSymbol(b, fa \o <<h, g>> \o fu)
          BY <3>1, TypoIsNoticed
        <4> QED BY <4>1, <4>2, <4>3, <4>4
      <3> QED BY <3>1, <3>2, <3>4
    <2> QED BY <2>4, <2>5 DEF Slipped
  <1>6. QED
    BY <1>4, <1>5

-----------------------------------------------------------------------------
(* Random references as they are written *)

\* Multiples of g are at least g apart.
LEMMA Multiples ==
  ASSUME NEW g \in Nat \ {0}, NEW d \in Int
  PROVE  /\ d <= 0 => d * g <= 0
         /\ d >= 1 => d * g >= g
         /\ d >= 2 => d * g >= 2 * g
  OBVIOUS

\* n symbols fill q groups of g and r places of one more.
Fills(n, g, q, r) == q \in Int /\ r \in 1..g /\ n = q * g + r

\* There is one way to fill groups of g with n symbols: all but the last are full.
LEMMA FillsOneWay ==
  ASSUME NEW g \in Nat \ {0}, NEW n, NEW q, NEW r, NEW p, NEW s,
         Fills(n, g, q, r), Fills(n, g, p, s)
  PROVE  q = p /\ r = s
  <1>0. q \in Int /\ r \in 1..g /\ p \in Int /\ s \in 1..g /\ q * g + r = p * g + s
    BY DEF Fills
  <1>1. (q - p) * g = s - r
    BY <1>0
  <1>2. -g < s - r /\ s - r < g
    BY <1>0
  <1>3. ~(q - p >= 1) /\ ~(p - q >= 1)
    <2>1. (p - q) * g = r - s
      BY <1>0
    <2>2. q - p \in Int /\ p - q \in Int
      BY <1>0
    <2> QED BY <1>0, <1>1, <1>2, <2>1, <2>2, Multiples
  <1>4. q = p
    BY <1>0, <1>3
  <1>5. QED
    BY <1>0, <1>4

\* The last group is full where n is a multiple of g.
LEMMA FullGroup ==
  ASSUME NEW g \in Nat \ {0}, NEW q, NEW r, NEW n \in Nat, Fills(n, g, q, r)
  PROVE  n % g = 0 <=> r = g
  <1> DEFINE m == n \div g
             k == n % g
  <1>1. n = m * g + k /\ k \in 0..g-1 /\ m \in Nat
    <2>1. n % g \in 0..g-1
      OBVIOUS
    <2>2. n = g * (n \div g) + (n % g)
      OBVIOUS
    <2>3. n \div g \in Nat
      OBVIOUS
    <2>4. g * (n \div g) = (n \div g) * g
      BY <2>3
    <2> QED BY <2>1, <2>2, <2>3, <2>4
  <1> HIDE DEF m, k
  <1>2. ASSUME k = 0 PROVE r = g
    <2>1. n = (m - 1) * g + g /\ m - 1 \in Int /\ g \in 1..g
      BY <1>1, <1>2
    <2>2. Fills(n, g, m - 1, g)
      BY <2>1 DEF Fills
    <2> QED BY <2>2, FillsOneWay
  <1>3. ASSUME r = g PROVE k = 0
    <2>1. CASE k # 0
      <3>1. Fills(n, g, m, k)
        BY <1>1, <2>1 DEF Fills
      <3>2. k = r
        BY <3>1, FillsOneWay
      <3> QED BY <1>1, <1>3, <3>2
    <2> QED BY <2>1
  <1>4. QED
    BY <1>2, <1>3 DEF k

\* The number of groups before the last.
LEMMA FullGroups ==
  ASSUME NEW g \in Nat \ {0}, NEW n \in Nat \ {0}, NEW q, NEW r, Fills(n, g, q, r)
  PROVE  (n - 1) \div g = q
  BY DEF Fills

\* The state of the writer, and a round of it.
Written(payload) ==
  Loop([written \in [count : Nat, text : Seq(ReferenceSymbols)] |-> [c \in DataSymbols |->
          [count |-> written.count + 1,
           text |-> IF written.count # 0 /\ written.count % GroupLength = 0
                    THEN written.text \o <<Hyphen, c>>
                    ELSE Append(written.text, c)]]],
       [count |-> 0, text |-> <<>>], payload)

\* Payloads are texts.
LEMMA DataIsRead ==
  /\ DataSymbols \subseteq Others /\ DataSymbols \subseteq ReferenceSymbols
  /\ \A p \in Seq(DataSymbols) : p \in Seq(Others) /\ p \in Seq(ReferenceSymbols)
  BY SymbolSets, LargerSet

\* Grouped, symbol by symbol: a hyphen before each new group (reference.ts:409-413).
LEMMA GroupedSteps ==
  /\ Grouped(<<>>) = <<>>
  /\ \A p \in Seq(DataSymbols) :
       /\ Grouped(p) \in Seq(ReferenceSymbols)
       /\ \A c \in DataSymbols :
            Grouped(Append(p, c)) =
              IF Len(p) # 0 /\ Len(p) % GroupLength = 0
              THEN Append(Append(Grouped(p), Hyphen), c)
              ELSE Append(Grouped(p), c)
  <1> DEFINE S == DataSymbols
             V == [count : Nat, text : Seq(ReferenceSymbols)]
             start == [count |-> 0, text |-> <<>>]
             next(w, c) == [count |-> w.count + 1,
                            text |-> IF w.count # 0 /\ w.count % GroupLength = 0
                                     THEN w.text \o <<Hyphen, c>>
                                     ELSE Append(w.text, c)]
             round == [w \in V |-> [c \in S |-> next(w, c)]]
  <1>1. \A p : Grouped(p) = Written(p).text /\ Written(p) = Loop(round, start, p)
    BY DEF Grouped, Written
  <1>2. ASSUME NEW w \in V, NEW c \in S PROVE next(w, c) \in V
    <2>1. w.count \in Nat /\ w.text \in Seq(ReferenceSymbols) /\ w.count + 1 \in Nat
      OBVIOUS
    <2>2. c \in ReferenceSymbols /\ Hyphen \in ReferenceSymbols
      BY DataIsRead, HyphenAndOthers
    <2>3. Append(w.text, c) \in Seq(ReferenceSymbols)
      BY <2>1, <2>2
    <2>4. w.text \o <<Hyphen, c>> \in Seq(ReferenceSymbols)
      <3>1. <<Hyphen, c>> \in Seq(ReferenceSymbols)
        BY <2>2
      <3> QED BY <2>1, <3>1, Concatenation
    <2> QED BY <2>1, <2>3, <2>4
  <1>3. start \in V
    OBVIOUS
  <1>4. \A w \in V, c \in S : round[w][c] = next(w, c)
    <2> HIDE DEF V, next
    <2> QED OBVIOUS
  <1>5. round \in [V -> [S -> V]]
    <2> HIDE DEF V, next
    <2> QED BY <1>2
  <1> HIDE DEF V, round, S
  <1>6. Rounds(round, start, V, S)
    <2> HIDE DEF start
    <2> QED BY <1>3, <1>5, LoopSteps
  <1>7. /\ Written(<<>>) = start
        /\ \A p \in Seq(S) : Written(p) \in V
        /\ \A p \in Seq(S), c \in S : Written(Append(p, c)) = next(Written(p), c)
    <2> HIDE DEF start, next
    <2> QED BY <1>1, <1>4, <1>6 DEF Rounds
  <1> DEFINE T == {p \in Seq(S) : Written(p).count = Len(p)}
  <1>8. Seq(S) \subseteq T
    <2>1. <<>> \in T
      <3>1. <<>> \in Seq(S) /\ Len(<<>>) = 0
        OBVIOUS
      <3> QED BY <1>7, <3>1
    <2>2. ASSUME NEW p \in Seq(S), NEW c \in S, p \in T PROVE Append(p, c) \in T
      <3>1. Append(p, c) \in Seq(S) /\ Len(Append(p, c)) = Len(p) + 1
        OBVIOUS
      <3>2. Written(Append(p, c)).count = Written(p).count + 1
        <4>1. Written(Append(p, c)) = next(Written(p), c)
          <5> HIDE DEF next, T
          <5> QED BY <1>7
        <4> QED BY <4>1
      <3>3. Written(p).count = Len(p)
        BY <2>2
      <3> QED BY <3>1, <3>2, <3>3
    <2> HIDE DEF T
    <2> QED BY <2>1, <2>2, SequenceInduction
  <1>9. ASSUME NEW p \in Seq(S)
        PROVE  Grouped(p) \in Seq(ReferenceSymbols)
    <2>1. Written(p) \in V
      BY <1>7
    <2> QED BY <1>1, <2>1 DEF V
  <1>10. ASSUME NEW p \in Seq(S), NEW c \in S
         PROVE  Grouped(Append(p, c)) =
                  IF Len(p) # 0 /\ Len(p) % GroupLength = 0
                  THEN Append(Append(Grouped(p), Hyphen), c)
                  ELSE Append(Grouped(p), c)
    <2>1. Written(p).count = Len(p)
      BY <1>8
    <2>2. Grouped(Append(p, c)) =
            IF Len(p) # 0 /\ Len(p) % GroupLength = 0
            THEN Grouped(p) \o <<Hyphen, c>> ELSE Append(Grouped(p), c)
      BY <1>1, <1>7, <2>1, SMTT(60)
    <2>3. Grouped(p) \o <<Hyphen, c>> = Append(Append(Grouped(p), Hyphen), c)
      <3>1. PICK g \in Seq(ReferenceSymbols) : g = Grouped(p)
        BY <1>9
      <3>2. Hyphen \in ReferenceSymbols /\ c \in ReferenceSymbols
        BY DataIsRead, HyphenAndOthers DEF S
      <3> QED BY <3>1, <3>2, AppendedParts
    <2> QED BY <2>2, <2>3
  <1>11. Grouped(<<>>) = <<>>
    BY <1>1, <1>7
  <1>12. QED
    BY <1>9, <1>10, <1>11 DEF S

\* Without its hyphens it is the payload again.
LEMMA GroupedSymbols ==
  ASSUME NEW p \in Seq(DataSymbols)
  PROVE  /\ WithoutHyphens(Grouped(p)) = p
         /\ Grouped(p) \in Seq(DataSymbols \cup {Hyphen})
  <1> DEFINE S == DataSymbols
             X == S \cup {Hyphen}
             T == {q \in Seq(S) : WithoutHyphens(Grouped(q)) = q /\ Grouped(q) \in Seq(X)}
  <1>1. <<>> \in T
    <2>1. <<>> \in Seq(S) /\ <<>> \in Seq(X)
      OBVIOUS
    <2>2. WithoutHyphens(<<>>) = <<>>
      BY HyphensDropped
    <2> HIDE DEF X
    <2> QED BY <2>1, <2>2, GroupedSteps
  <1>2. ASSUME NEW q \in Seq(S), NEW c \in S, q \in T PROVE Append(q, c) \in T
    <2>1. PICK g \in Seq(ReferenceSymbols) : g = Grouped(q)
      BY GroupedSteps
    <2>2. g \in Seq(X) /\ WithoutHyphens(g) = q
      BY <1>2, <2>1
    <2>3. c \in Others /\ c \in X /\ Hyphen \in X /\ Hyphen \in ReferenceSymbols
      BY DataIsRead, HyphenAndOthers
    <2>4. Append(q, c) \in Seq(S)
      OBVIOUS
    <2> HIDE DEF X
    <2>5. /\ Append(g, Hyphen) \in Seq(ReferenceSymbols) /\ Append(g, Hyphen) \in Seq(X)
      BY <2>2, <2>3
    <2>6. Append(Append(g, Hyphen), c) \in Seq(X) /\ Append(g, c) \in Seq(X)
      BY <2>2, <2>3, <2>5
    <2>7. WithoutHyphens(Append(Append(g, Hyphen), c)) = Append(q, c)
      BY <2>2, <2>3, <2>5, HyphensDropped
    <2>8. WithoutHyphens(Append(g, c)) = Append(q, c)
      BY <2>2, <2>3, HyphensDropped
    <2>9. Grouped(Append(q, c)) \in {Append(Append(g, Hyphen), c), Append(g, c)}
      BY <2>1, GroupedSteps
    <2> QED BY <2>4, <2>6, <2>7, <2>8, <2>9
  <1>3. Seq(S) \subseteq T
    <2> HIDE DEF T
    <2> QED BY <1>1, <1>2, SequenceInduction
  <1>4. QED
    BY <1>3

\* The groups n symbols are written in.
InGroups(lengths, n) ==
  /\ lengths \in Seq(Nat) /\ Len(lengths) >= 1
  /\ \A i \in 1..Len(lengths) - 1 : lengths[i] = GroupLength
  /\ Fills(n, GroupLength, Len(lengths) - 1, lengths[Len(lengths)])

\* The lengths of groups follow from the number of symbols.
LEMMA InGroupsOneWay ==
  ASSUME NEW n, NEW g, InGroups(g, n), NEW h, InGroups(h, n)
  PROVE  g = h
  <1>1. GroupLength \in Nat \ {0}
    BY LengthsAssumption
  <1>2. Len(g) - 1 = Len(h) - 1 /\ g[Len(g)] = h[Len(h)]
    BY <1>1, FillsOneWay DEF InGroups
  <1>3. g \in Seq(Nat) /\ h \in Seq(Nat) /\ Len(g) = Len(h)
    BY <1>2 DEF InGroups
  <1>4. \A i \in 1..Len(g) : g[i] = h[i]
    BY <1>2, <1>3 DEF InGroups
  <1> QED BY <1>3, <1>4

\* One more symbol opens a group or lengthens the last.
LEMMA OneLongerGroup ==
  ASSUME NEW n \in Nat, NEW g, InGroups(g, n)
  PROVE  /\ n % GroupLength = 0 =>
              InGroups(OneLonger(Append(g, 0)), n + 1) /\ Len(OneLonger(Append(g, 0))) = Len(g) + 1
         /\ n % GroupLength # 0 =>
              InGroups(OneLonger(g), n + 1) /\ Len(OneLonger(g)) = Len(g)
  <1> DEFINE k == Len(g)
             G == GroupLength
  <1>1. G \in Nat \ {0} /\ k \in Nat \ {0} /\ g \in Seq(Nat) /\ Fills(n, G, k - 1, g[k])
        /\ \A i \in 1..k - 1 : g[i] = G
    BY LengthsAssumption DEF InGroups
  <1>2. n % G = 0 <=> g[k] = G
    BY <1>1, FullGroup
  <1>3. n = (k - 1) * G + g[k] /\ g[k] \in 1..G
    BY <1>1 DEF Fills
  <1>4. (k - 1) * G + G = k * G
    BY <1>1
  <1>5. ASSUME n % G = 0
        PROVE  InGroups(OneLonger(Append(g, 0)), n + 1) /\ Len(OneLonger(Append(g, 0))) = k + 1
    <2>1. OneLonger(Append(g, 0)) = Append(g, 1)
      <3>1. Append(g, 0) = [i \in 1..k + 1 |-> IF i = k + 1 THEN 0 ELSE g[i]]
        BY <1>1, Appended
      <3>2. Append(g, 1) = [i \in 1..k + 1 |-> IF i = k + 1 THEN 1 ELSE g[i]]
        BY <1>1, Appended
      <3>3. Len(Append(g, 0)) = k + 1
        BY <1>1
      <3> HIDE DEF k
      <3> QED BY <1>1, <3>1, <3>2, <3>3 DEF OneLonger
    <2> DEFINE h == Append(g, 1)
    <2>2. h \in Seq(Nat) /\ Len(h) = k + 1 /\ h[k + 1] = 1 /\ \A i \in 1..k : h[i] = G
      BY <1>1, <1>2, <1>5
    <2>3. Fills(n + 1, G, k, 1)
      <3>1. n + 1 = k * G + 1
        BY <1>1, <1>2, <1>3, <1>4, <1>5
      <3> QED BY <1>1, <3>1 DEF Fills
    <2> HIDE DEF G, k, h
    <2>4. InGroups(h, n + 1)
      BY <1>1, <2>2, <2>3 DEF InGroups, G
    <2> QED BY <2>1, <2>2, <2>4 DEF h
  <1>6. ASSUME n % G # 0
        PROVE  InGroups(OneLonger(g), n + 1) /\ Len(OneLonger(g)) = k
    <2>1. /\ OneLonger(g) \in Seq(Nat) /\ Len(OneLonger(g)) = k
          /\ \A i \in 1..k - 1 : OneLonger(g)[i] = G
          /\ OneLonger(g)[k] = g[k] + 1
      BY <1>1 DEF OneLonger
    <2>2. Fills(n + 1, G, k - 1, g[k] + 1)
      <3>1. n + 1 = (k - 1) * G + (g[k] + 1)
        BY <1>1, <1>3
      <3>2. g[k] # G
        BY <1>2, <1>6
      <3>3. g[k] + 1 \in 1..G
        BY <1>1, <1>3, <3>2
      <3> QED BY <1>1, <3>1, <3>3 DEF Fills
    <2> HIDE DEF G, k
    <2> QED BY <1>1, <2>1, <2>2 DEF InGroups, G
  <1> QED BY <1>5, <1>6

\* A payload is written in groups, with a hyphen between each two of them.
LEMMA GroupedLengths ==
  ASSUME NEW p \in Seq(DataSymbols), p # <<>>
  PROVE  /\ InGroups(GroupLengths(Grouped(p)), Len(p))
         /\ Len(Grouped(p)) = Len(p) + Len(GroupLengths(Grouped(p))) - 1
  <1> DEFINE S == DataSymbols
             good(q) == /\ InGroups(GroupLengths(Grouped(q)), Len(q))
                        /\ Len(Grouped(q)) = Len(q) + Len(GroupLengths(Grouped(q))) - 1
             T == {q \in Seq(S) : q = <<>> \/ good(q)}
  <1>1. <<>> \in T
    OBVIOUS
  <1>2. ASSUME NEW q \in Seq(S), NEW c \in S, q \in T PROVE Append(q, c) \in T
    <2>1. PICK g \in Seq(ReferenceSymbols) : g = Grouped(q)
      BY GroupedSteps
    <2>2. c \in Others /\ c \in ReferenceSymbols /\ Hyphen \in ReferenceSymbols
      BY DataIsRead, HyphenAndOthers
    <2>3. Append(q, c) \in Seq(S) /\ Len(Append(q, c)) = Len(q) + 1 /\ Len(q) \in Nat
      OBVIOUS
    <2>4. PICK l \in Seq(Nat) : l = GroupLengths(g) /\ Len(l) >= 1
      BY GroupLengthsSteps
    <2>5. /\ GroupLengths(Append(g, c)) = OneLonger(l)
          /\ GroupLengths(Append(Append(g, Hyphen), c)) = OneLonger(Append(l, 0))
      <3>1. Append(g, Hyphen) \in Seq(ReferenceSymbols)
        BY <2>2
      <3> QED BY <2>2, <2>4, <3>1, GroupLengthsSteps
    <2>6. /\ Len(Append(g, c)) = Len(g) + 1 /\ Len(g) \in Nat
          /\ Len(Append(Append(g, Hyphen), c)) = Len(g) + 2
      BY <2>2
    <2>7. CASE q = <<>>
      <3>1. Grouped(Append(q, c)) = Append(g, c) /\ g = <<>> /\ Len(q) = 0
        BY <2>1, <2>7, GroupedSteps
      <3>2. l = <<0>>
        BY <2>4, <3>1, GroupLengthsSteps
      <3>3. OneLonger(l) = <<1>>
        BY <3>2 DEF OneLonger
      <3>4. InGroups(<<1>>, 1)
        BY LengthsAssumption DEF InGroups, Fills
      <3>5. good(Append(q, c))
        BY <2>3, <2>5, <2>6, <3>1, <3>3, <3>4
      <3> QED BY <2>3, <3>5
    <2>8. CASE q # <<>>
      <3>1. InGroups(l, Len(q)) /\ Len(g) = Len(q) + Len(l) - 1 /\ Len(q) # 0
        BY <1>2, <2>1, <2>4, <2>8
      <3>2. good(Append(q, c))
        <4>1. CASE Len(q) % GroupLength = 0
          <5>1. Grouped(Append(q, c)) = Append(Append(g, Hyphen), c)
            BY <2>1, <3>1, <4>1, GroupedSteps
          <5>2. InGroups(OneLonger(Append(l, 0)), Len(q) + 1)
                /\ Len(OneLonger(Append(l, 0))) = Len(l) + 1
            BY <2>3, <3>1, <4>1, OneLongerGroup
          <5>3. GroupLengths(Grouped(Append(q, c))) = OneLonger(Append(l, 0))
            BY <2>5, <5>1
          <5>4. Len(Grouped(Append(q, c))) = Len(Append(q, c)) + Len(OneLonger(Append(l, 0))) - 1
            <6>1. Len(Append(Append(g, Hyphen), c)) = Len(q) + 1 + (Len(l) + 1) - 1
              BY <2>3, <2>4, <2>6, <3>1
            <6> QED BY <2>3, <5>1, <5>2, <6>1
          <5> QED BY <2>3, <5>2, <5>3, <5>4
        <4>2. CASE Len(q) % GroupLength # 0
          <5>1. Grouped(Append(q, c)) = Append(g, c)
            BY <2>1, <3>1, <4>2, GroupedSteps
          <5>2. InGroups(OneLonger(l), Len(q) + 1) /\ Len(OneLonger(l)) = Len(l)
            BY <2>3, <3>1, <4>2, OneLongerGroup
          <5>3. GroupLengths(Grouped(Append(q, c))) = OneLonger(l)
            BY <2>5, <5>1
          <5>4. Len(Grouped(Append(q, c))) = Len(Append(q, c)) + Len(OneLonger(l)) - 1
            <6>1. Len(Append(g, c)) = Len(q) + 1 + Len(l) - 1
              BY <2>3, <2>4, <2>6, <3>1
            <6> QED BY <2>3, <5>1, <5>2, <6>1
          <5> QED BY <2>3, <5>2, <5>3, <5>4
        <4> QED BY <4>1, <4>2
      <3> QED BY <2>3, <3>2
    <2> QED BY <2>7, <2>8
  <1>3. Seq(S) \subseteq T
    <2> HIDE DEF T
    <2> QED BY <1>1, <1>2, SequenceInduction
  <1> QED BY <1>3

\* The hyphens RandomGroups asks for are those that are written.
LEMMA RandomGroupsAre ==
  ASSUME NEW n \in Nat \ {0}
  PROVE  \E g : InGroups(g, n) /\ RandomGroups(n) = Append(g, 1)
  <1> DEFINE G == GroupLength
             full == n \div G
             rest == n % G
             groups == [i \in 1..full |-> G]
  <1>1. /\ G \in Nat \ {0} /\ full \in Nat /\ rest \in 0..G - 1 /\ n = full * G + rest
    <2>1. G \in Nat \ {0}
      BY LengthsAssumption
    <2>2. n \div G \in Nat /\ n % G \in 0..G - 1 /\ n = G * (n \div G) + (n % G)
      BY <2>1
    <2>3. G * (n \div G) = (n \div G) * G
      BY <2>1, <2>2
    <2> QED BY <2>1, <2>2, <2>3
  <1> HIDE DEF full, rest
  <1>2. groups \in Seq(Nat) /\ Len(groups) = full /\ \A i \in 1..full : groups[i] = G
    BY <1>1
  <1>3. RandomGroups(n) = groups \o (IF rest = 0 THEN <<>> ELSE <<rest>>) \o <<1>>
    BY DEF RandomGroups, full, rest
  <1> HIDE DEF groups
  <1>4. CASE rest = 0
    <2>1. RandomGroups(n) = Append(groups, 1)
      BY <1>2, <1>3, <1>4
    <2>2. full >= 1
      BY <1>1, <1>4
    <2>3. Fills(n, G, full - 1, G)
      <3>1. n = (full - 1) * G + G
        BY <1>1, <1>4
      <3> QED BY <1>1, <3>1 DEF Fills
    <2>4. InGroups(groups, n)
      BY <1>2, <2>2, <2>3 DEF InGroups
    <2> QED BY <2>1, <2>4
  <1>5. CASE rest # 0
    <2> DEFINE g == Append(groups, rest)
    <2>1. g \in Seq(Nat) /\ Len(g) = full + 1 /\ g[full + 1] = rest
          /\ \A i \in 1..full : g[i] = G
      BY <1>1, <1>2
    <2>2. RandomGroups(n) = Append(g, 1)
      BY <1>1, <1>2, <1>3, <1>5
    <2> HIDE DEF g
    <2>3. Fills(n, G, full, rest)
      BY <1>1, <1>5 DEF Fills
    <2>4. InGroups(g, n)
      BY <1>1, <2>1, <2>3 DEF InGroups
    <2> QED BY <2>2, <2>4
  <1> QED BY <1>4, <1>5
\* What stands behind the prefix and its hyphen.
RandomBody(payload, check) == Grouped(payload) \o <<Hyphen, check>>
\* What the two writers write behind the prefix and its hyphen.
SequentialBody(scope, sequence, check) ==
  (IF scope = <<>> THEN <<>> ELSE scope \o <<Hyphen>>) \o sequence \o <<Hyphen, check>>

\* Two symbols behind a sequence, one after the other.
LEMMA PairBehind ==
  ASSUME NEW S, NEW s \in Seq(S), NEW c \in S, NEW d \in S
  PROVE  s \o <<c, d>> = Append(s, c) \o <<d>>
  <1>1. s \o <<c, d>> = Append(Append(s, c), d)
    BY AppendedParts
  <1>2. Append(s, c) \in Seq(S)
    OBVIOUS
  <1>3. PICK u \in Seq(S) : u = Append(s, c)
    BY <1>2
  <1>4. u \o <<d>> = Append(u, d)
    OBVIOUS
  <1> QED BY <1>1, <1>3, <1>4

\* Check symbols are symbols of a text, and none is a hyphen.
LEMMA ChecksAreRead ==
  /\ CheckSymbols \subseteq Others /\ DataSymbols \subseteq CheckSymbols
  /\ Digits \subseteq DataSymbols
  /\ Hyphen \in CheckSymbols \cup {Hyphen}
  /\ CheckSymbols \cup {Hyphen} \subseteq ReferenceSymbols
  BY SymbolSets

\* What formatReference writes behind the prefix: its symbols, its groups, its
\* length.
LEMMA RandomBodyIs ==
  ASSUME NEW p \in Seq(DataSymbols), p # <<>>, NEW c \in CheckSymbols
  PROVE  /\ RandomBody(p, c) \in Seq(CheckSymbols \cup {Hyphen})
         /\ WithoutHyphens(RandomBody(p, c)) = Append(p, c)
         /\ GroupLengths(RandomBody(p, c)) = RandomGroups(Len(p))
         /\ Len(RandomBody(p, c)) = Len(p) + (Len(p) - 1) \div GroupLength + 2
  <1> DEFINE X == CheckSymbols \cup {Hyphen}
  <1>1. PICK g \in Seq(X) : g = Grouped(p)
    <2>1. DataSymbols \cup {Hyphen} \subseteq X
      BY ChecksAreRead
    <2> HIDE DEF X
    <2> QED BY <2>1, GroupedSymbols, LargerSet
  <1>2. g \in Seq(ReferenceSymbols)
    BY <1>1, GroupedSteps
  <1>3. c \in X /\ Hyphen \in X /\ c \in Others /\ c \in ReferenceSymbols
        /\ Hyphen \in ReferenceSymbols
    BY ChecksAreRead
  <1> HIDE DEF X
  <1>4. RandomBody(p, c) = Append(Append(g, Hyphen), c)
    <2>1. g \o <<Hyphen, c>> = Append(Append(g, Hyphen), c)
      BY <1>2, <1>3, AppendedParts
    <2> QED BY <1>1, <2>1 DEF RandomBody
  <1>5. Append(g, Hyphen) \in Seq(ReferenceSymbols)
    BY <1>2, <1>3
  <1>6. RandomBody(p, c) \in Seq(X) /\ Len(RandomBody(p, c)) = Len(g) + 2 /\ Len(g) \in Nat
    BY <1>1, <1>3, <1>4
  <1>7. WithoutHyphens(RandomBody(p, c)) = Append(p, c)
    <2>1. WithoutHyphens(g) = p
      BY <1>1, GroupedSymbols
    <2>2. WithoutHyphens(Append(Append(g, Hyphen), c)) = Append(WithoutHyphens(Append(g, Hyphen)), c)
      BY <1>3, <1>5, HyphensDropped
    <2> QED BY <1>2, <1>4, <2>1, <2>2, HyphensDropped
  <1>8. PICK l \in Seq(Nat) : l = GroupLengths(g) /\ InGroups(l, Len(p))
        /\ Len(g) = Len(p) + Len(l) - 1
    <2>1. GroupLengths(g) \in Seq(Nat)
      BY <1>2, GroupLengthsSteps
    <2> QED BY <1>1, <2>1, GroupedLengths
  <1>9. Len(p) \in Nat \ {0}
    OBVIOUS
  <1>10. GroupLengths(RandomBody(p, c)) = Append(l, 1)
    <2>1. GroupLengths(Append(g, Hyphen)) = Append(l, 0)
      BY <1>2, <1>8, GroupLengthsSteps
    <2>2. GroupLengths(RandomBody(p, c)) = OneLonger(Append(l, 0))
      BY <1>3, <1>4, <1>5, <2>1, GroupLengthsSteps
    <2>3. OneLonger(Append(l, 0)) = Append(l, 1)
      <3>1. [Append(l, 0) EXCEPT ![Len(Append(l, 0))] = 1] = Append(l, 1)
        <4>1. 0 \in Nat /\ 1 \in Nat /\ l \in Seq(Nat)
          BY <1>8
        <4> QED BY <4>1, LastReplaced
      <3>2. Append(l, 0)[Len(Append(l, 0))] = 0
        BY <1>8
      <3> QED BY <3>1, <3>2 DEF OneLonger
    <2> QED BY <2>2, <2>3
  <1>11. RandomGroups(Len(p)) = Append(l, 1)
    <2>1. PICK h : InGroups(h, Len(p)) /\ RandomGroups(Len(p)) = Append(h, 1)
      BY <1>9, RandomGroupsAre
    <2>2. h = l
      BY <1>8, <2>1, InGroupsOneWay
    <2> QED BY <2>1, <2>2
  <1>12. (Len(p) - 1) \div GroupLength = Len(l) - 1
    <2>1. Fills(Len(p), GroupLength, Len(l) - 1, l[Len(l)])
      BY <1>8 DEF InGroups
    <2> QED BY <1>9, <2>1, LengthsAssumption, FullGroups
  <1> QED BY <1>6, <1>7, <1>8, <1>9, <1>10, <1>11, <1>12 DEF X

\* A third and a fourth item.
LEMMA MoreAppended ==
  ASSUME NEW a, NEW b, NEW c, NEW d
  PROVE  /\ Append(<<a, b>>, c) = <<a, b, c>>
         /\ Append(<<a, b, c>>, d) = <<a, b, c, d>>
  <1>1. <<a, b>> \in Seq({a, b, c}) /\ <<a, b, c>> \in Seq({a, b, c, d})
    OBVIOUS
  <1>2. PICK s \in Seq({a, b, c}) : s = <<a, b>>
    BY <1>1
  <1>3. PICK t \in Seq({a, b, c, d}) : t = <<a, b, c>>
    BY <1>1
  <1>4. Append(s, c) = [i \in 1..3 |-> IF i = 3 THEN c ELSE s[i]]
    BY <1>2
  <1>5. <<a, b, c>> = [i \in 1..3 |-> IF i = 3 THEN c ELSE s[i]]
    BY <1>2
  <1>6. Append(t, d) = [i \in 1..4 |-> IF i = 4 THEN d ELSE t[i]]
    BY <1>3
  <1>7. <<a, b, c, d>> = [i \in 1..4 |-> IF i = 4 THEN d ELSE t[i]]
    BY <1>3
  <1> QED BY <1>2, <1>3, <1>4, <1>5, <1>6, <1>7

\* The lengths of two groups.
LEMMA LengthsOfTwo ==
  ASSUME NEW s, NEW a, NEW b, s = <<a, b>>
  PROVE  [i \in DOMAIN s |-> Len(s[i])] = <<Len(a), Len(b)>>
  <1>1. DOMAIN s = 1..2 /\ s[1] = a /\ s[2] = b
    OBVIOUS
  <1>2. <<Len(a), Len(b)>> = [i \in 1..2 |-> IF i = 1 THEN Len(a) ELSE Len(b)]
    OBVIOUS
  <1>3. [i \in 1..2 |-> Len(s[i])] = [i \in 1..2 |-> IF i = 1 THEN Len(a) ELSE Len(b)]
    BY <1>1
  <1> QED BY <1>1, <1>2, <1>3

\* The lengths of three groups.
LEMMA LengthsOfThree ==
  ASSUME NEW s, NEW a, NEW b, NEW c, s = <<a, b, c>>
  PROVE  [i \in DOMAIN s |-> Len(s[i])] = <<Len(a), Len(b), Len(c)>>
  <1> DEFINE lengths == [i \in 1..3 |-> IF i = 1 THEN Len(a) ELSE IF i = 2 THEN Len(b) ELSE Len(c)]
  <1>1. DOMAIN s = 1..3 /\ s[1] = a /\ s[2] = b /\ s[3] = c
    OBVIOUS
  <1>2. <<Len(a), Len(b), Len(c)>> = lengths
    OBVIOUS
  <1>3. [i \in 1..3 |-> Len(s[i])] = lengths
    BY <1>1
  <1> QED BY <1>1, <1>2, <1>3

\* A group p o y and its hyphen, before t.
GroupStands(p, y, h, t) == p \o (Append(y, h) \o t) = Append(p \o y, h) \o t

\* A group and its hyphen may be taken to what is in front of them.
LEMMA HyphenBehind ==
  ASSUME NEW S, NEW p \in Seq(S), NEW y \in Seq(S), NEW h \in S, NEW t \in Seq(S)
  PROVE  GroupStands(p, y, h, t)
  <1>1. PICK z \in Seq(S) : z = Append(y, h)
    <2>1. Append(y, h) \in Seq(S)
      OBVIOUS
    <2> QED BY <2>1
  <1>2. p \o (z \o t) = (p \o z) \o t
    OBVIOUS
  <1>3. p \o Append(y, h) = Append(p \o y, h)
    OBVIOUS
  <1> QED BY <1>1, <1>2, <1>3 DEF GroupStands

\* A group, and two groups, behind a hyphen.
GroupsStand(p, x, y, h, c) ==
  /\ y \o <<h, c>> = Append(y, h) \o <<c>>
  /\ x \o <<h>> \o y \o <<h, c>> = Append(Append(x, h) \o y, h) \o <<c>>
  /\ p \o <<h>> \o (y \o <<h, c>>) = Append(Append(p, h) \o y, h) \o <<c>>
  /\ p \o <<h>> \o (x \o <<h>> \o y \o <<h, c>>)
       = Append(Append(Append(p, h) \o x, h) \o y, h) \o <<c>>

\* So may two groups.
LEMMA GroupsBehind ==
  ASSUME NEW S, NEW p \in Seq(S), NEW x \in Seq(S), NEW y \in Seq(S), NEW h \in S, NEW c \in S
  PROVE  GroupsStand(p, x, y, h, c)
  <1>1. /\ Append(x, h) \in Seq(S) /\ Append(p, h) \in Seq(S)
        /\ x \o <<h>> = Append(x, h) /\ p \o <<h>> = Append(p, h)
    OBVIOUS
  <1>2. PICK P \in Seq(S) : P = Append(p, h)
    BY <1>1
  <1>3. PICK q \in Seq(S) : q = Append(x, h) \o y
    <2>1. Append(x, h) \o y \in Seq(S)
      OBVIOUS
    <2> QED BY <2>1
  <1>4. y \o <<h, c>> = Append(y, h) \o <<c>> /\ q \o <<h, c>> = Append(q, h) \o <<c>>
    <2>1. y \o <<h, c>> = Append(y, h) \o <<c>>
      BY PairBehind
    <2>2. q \o <<h, c>> = Append(q, h) \o <<c>>
      BY PairBehind
    <2> QED BY <2>1, <2>2
  <1>5. PICK e \in Seq(S) : e = <<c>>
    <2>1. <<c>> \in Seq(S)
      OBVIOUS
    <2> QED BY <2>1
  <1>6. GroupStands(P, y, h, e)
    BY HyphenBehind
  <1>7. GroupStands(P, q, h, e)
    BY HyphenBehind
  <1>8. GroupStands(P, x, h, y)
    BY HyphenBehind
  <1> QED BY <1>1, <1>2, <1>3, <1>4, <1>5, <1>6, <1>7, <1>8 DEF GroupsStand, GroupStands

\* The groups of a sequential reference, with and without a scope, are its parts.
LEMMA SequentialSplit ==
  ASSUME NEW p \in Seq(Others), NEW x \in Seq(Others), NEW y \in Seq(Others),
         NEW c \in Others
  PROVE  /\ Split(y \o <<Hyphen, c>>) = <<y, <<c>>>>
         /\ Split(x \o <<Hyphen>> \o y \o <<Hyphen, c>>) = <<x, y, <<c>>>>
         /\ Split(p \o <<Hyphen>> \o (y \o <<Hyphen, c>>)) = <<p, y, <<c>>>>
         /\ Split(p \o <<Hyphen>> \o (x \o <<Hyphen>> \o y \o <<Hyphen, c>>))
              = <<p, x, y, <<c>>>>
  <1> DEFINE R == ReferenceSymbols
  <1>1. PICK P \in Seq(R), X \in Seq(R), Y \in Seq(R), h \in R, d \in R :
          P = p /\ X = x /\ Y = y /\ h = Hyphen /\ d = c
    BY HyphenAndOthers
  <1> HIDE DEF R
  <1>2. Append(P, h) \o X \in Seq(R) /\ Append(P, h) \o Y \in Seq(R)
        /\ Append(X, h) \o Y \in Seq(R)
    OBVIOUS
  <1>3. PICK PX \in Seq(R), PY \in Seq(R), XY \in Seq(R) :
          PX = Append(P, h) \o X /\ PY = Append(P, h) \o Y /\ XY = Append(X, h) \o Y
    BY <1>2
  <1>4. Append(PX, h) \o Y \in Seq(R)
    OBVIOUS
  <1>5. PICK PXY \in Seq(R) : PXY = Append(PX, h) \o Y
    BY <1>4
  <1>6. <<c>> \in Seq(Others)
    OBVIOUS
  <1>7. PICK e \in Seq(Others) : e = <<c>>
    BY <1>6
  <1>8. Split(P) = <<p>> /\ Split(X) = <<x>> /\ Split(Y) = <<y>>
    BY <1>1, OneGroup
  <1>9. ASSUME NEW s \in Seq(R), NEW w \in Seq(Others)
        PROVE  Split(Append(s, h) \o w) = Append(Split(s), w)
    <2>1. s \in Seq(ReferenceSymbols)
      BY DEF R
    <2> QED BY <1>1, <2>1, OneMoreGroup
  <1>10. Split(PX) = <<p, x>> /\ Split(PY) = <<p, y>> /\ Split(XY) = <<x, y>>
    <2>1. Split(Append(P, h) \o x) = Append(Split(P), x)
      BY <1>9
    <2>2. Split(Append(P, h) \o y) = Append(Split(P), y)
      BY <1>9
    <2>3. Split(Append(X, h) \o y) = Append(Split(X), y)
      BY <1>9
    <2> QED BY <1>1, <1>3, <1>8, <2>1, <2>2, <2>3, PairAppended
  <1>11. Split(PXY) = Append(<<p, x>>, y)
    <2>1. Split(Append(PX, h) \o y) = Append(Split(PX), y)
      BY <1>9
    <2> QED BY <1>1, <1>5, <1>10, <2>1
  <1>12. /\ Split(Append(Y, h) \o e) = Append(<<y>>, e)
         /\ Split(Append(XY, h) \o e) = Append(<<x, y>>, e)
         /\ Split(Append(PY, h) \o e) = Append(<<p, y>>, e)
         /\ Split(Append(PXY, h) \o e) = Append(Append(<<p, x>>, y), e)
    BY <1>8, <1>9, <1>10, <1>11
  <1>13. /\ Append(<<y>>, e) = <<y, e>> /\ Append(<<x, y>>, e) = <<x, y, e>>
         /\ Append(<<p, y>>, e) = <<p, y, e>>
         /\ Append(Append(<<p, x>>, y), e) = <<p, x, y, e>>
    <2>1. Append(<<y>>, e) = <<y, e>>
      BY PairAppended
    <2>2. Append(<<x, y>>, e) = <<x, y, e>> /\ Append(<<x, y, e>>, e) = <<x, y, e, e>>
      BY MoreAppended
    <2>3. Append(<<p, y>>, e) = <<p, y, e>> /\ Append(<<p, y, e>>, e) = <<p, y, e, e>>
      BY MoreAppended
    <2>4. Append(<<p, x>>, y) = <<p, x, y>> /\ Append(<<p, x, y>>, e) = <<p, x, y, e>>
      BY MoreAppended
    <2> QED BY <2>1, <2>2, <2>3, <2>4
  <1>14. /\ Y \o <<h, d>> = Append(Y, h) \o <<d>>
         /\ X \o <<h>> \o Y \o <<h, d>> = Append(Append(X, h) \o Y, h) \o <<d>>
         /\ P \o <<h>> \o (Y \o <<h, d>>) = Append(Append(P, h) \o Y, h) \o <<d>>
         /\ P \o <<h>> \o (X \o <<h>> \o Y \o <<h, d>>)
              = Append(Append(Append(P, h) \o X, h) \o Y, h) \o <<d>>
    <2>1. GroupsStand(P, X, Y, h, d)
      BY GroupsBehind
    <2> QED BY <2>1 DEF GroupsStand
  <1>15. /\ Y \o <<h, d>> = Append(Y, h) \o e
         /\ X \o <<h>> \o Y \o <<h, d>> = Append(XY, h) \o e
         /\ P \o <<h>> \o (Y \o <<h, d>>) = Append(PY, h) \o e
         /\ P \o <<h>> \o (X \o <<h>> \o Y \o <<h, d>>) = Append(PXY, h) \o e
    BY <1>1, <1>3, <1>5, <1>7, <1>14
  <1> QED BY <1>1, <1>12, <1>13, <1>15, <1>7

\* The symbols of a sequential reference without its hyphens.
LEMMA SequentialSymbols ==
  ASSUME NEW x \in Seq(Others), NEW y \in Seq(Others), NEW c \in Others
  PROVE  /\ WithoutHyphens(y \o <<Hyphen, c>>) = Append(y, c)
         /\ WithoutHyphens(x \o <<Hyphen>> \o y \o <<Hyphen, c>>) = Append(x \o y, c)
  <1> DEFINE R == ReferenceSymbols
  <1>1. PICK X \in Seq(R), Y \in Seq(R), h \in R, d \in R :
          X = x /\ Y = y /\ h = Hyphen /\ d = c
    BY HyphenAndOthers
  <1> HIDE DEF R
  <1>2. Append(X, h) \o Y \in Seq(R) /\ Append(X, h) \in Seq(R) /\ Append(Y, h) \in Seq(R)
    OBVIOUS
  <1>3. PICK XY \in Seq(R), XH \in Seq(R), YH \in Seq(R) :
          XY = Append(X, h) \o Y /\ XH = Append(X, h) /\ YH = Append(Y, h)
    BY <1>2
  <1>4. Append(XY, h) \in Seq(R)
    OBVIOUS
  <1>5. PICK XYH \in Seq(R) : XYH = Append(XY, h)
    BY <1>4
  <1>6. ASSUME NEW s \in Seq(R) PROVE WithoutHyphens(Append(s, h)) = WithoutHyphens(s)
    BY <1>1, HyphensDropped DEF R
  <1>7. ASSUME NEW s \in Seq(R)
        PROVE  WithoutHyphens(s \o <<d>>) = Append(WithoutHyphens(s), d)
    <2>1. s \o <<d>> = Append(s, d)
      OBVIOUS
    <2> QED BY <1>1, <2>1, HyphensDropped, ZenonT(60) DEF R
  <1>8. WithoutHyphens(X) = x /\ WithoutHyphens(Y) = y
    BY <1>1, NoHyphens
  <1>9. WithoutHyphens(XY) = x \o y
    <2>1. WithoutHyphens(XH \o Y) = WithoutHyphens(XH) \o WithoutHyphens(Y)
      BY HyphensDroppedFromBoth DEF R
    <2>2. WithoutHyphens(XH) = WithoutHyphens(X)
      BY <1>3, <1>6
    <2> QED BY <1>3, <1>8, <2>1, <2>2
  <1>10. WithoutHyphens(YH \o <<d>>) = Append(y, d)
    <2>1. WithoutHyphens(YH) = y
      BY <1>3, <1>6, <1>8
    <2> QED BY <1>7, <2>1
  <1>11. WithoutHyphens(XYH \o <<d>>) = Append(x \o y, d)
    <2>1. WithoutHyphens(XYH) = x \o y
      BY <1>5, <1>6, <1>9
    <2> QED BY <1>7, <2>1
  <1>12. /\ Y \o <<h, d>> = YH \o <<d>>
         /\ X \o <<h>> \o Y \o <<h, d>> = XYH \o <<d>>
    <2>1. /\ Y \o <<h, d>> = Append(Y, h) \o <<d>>
          /\ X \o <<h>> \o Y \o <<h, d>> = Append(Append(X, h) \o Y, h) \o <<d>>
      <3>1. GroupsStand(Y, X, Y, h, d)
        BY GroupsBehind
      <3> QED BY <3>1 DEF GroupsStand
    <2> QED BY <1>3, <1>5, <2>1
  <1> QED BY <1>1, <1>10, <1>11, <1>12

\* The length of a sequential reference behind its prefix.
LEMMA SequentialPlaces ==
  ASSUME NEW S, NEW x \in Seq(S), NEW y \in Seq(S), NEW h \in S, NEW c \in S
  PROVE  /\ y \o <<h, c>> \in Seq(S) /\ Len(y \o <<h, c>>) = Len(y) + 2
         /\ x \o <<h>> \o y \o <<h, c>> \in Seq(S)
         /\ Len(x \o <<h>> \o y \o <<h, c>>) = Len(x) + Len(y) + 3
  <1>1. <<h, c>> \in Seq(S) /\ Len(<<h, c>>) = 2 /\ x \o <<h>> \in Seq(S)
        /\ Len(x \o <<h>>) = Len(x) + 1
    OBVIOUS
  <1>2. PICK u \in Seq(S), w \in Seq(S) : u = x \o <<h>> /\ w = <<h, c>>
    BY <1>1
  <1>3. u \o y \in Seq(S) /\ Len(u \o y) = Len(u) + Len(y)
    OBVIOUS
  <1>4. PICK v \in Seq(S) : v = u \o y
    BY <1>3
  <1>5. v \o w \in Seq(S) /\ Len(v \o w) = Len(v) + Len(w)
        /\ y \o w \in Seq(S) /\ Len(y \o w) = Len(y) + Len(w)
    OBVIOUS
  <1>6. Len(x) \in Nat /\ Len(y) \in Nat
    OBVIOUS
  <1> QED BY <1>1, <1>2, <1>3, <1>4, <1>5, <1>6

\* What formatSequentialParts writes behind the prefix: its symbols, its groups, its
\* length.
LEMMA SequentialBodyIs ==
  ASSUME NEW x \in Seq(Digits), NEW y \in Seq(Digits), NEW c \in CheckSymbols
  PROVE  /\ SequentialBody(x, y, c) \in Seq(CheckSymbols \cup {Hyphen})
         /\ WithoutHyphens(SequentialBody(x, y, c)) = Append(x \o y, c)
         /\ GroupLengths(SequentialBody(x, y, c))
              = IF x = <<>> THEN <<Len(y), 1>> ELSE <<Len(x), Len(y), 1>>
         /\ Len(SequentialBody(x, y, c))
              = IF x = <<>> THEN Len(y) + 2 ELSE Len(x) + Len(y) + 3
         /\ \A p \in Seq(Others) :
              Split(p \o <<Hyphen>> \o SequentialBody(x, y, c))
                = IF x = <<>> THEN <<p, y, <<c>>>> ELSE <<p, x, y, <<c>>>>
  <1> DEFINE X == CheckSymbols \cup {Hyphen}
             b == SequentialBody(x, y, c)
  <1>1. Digits \subseteq X /\ Digits \subseteq Others /\ Hyphen \in X /\ c \in X /\ c \in Others
    BY ChecksAreRead
  <1>2. x \in Seq(X) /\ y \in Seq(X) /\ x \in Seq(Others) /\ y \in Seq(Others)
    <2> HIDE DEF X
    <2> QED BY <1>1, LargerSet
  <1>3. b = IF x = <<>> THEN y \o <<Hyphen, c>> ELSE x \o <<Hyphen>> \o y \o <<Hyphen, c>>
    <2>1. <<>> \o y = y
      OBVIOUS
    <2> QED BY <2>1 DEF SequentialBody
  <1>4. x = <<>> => x \o y = y
    OBVIOUS
  <1> HIDE DEF X, b
  <1>5. /\ b \in Seq(X)
        /\ Len(b) = IF x = <<>> THEN Len(y) + 2 ELSE Len(x) + Len(y) + 3
    <2>1. PICK u \in Seq(X), v \in Seq(X) : u = x /\ v = y
      BY <1>2
    <2>2. /\ v \o <<Hyphen, c>> \in Seq(X) /\ Len(v \o <<Hyphen, c>>) = Len(v) + 2
          /\ u \o <<Hyphen>> \o v \o <<Hyphen, c>> \in Seq(X)
          /\ Len(u \o <<Hyphen>> \o v \o <<Hyphen, c>>) = Len(u) + Len(v) + 3
      BY <1>1, <2>1, SequentialPlaces
    <2> QED BY <1>3, <2>1, <2>2
  <1>6. PICK u \in Seq(Others), v \in Seq(Others) : u = x /\ v = y
    BY <1>2
  <1>7. WithoutHyphens(b) = Append(x \o y, c)
    <2>1. /\ WithoutHyphens(v \o <<Hyphen, c>>) = Append(v, c)
          /\ WithoutHyphens(u \o <<Hyphen>> \o v \o <<Hyphen, c>>) = Append(u \o v, c)
      BY <1>1, <1>6, SequentialSymbols
    <2> QED BY <1>3, <1>4, <1>6, <2>1
  <1>8. Split(b) = IF x = <<>> THEN <<y, <<c>>>> ELSE <<x, y, <<c>>>>
    <2>1. PICK p \in Seq(Others) : p = u
      OBVIOUS
    <2>2. /\ Split(v \o <<Hyphen, c>>) = <<v, <<c>>>>
          /\ Split(u \o <<Hyphen>> \o v \o <<Hyphen, c>>) = <<u, v, <<c>>>>
          /\ Split(p \o <<Hyphen>> \o (v \o <<Hyphen, c>>)) = <<p, v, <<c>>>>
      BY <1>1, SequentialSplit, ZenonT(60)
    <2> QED BY <1>3, <1>6, <2>2
  <1>9. ASSUME NEW p \in Seq(Others)
        PROVE  Split(p \o <<Hyphen>> \o b)
                 = IF x = <<>> THEN <<p, y, <<c>>>> ELSE <<p, x, y, <<c>>>>
    <2>1. /\ Split(p \o <<Hyphen>> \o (v \o <<Hyphen, c>>)) = <<p, v, <<c>>>>
          /\ Split(p \o <<Hyphen>> \o (u \o <<Hyphen>> \o v \o <<Hyphen, c>>))
               = <<p, u, v, <<c>>>>
      BY <1>1, SequentialSplit
    <2> QED BY <1>3, <1>6, <2>1
  <1>10. GroupLengths(b) = IF x = <<>> THEN <<Len(y), 1>> ELSE <<Len(x), Len(y), 1>>
    <2>1. CASE x = <<>>
      <3>1. Split(b) = <<y, <<c>>>>
        BY <1>8, <2>1
      <3>2. GroupLengths(b) = <<Len(y), Len(<<c>>)>>
        <4>1. PICK t : t = Split(b)
          OBVIOUS
        <4>2. GroupLengths(b) = [i \in DOMAIN t |-> Len(t[i])]
          BY <4>1 DEF GroupLengths
        <4>3. t = <<y, <<c>>>>
          BY <3>1, <4>1
        <4>4. [i \in DOMAIN t |-> Len(t[i])] = <<Len(y), Len(<<c>>)>>
          BY <4>3, LengthsOfTwo
        <4> QED BY <4>2, <4>4
      <3>3. Len(<<c>>) = 1
        OBVIOUS
      <3> QED BY <2>1, <3>2, <3>3
    <2>2. CASE x # <<>>
      <3>1. Split(b) = <<x, y, <<c>>>>
        BY <1>8, <2>2
      <3>2. GroupLengths(b) = <<Len(x), Len(y), Len(<<c>>)>>
        <4>1. PICK t : t = Split(b)
          OBVIOUS
        <4>2. GroupLengths(b) = [i \in DOMAIN t |-> Len(t[i])]
          BY <4>1 DEF GroupLengths
        <4>3. PICK e : e = <<c>>
          OBVIOUS
        <4>4. t = <<x, y, e>>
          BY <3>1, <4>1, <4>3
        <4>5. [i \in DOMAIN t |-> Len(t[i])] = <<Len(x), Len(y), Len(e)>>
          BY <4>4, LengthsOfThree
        <4> QED BY <4>2, <4>3, <4>5
      <3>3. Len(<<c>>) = 1
        OBVIOUS
      <3> QED BY <2>2, <3>2, <3>3
    <2> QED BY <2>1, <2>2
  <1> QED BY <1>5, <1>7, <1>9, <1>10 DEF b, X
-----------------------------------------------------------------------------
(* Numbers and their digits *)

\* One round of PaddedDigits.
PadRound(width) ==
  [written \in [rest : Nat, digits : Seq(Digits)] |-> [place \in 1..width |->
     [rest |-> written.rest \div 10,
      digits |-> <<DataAlphabet[1 + (written.rest % 10)]>> \o written.digits]]]
\* One round of Number, and Number begun at n.
NumberRound == [n \in Nat |-> [c \in Digits |-> 10 * n + ValueOf[c]]]
NumberFrom(n, digits) == Loop(NumberRound, n, digits)

\* Reading a number, digit by digit.
LEMMA NumberRounds ==
  /\ RoundOf(NumberRound, Nat, Digits)
  /\ \A n \in Nat, c \in Digits : NumberRound[n][c] = 10 * n + ValueOf[c]
  <1>1. \A n \in Nat, c \in Digits : 10 * n + ValueOf[c] \in Nat
    BY Values
  <1>2. NumberRound \in [Nat -> [Digits -> Nat]]
    BY <1>1 DEF NumberRound
  <1>3. \A n \in Nat, c \in Digits : NumberRound[n][c] = 10 * n + ValueOf[c]
    BY DEF NumberRound
  <1> QED BY <1>2, <1>3 DEF RoundOf

\* A digit more in front, what is left a tenth: the same number.
LEMMA DigitWritten ==
  ASSUME NEW r \in Nat, NEW digits \in Seq(Digits)
  PROVE  NumberFrom(r \div 10, <<DataAlphabet[1 + (r % 10)]>> \o digits)
           = NumberFrom(r, digits)
  <1>1. PICK d \in Digits : d = DataAlphabet[1 + (r % 10)] /\ ValueOf[d] = r % 10
    <2>1. r % 10 \in 0..9
      OBVIOUS
    <2>2. DataAlphabet[1 + (r % 10)] \in Digits
      BY <2>1, Values
    <2>3. r % 10 \in 0..31
      BY <2>1
    <2>4. ValueOf[DataAlphabet[1 + (r % 10)]] = r % 10
      BY <2>3, Values
    <2> QED BY <2>2, <2>4
  <1>2. PICK q \in Nat : q = r \div 10 /\ 10 * q + ValueOf[d] = r
    <2>1. r \div 10 \in Nat /\ 10 * (r \div 10) + (r % 10) = r
      OBVIOUS
    <2> QED BY <1>1, <2>1
  <1>3. PICK s \in Seq(Digits) : s = <<d>>
    <2>1. <<d>> \in Seq(Digits)
      OBVIOUS
    <2> QED BY <2>1
  <1>4. NumberFrom(q, s \o digits) = NumberFrom(NumberFrom(q, s), digits)
    <2>1. RoundOf(NumberRound, Nat, Digits)
      BY NumberRounds
    <2>2. Loop(NumberRound, q, s \o digits) = Loop(NumberRound, Loop(NumberRound, q, s), digits)
      BY <2>1, LoopOfTwo
    <2> QED BY <2>2 DEF NumberFrom
  <1>5. NumberFrom(q, s) = r
    <2>1. NumberRound \in [Nat -> [Digits -> Nat]]
      BY NumberRounds DEF RoundOf
    <2>2. Rounds(NumberRound, q, Nat, Digits)
      BY <2>1, LoopSteps
    <2>3. <<>> \in Seq(Digits) /\ Append(<<>>, d) = <<d>>
      OBVIOUS
    <2>4. Loop(NumberRound, q, <<d>>) = NumberRound[q][d]
      BY <2>2, <2>3 DEF Rounds
    <2>5. NumberRound[q][d] = 10 * q + ValueOf[d]
      BY NumberRounds
    <2> QED BY <1>2, <1>3, <2>4, <2>5 DEF NumberFrom
  <1> QED BY <1>1, <1>2, <1>3, <1>4, <1>5

\* The digits that are written are the number, where they are enough.
LEMMA DigitsOfNumber ==
  ASSUME NEW n \in Nat, NEW width \in Nat
  PROVE  /\ PaddedDigits(n, width).digits \in Seq(Digits)
         /\ Len(PaddedDigits(n, width).digits) = width
         /\ PaddedDigits(n, width).rest = 0 => Number(PaddedDigits(n, width).digits) = n
  <1> DEFINE V == [rest : Nat, digits : Seq(Digits)]
             S == 1..width
             start == [rest |-> n, digits |-> <<>>]
             round == PadRound(width)
             written(list) == Loop(round, start, list)
             places == [place \in 1..width |-> place]
             next(w) == [rest |-> w.rest \div 10,
                         digits |-> <<DataAlphabet[1 + (w.rest % 10)]>> \o w.digits]
  <1>1. places \in Seq(S) /\ Len(places) = width
    OBVIOUS
  <1>2. PaddedDigits(n, width) = written(places)
    BY DEF PaddedDigits, PadRound
  <1>3. start \in V
    OBVIOUS
  <1>4. ASSUME NEW w \in V PROVE next(w) \in V /\ Len(next(w).digits) = Len(w.digits) + 1
    <2>1. w.rest \in Nat /\ w.digits \in Seq(Digits)
      OBVIOUS
    <2>2. PICK r \in Nat : r = w.rest
      BY <2>1
    <2>3. r % 10 \in 0..9 /\ r \div 10 \in Nat
      OBVIOUS
    <2>4. DataAlphabet[1 + (r % 10)] \in Digits
      BY <2>3, Values
    <2>5. PICK d \in Digits : d = DataAlphabet[1 + (r % 10)]
      BY <2>4
    <2>6. <<d>> \in Seq(Digits) /\ Len(<<d>>) = 1
      OBVIOUS
    <2>7. <<d>> \o w.digits \in Seq(Digits) /\ Len(<<d>> \o w.digits) = 1 + Len(w.digits)
      BY <2>1, <2>6, Concatenation
    <2> QED BY <2>1, <2>2, <2>3, <2>5, <2>7
  <1>5. \A w \in V, place \in S : round[w][place] = next(w)
    <2>1. round = [w \in V |-> [place \in S |-> next(w)]]
      BY DEF PadRound
    <2> HIDE DEF V, S, next, round
    <2> QED BY <2>1
  <1>6. round \in [V -> [S -> V]]
    <2>1. round = [w \in V |-> [place \in S |-> next(w)]]
      BY DEF PadRound
    <2> HIDE DEF V, S, next, round
    <2> QED BY <1>4, <2>1
  <1> HIDE DEF V, S, round, places
  <1>7. Rounds(round, start, V, S)
    <2> HIDE DEF start
    <2> QED BY <1>3, <1>6, LoopSteps
  <1>8. /\ written(<<>>) = start
        /\ \A list \in Seq(S) : written(list) \in V
        /\ \A list \in Seq(S), place \in S : written(Append(list, place)) = next(written(list))
    <2> HIDE DEF start, next
    <2> QED BY <1>5, <1>7 DEF Rounds
  <1> HIDE DEF written
  <1> DEFINE good(w, list) == /\ Len(w.digits) = Len(list)
                              /\ NumberFrom(w.rest, w.digits) = n
             T == {list \in Seq(S) : good(written(list), list)}
  <1>9. <<>> \in T
    <2>1. NumberFrom(n, <<>>) = n
      <3>1. NumberRound \in [Nat -> [Digits -> Nat]]
        BY NumberRounds DEF RoundOf
      <3>2. Rounds(NumberRound, n, Nat, Digits)
        BY <3>1, LoopSteps
      <3> QED BY <3>2 DEF Rounds, NumberFrom
    <2>2. <<>> \in Seq(S) /\ Len(<<>>) = 0
      OBVIOUS
    <2> QED BY <1>8, <2>1, <2>2
  <1>10. ASSUME NEW list \in Seq(S), NEW place \in S, list \in T PROVE Append(list, place) \in T
    <2>1. PICK w \in V : w = written(list)
      BY <1>8
    <2>2. written(Append(list, place)) = next(w)
      <3> HIDE DEF next, T
      <3> QED BY <1>8, <2>1
    <2>3. Append(list, place) \in Seq(S) /\ Len(Append(list, place)) = Len(list) + 1
      OBVIOUS
    <2>4. good(w, list)
      BY <1>10, <2>1
    <2>5. Len(next(w).digits) = Len(list) + 1
      <3>1. Len(next(w).digits) = Len(w.digits) + 1
        BY <1>4
      <3> QED BY <2>4, <3>1
    <2>6. NumberFrom(next(w).rest, next(w).digits) = n
      <3>1. w.rest \in Nat /\ w.digits \in Seq(Digits)
        BY DEF V
      <3>2. NumberFrom(w.rest \div 10, <<DataAlphabet[1 + (w.rest % 10)]>> \o w.digits)
              = NumberFrom(w.rest, w.digits)
        BY <3>1, DigitWritten
      <3> QED BY <2>4, <3>2
    <2>7. good(next(w), Append(list, place))
      BY <2>3, <2>5, <2>6
    <2> HIDE DEF good, next
    <2> QED BY <2>2, <2>3, <2>7
  <1>11. Seq(S) \subseteq T
    <2> HIDE DEF T
    <2> QED BY <1>9, <1>10, SequenceInduction
  <1>12. PICK w \in V : w = written(places)
    BY <1>1, <1>8
  <1>13. Len(w.digits) = width /\ NumberFrom(w.rest, w.digits) = n
    BY <1>1, <1>11, <1>12
  <1>14. w.digits \in Seq(Digits)
    BY DEF V
  <1>15. \A digits : Number(digits) = NumberFrom(0, digits)
    BY DEF Number, NumberFrom, NumberRound
  <1> QED BY <1>2, <1>12, <1>13, <1>14, <1>15
-----------------------------------------------------------------------------
(* The two strategies as one *)

\* The symbols that stand for others, in random and in sequential references.
AliasMap == [c \in ReferenceSymbols |-> Alias(c)]
SameMap == [c \in ReferenceSymbols |-> c]

\* What the parser needs to know of a definition: its strategy, its aliases, its
\* radix, ...
IsSequence(d) == d.strategy = "sequence"
Norm(d) == IF IsSequence(d) THEN SameMap ELSE AliasMap
RadixOf(d) == IF IsSequence(d) THEN SequentialRadix ELSE RandomRadix
AlphabetOf(d) == IF IsSequence(d) THEN Digits ELSE DataSymbols
ScopePlaces(d) == IF d.scope = "calendar-year" THEN ScopeLength ELSE 0
PayloadPlaces(d) == IF IsSequence(d) THEN ScopePlaces(d) + d.width ELSE d.payloadLength
GroupsOf(d) ==
  IF IsSequence(d)
  THEN IF ScopePlaces(d) = 0 THEN <<d.width, 1>> ELSE <<ScopePlaces(d), d.width, 1>>
  ELSE RandomGroups(d.payloadLength)
\* What is written for a payload and its check symbol, behind the prefix and with it.
BodyOf(d, payload, check) ==
  IF IsSequence(d)
  THEN SequentialBody(SubSeq(payload, 1, ScopePlaces(d)),
                      SubSeq(payload, ScopePlaces(d) + 1, Len(payload)), check)
  ELSE RandomBody(payload, check)
TextOf(d, payload, check) == d.prefix \o <<Hyphen>> \o BodyOf(d, payload, check)
\* The reader for a definition, and what it compares.
ParseBody(body, d) ==
  IF IsSequence(d) THEN ParseSequentialReference(body, d) ELSE ParseRandomReference(body, d)

\* A definition as it is registered, where it has references.
ReferenceDefinition(d) ==
  /\ HasReference(d)
  /\ d.prefix \in Seq(Letters) /\ Len(d.prefix) \in PrefixLengths
  /\ \/ d.strategy = "random" /\ \E profile \in DOMAIN ProfileLengths :
                                   d.payloadLength = ProfileLengths[profile]
     \/ d.strategy = "sequence" /\ d.width \in ValidWidths

\* Aliases are replacements that leave the symbols of references alone.
LEMMA MapsReplace ==
  /\ Replacement(AliasMap) /\ Replacement(SameMap)
  /\ \A c \in CheckSymbols : AliasMap[c] = c /\ SameMap[c] = c
  /\ \A s \in Seq(ReferenceSymbols) :
       Mapped(AliasMap, s) = NormalizePayload(s) /\ Mapped(SameMap, s) = s
  <1>1. Replacement(AliasMap) /\ Replacement(SameMap)
    BY Aliases DEF AliasMap, SameMap, Replacement
  <1>2. \A c \in CheckSymbols : AliasMap[c] = c /\ SameMap[c] = c
    BY Aliases, SymbolSets DEF AliasMap, SameMap
  <1>3. ASSUME NEW s \in Seq(ReferenceSymbols)
        PROVE  Mapped(AliasMap, s) = NormalizePayload(s) /\ Mapped(SameMap, s) = s
    <2>1. \A i \in DOMAIN s : s[i] \in ReferenceSymbols
      OBVIOUS
    <2>2. [i \in DOMAIN s |-> AliasMap[s[i]]] = [i \in DOMAIN s |-> Alias(s[i])]
      BY <2>1 DEF AliasMap
    <2>3. [i \in DOMAIN s |-> SameMap[s[i]]] = [i \in DOMAIN s |-> s[i]]
      BY <2>1 DEF SameMap
    <2>4. s = [i \in DOMAIN s |-> s[i]]
      OBVIOUS
    <2> QED BY <2>2, <2>3, <2>4 DEF Mapped, NormalizePayload
  <1> QED BY <1>1, <1>2, <1>3

\* What a registered definition says of its references, in terms of payload, radix
\* and alphabet.
LEMMA Forms ==
  ASSUME NEW d, ReferenceDefinition(d)
  PROVE  /\ RadixOf(d) \in Radices /\ Replacement(Norm(d))
         /\ \A c \in CheckSymbols : Norm(d)[c] = c
         /\ AlphabetOf(d) \subseteq DataSymbols
         /\ PayloadPlaces(d) \in Nat \ {0}
         /\ IsSequence(d) => /\ d.width \in Nat \ {0} /\ ScopePlaces(d) \in Nat
                             /\ d.width \in ValidWidths
         /\ ~IsSequence(d) => d.strategy = "random" /\ d.payloadLength \in Nat \ {0}
  <1>1. RadixOf(d) \in Radices
    BY DEF RadixOf, Radices
  <1>2. Replacement(Norm(d)) /\ \A c \in CheckSymbols : Norm(d)[c] = c
    BY MapsReplace DEF Norm
  <1>3. AlphabetOf(d) \subseteq DataSymbols
    BY ChecksAreRead DEF AlphabetOf
  <1>4. ScopePlaces(d) \in Nat
    BY LengthsAssumption DEF ScopePlaces
  <1>5. CASE d.strategy = "sequence"
    BY <1>1, <1>2, <1>3, <1>4, <1>5, RegistryAssumption
    DEF PayloadPlaces, ReferenceDefinition, IsSequence
  <1>6. CASE d.strategy = "random"
    BY <1>1, <1>2, <1>3, <1>6, RegistryAssumption
    DEF PayloadPlaces, ReferenceDefinition, IsSequence
  <1> QED BY <1>5, <1>6 DEF ReferenceDefinition

\* What the parser makes of the symbols behind the prefix.
Payload(d, body) == Mapped(Norm(d), Front(WithoutHyphens(body)))
\* The symbol it takes for the check symbol.
Check(body) == Last(WithoutHyphens(body))

\* TextOf is what the two writers write.
LEMMA TextIs ==
  ASSUME NEW d, ReferenceDefinition(d), NEW p \in Seq(AlphabetOf(d)), NEW c \in CheckSymbols,
         Len(p) = PayloadPlaces(d)
  PROVE  /\ IsSequence(d) =>
              FormatSequentialParts(d.prefix, SubSeq(p, 1, ScopePlaces(d)),
                SubSeq(p, ScopePlaces(d) + 1, Len(p)), c) = TextOf(d, p, c)
         /\ ~IsSequence(d) => FormatReference(d.prefix, p, c) = TextOf(d, p, c)
  <1> DEFINE R == ReferenceSymbols
  <1>1. PICK w \in Seq(R) : w = d.prefix \o <<Hyphen>>
    <2>1. d.prefix \in Seq(R)
      <3>1. Letters \subseteq R
        BY SymbolSets
      <3>2. d.prefix \in Seq(Letters)
        BY DEF ReferenceDefinition
      <3> HIDE DEF R
      <3> QED BY <3>1, <3>2, LargerSet
    <2>2. PICK q \in Seq(R), h \in R : q = d.prefix /\ h = Hyphen
      BY <2>1, HyphenAndOthers
    <2> HIDE DEF R
    <2>3. q \o <<h>> \in Seq(R)
      OBVIOUS
    <2> QED BY <2>2, <2>3
  <1>2. PICK e \in Seq(R) : e = <<Hyphen, c>>
    <2>1. PICK h \in R, k \in R : h = Hyphen /\ k = c
      BY ChecksAreRead
    <2> HIDE DEF R
    <2>2. <<h, k>> \in Seq(R)
      OBVIOUS
    <2> QED BY <2>1, <2>2
  <1>3. ASSUME IsSequence(d)
        PROVE  FormatSequentialParts(d.prefix, SubSeq(p, 1, ScopePlaces(d)),
                 SubSeq(p, ScopePlaces(d) + 1, Len(p)), c) = TextOf(d, p, c)
    <2>1. p \in Seq(Digits)
      BY <1>3 DEF AlphabetOf
    <2>2. ScopePlaces(d) \in Nat
      BY <1>3, Forms
    <2>3. Digits \subseteq R
      BY ChecksAreRead
    <2>4. p \in Seq(R)
      <3> HIDE DEF R
      <3> QED BY <2>1, <2>3, LargerSet
    <2>5. SubSeq(p, ScopePlaces(d) + 1, Len(p)) \in Seq(R)
      BY <2>2, <2>4
    <2>6. PICK y \in Seq(R) : y = SubSeq(p, ScopePlaces(d) + 1, Len(p))
      BY <2>5
    <2>7. CASE SubSeq(p, 1, ScopePlaces(d)) = <<>>
      <3>1. FormatSequentialParts(d.prefix, <<>>, y, c) = w \o <<>> \o y \o e
        BY <1>1, <1>2 DEF FormatSequentialParts
      <3>2. w \o <<>> = w /\ <<>> \o y = y
        OBVIOUS
      <3>3. TextOf(d, p, c) = w \o (<<>> \o y \o e)
        BY <1>1, <1>2, <1>3, <2>6, <2>7 DEF TextOf, BodyOf, SequentialBody
      <3>4. w \o y \o e = w \o (y \o e)
        OBVIOUS
      <3> QED BY <2>6, <2>7, <3>1, <3>2, <3>3, <3>4
    <2>8. CASE SubSeq(p, 1, ScopePlaces(d)) # <<>>
      <3>1. PICK x \in Seq(R) : x = SubSeq(p, 1, ScopePlaces(d)) \o <<Hyphen>>
        <4>1. ScopePlaces(d) <= Len(p)
          BY <1>3, Forms DEF PayloadPlaces
        <4>2. SubSeq(p, 1, ScopePlaces(d)) \in Seq(R)
          BY <2>2, <2>4, <4>1
        <4>3. PICK q \in Seq(R), h \in R : q = SubSeq(p, 1, ScopePlaces(d)) /\ h = Hyphen
          BY <4>2, HyphenAndOthers
        <4> HIDE DEF R
        <4>4. q \o <<h>> \in Seq(R)
          OBVIOUS
        <4> QED BY <4>3, <4>4
      <3>2. FormatSequentialParts(d.prefix, SubSeq(p, 1, ScopePlaces(d)), y, c)
              = w \o x \o y \o e
        BY <1>1, <1>2, <2>8, <3>1 DEF FormatSequentialParts
      <3>3. TextOf(d, p, c) = w \o (x \o y \o e)
        BY <1>1, <1>2, <1>3, <2>6, <2>8, <3>1 DEF TextOf, BodyOf, SequentialBody
      <3>4. w \o x \o y \o e = w \o (x \o y \o e)
        <4>1. PICK z \in Seq(R) : z = x \o y
          <5>1. x \o y \in Seq(R)
            OBVIOUS
          <5> QED BY <5>1
        <4>2. w \o x \o y = w \o z
          BY <4>1, SMTT(60)
        <4>3. w \o z \o e = w \o (z \o e)
          OBVIOUS
        <4> QED BY <4>1, <4>2, <4>3
      <3> QED BY <2>6, <3>2, <3>3, <3>4
    <2> QED BY <2>7, <2>8
  <1>4. ASSUME ~IsSequence(d)
        PROVE  FormatReference(d.prefix, p, c) = TextOf(d, p, c)
    <2>1. p \in Seq(DataSymbols)
      BY <1>4 DEF AlphabetOf
    <2>2. PICK g \in Seq(R) : g = Grouped(p)
      BY <2>1, GroupedSteps
    <2>3. FormatReference(d.prefix, p, c) = w \o g \o e
      BY <1>1, <1>2, <2>2 DEF FormatReference
    <2>4. TextOf(d, p, c) = w \o (g \o e)
      BY <1>1, <1>2, <1>4, <2>2 DEF TextOf, BodyOf, RandomBody
    <2>5. w \o g \o e = w \o (g \o e)
      OBVIOUS
    <2> QED BY <2>3, <2>4, <2>5
  <1> QED BY <1>3, <1>4

\* Both readers in one.
Parsed(d, body) ==
  IF Len(WithoutHyphens(body)) # PayloadPlaces(d) + 1 THEN Failure("invalid_ref_length")
  ELSE IF ~ValidHyphenation(body, GroupsOf(d)) THEN Failure("invalid_ref")
  ELSE IF ~ToSet(Payload(d, body)) \subseteq AlphabetOf(d) \/ Check(body) \notin CheckSymbols
  THEN Failure("invalid_ref_symbol")
  ELSE IF CalculateCheckSymbol(RadixOf(d), Payload(d, body)) # Check(body)
  THEN Failure("invalid_checksum")
  ELSE [code |-> "ok", namespace |-> d.public,
        value |-> TextOf(d, Payload(d, body), Check(body))]

\* The set of the symbols of a sequence.
LEMMA SetOfSymbols ==
  ASSUME NEW S, NEW T, NEW s \in Seq(S)
  PROVE  ToSet(s) \subseteq T <=> s \in Seq(T)
  <1>1. ASSUME ToSet(s) \subseteq T PROVE s \in Seq(T)
    <2>1. \A i \in 1..Len(s) : s[i] \in T
      BY <1>1 DEF ToSet
    <2>2. s = [i \in 1..Len(s) |-> s[i]] /\ Len(s) \in Nat
      OBVIOUS
    <2>3. PICK n \in Nat : n = Len(s)
      BY <2>2
    <2>4. [i \in 1..n |-> s[i]] \in Seq(T)
      BY <2>1, <2>3
    <2> QED BY <2>2, <2>3, <2>4
  <1>2. ASSUME s \in Seq(T) PROVE ToSet(s) \subseteq T
    BY <1>2 DEF ToSet
  <1> QED BY <1>1, <1>2

\* What the readers take for the payload and for the check symbol.
LEMMA PayloadIs ==
  ASSUME NEW d, ReferenceDefinition(d), NEW body \in Seq(ReferenceSymbols),
         WithoutHyphens(body) # <<>>
  PROVE  /\ WithoutHyphens(body) \in Seq(Others)
         /\ Front(WithoutHyphens(body)) \in Seq(Others) /\ Check(body) \in Others
         /\ WithoutHyphens(body) = Append(Front(WithoutHyphens(body)), Check(body))
         /\ Payload(d, body) \in Seq(ReferenceSymbols)
         /\ Len(Payload(d, body)) = Len(WithoutHyphens(body)) - 1
         /\ Payload(d, body) = IF IsSequence(d) THEN Front(WithoutHyphens(body))
                               ELSE NormalizePayload(Front(WithoutHyphens(body)))
  <1>1. PICK s \in Seq(Others) : s = WithoutHyphens(body)
    BY HyphensDropped
  <1>2. Front(s) \in Seq(Others) /\ Last(s) \in Others /\ s = Append(Front(s), Last(s))
    BY <1>1, FrontThenLast
  <1>3. PICK f \in Seq(ReferenceSymbols) : f = Front(s)
    BY <1>2, HyphenAndOthers
  <1>4. Len(s) = Len(f) + 1
    BY <1>2, <1>3
  <1>5. Norm(d) \in [ReferenceSymbols -> ReferenceSymbols]
    BY Forms DEF Replacement
  <1>6. Mapped(Norm(d), f) \in Seq(ReferenceSymbols) /\ Len(Mapped(Norm(d), f)) = Len(f)
    BY <1>5, MappedSteps
  <1>7. Mapped(Norm(d), f) = IF IsSequence(d) THEN f ELSE NormalizePayload(f)
    BY MapsReplace DEF Norm
  <1>8. Len(f) \in Nat
    OBVIOUS
  <1> QED BY <1>1, <1>2, <1>3, <1>4, <1>6, <1>7, <1>8 DEF Payload, Check

\* Both parsers do the same with the symbols, in the same order.
LEMMA BodyIsParsed ==
  ASSUME NEW d, ReferenceDefinition(d), NEW body \in Seq(ReferenceSymbols)
  PROVE  ParseBody(body, d) = Parsed(d, body)
  <1>1. CASE Len(WithoutHyphens(body)) # PayloadPlaces(d) + 1
    <2>1. CASE IsSequence(d)
      <3>1. ParseSequentialReference(body, d) = Failure("invalid_ref_length")
        BY <1>1, <2>1 DEF ParseSequentialReference, PayloadPlaces, ScopePlaces
      <3> QED BY <1>1, <2>1, <3>1 DEF ParseBody, Parsed
    <2>2. CASE ~IsSequence(d)
      <3>1. ParseRandomReference(body, d) = Failure("invalid_ref_length")
        BY <1>1, <2>2 DEF ParseRandomReference, PayloadPlaces
      <3> QED BY <1>1, <2>2, <3>1 DEF ParseBody, Parsed
    <2> QED BY <2>1, <2>2
  <1>2. CASE Len(WithoutHyphens(body)) = PayloadPlaces(d) + 1
    <2> DEFINE s == WithoutHyphens(body)
               p == Payload(d, body)
               c == Check(body)
    <2>1. s # <<>>
      BY <1>2, Forms
    <2>2. /\ p \in Seq(ReferenceSymbols)
          /\ p = IF IsSequence(d) THEN Front(s) ELSE NormalizePayload(Front(s))
      BY <2>1, PayloadIs
    <2>3. c = Last(s)
      BY DEF Check
    <2>4. ASSUME ToSet(p) \subseteq AlphabetOf(d), c \in CheckSymbols
          PROVE  /\ IsSequence(d) =>
                      FormatSequentialParts(d.prefix, SubSeq(p, 1, ScopePlaces(d)),
                        SubSeq(p, ScopePlaces(d) + 1, Len(p)), c) = TextOf(d, p, c)
                 /\ ~IsSequence(d) => FormatReference(d.prefix, p, c) = TextOf(d, p, c)
      <3>1. p \in Seq(AlphabetOf(d))
        BY <2>2, <2>4, SetOfSymbols
      <3>2. Len(p) = PayloadPlaces(d)
        BY <1>2, <2>1, PayloadIs, Forms
      <3> HIDE DEF p, c
      <3> QED BY <2>4, <3>1, <3>2, TextIs
    <2> HIDE DEF p, c
    <2>5. CASE IsSequence(d)
      <3>1. ParseSequentialReference(body, d) =
              IF ~ValidHyphenation(body, GroupsOf(d)) THEN Failure("invalid_ref")
              ELSE IF ~ToSet(p) \subseteq Digits \/ c \notin CheckSymbols
              THEN Failure("invalid_ref_symbol")
              ELSE IF CalculateCheckSymbol(SequentialRadix, p) # c
              THEN Failure("invalid_checksum")
              ELSE [code |-> "ok", namespace |-> d.public,
                    value |-> FormatSequentialParts(d.prefix, SubSeq(p, 1, ScopePlaces(d)),
                                SubSeq(p, ScopePlaces(d) + 1, Len(p)), c)]
        BY <1>2, <2>2, <2>3, <2>5
        DEF ParseSequentialReference, PayloadPlaces, ScopePlaces, GroupsOf
      <3>2. AlphabetOf(d) = Digits /\ RadixOf(d) = SequentialRadix
        BY <2>5 DEF AlphabetOf, RadixOf
      <3>3. Parsed(d, body) =
              IF ~ValidHyphenation(body, GroupsOf(d)) THEN Failure("invalid_ref")
              ELSE IF ~ToSet(p) \subseteq Digits \/ c \notin CheckSymbols
              THEN Failure("invalid_ref_symbol")
              ELSE IF CalculateCheckSymbol(SequentialRadix, p) # c
              THEN Failure("invalid_checksum")
              ELSE [code |-> "ok", namespace |-> d.public, value |-> TextOf(d, p, c)]
        BY <1>2, <3>2 DEF Parsed, p, c
      <3> QED BY <2>4, <2>5, <3>1, <3>2, <3>3 DEF ParseBody
    <2>6. CASE ~IsSequence(d)
      <3>1. ParseRandomReference(body, d) =
              IF ~ValidHyphenation(body, GroupsOf(d)) THEN Failure("invalid_ref")
              ELSE IF ~ToSet(p) \subseteq DataSymbols \/ c \notin CheckSymbols
              THEN Failure("invalid_ref_symbol")
              ELSE IF CalculateCheckSymbol(RandomRadix, p) # c
              THEN Failure("invalid_checksum")
              ELSE [code |-> "ok", namespace |-> d.public,
                    value |-> FormatReference(d.prefix, p, c)]
        BY <1>2, <2>2, <2>3, <2>6 DEF ParseRandomReference, PayloadPlaces, GroupsOf
      <3>2. AlphabetOf(d) = DataSymbols /\ RadixOf(d) = RandomRadix
        BY <2>6 DEF AlphabetOf, RadixOf
      <3>3. Parsed(d, body) =
              IF ~ValidHyphenation(body, GroupsOf(d)) THEN Failure("invalid_ref")
              ELSE IF ~ToSet(p) \subseteq DataSymbols \/ c \notin CheckSymbols
              THEN Failure("invalid_ref_symbol")
              ELSE IF CalculateCheckSymbol(RandomRadix, p) # c
              THEN Failure("invalid_checksum")
              ELSE [code |-> "ok", namespace |-> d.public, value |-> TextOf(d, p, c)]
        BY <1>2, <3>2 DEF Parsed, p, c
      <3> QED BY <2>4, <2>6, <3>1, <3>2, <3>3 DEF ParseBody
    <2> QED BY <2>5, <2>6
  <1> QED BY <1>1, <1>2
\* body stands for this payload and this check symbol.
Reads(d, body, p, c) ==
  /\ Len(WithoutHyphens(body)) = PayloadPlaces(d) + 1
  /\ ValidHyphenation(body, GroupsOf(d))
  /\ IsReading(RadixOf(d), Norm(d), WithoutHyphens(body), p, c)
  /\ p \in Seq(AlphabetOf(d))
\* ... and what it answers then.
Success(d, p, c) == [code |-> "ok", namespace |-> d.public, value |-> TextOf(d, p, c)]

\* A body that is read parses.
LEMMA ReadIsParsed ==
  ASSUME NEW d, ReferenceDefinition(d), NEW body \in Seq(ReferenceSymbols),
         NEW p, NEW c, Reads(d, body, p, c)
  PROVE  Parsed(d, body) = Success(d, p, c)
  <1>1. WithoutHyphens(body) # <<>>
    BY DEF Reads, IsReading
  <1>2. p = Payload(d, body) /\ c = Check(body) /\ c \in CheckSymbols
    BY DEF Reads, IsReading, Payload, Check
  <1>3. ToSet(p) \subseteq AlphabetOf(d)
    BY SetOfSymbols DEF Reads
  <1>4. CalculateCheckSymbol(RadixOf(d), p) = c
    BY DEF Reads, IsReading
  <1>5. Len(WithoutHyphens(body)) = PayloadPlaces(d) + 1 /\ ValidHyphenation(body, GroupsOf(d))
    BY DEF Reads
  <1> QED BY <1>2, <1>3, <1>4, <1>5 DEF Parsed, Success

\* A body that parses is read, and one with a wrong checksum is right in all else.
LEMMA ParsedIsRead ==
  ASSUME NEW d, ReferenceDefinition(d), NEW body \in Seq(ReferenceSymbols)
  PROVE  /\ Succeeds(Parsed(d, body)) =>
              \E p, c : Reads(d, body, p, c) /\ Parsed(d, body) = Success(d, p, c)
         /\ Parsed(d, body).code = "invalid_checksum" =>
              /\ Len(WithoutHyphens(body)) = PayloadPlaces(d) + 1
              /\ ValidHyphenation(body, GroupsOf(d))
              /\ Payload(d, body) \in Seq(AlphabetOf(d)) /\ Check(body) \in CheckSymbols
         /\ Parsed(d, body).code # "unknown_namespace"
  <1> DEFINE p == Payload(d, body)
             c == Check(body)
  <1>1. ASSUME Parsed(d, body).code \in {"ok", "invalid_checksum"}
        PROVE  /\ Len(WithoutHyphens(body)) = PayloadPlaces(d) + 1
               /\ ValidHyphenation(body, GroupsOf(d))
               /\ ToSet(p) \subseteq AlphabetOf(d) /\ c \in CheckSymbols
    BY <1>1 DEF Parsed, Failure
  <1>2. ASSUME Parsed(d, body).code \in {"ok", "invalid_checksum"}
        PROVE  /\ p \in Seq(AlphabetOf(d))
               /\ WithoutHyphens(body) # <<>> /\ WithoutHyphens(body) \in Seq(Others)
    <2>1. WithoutHyphens(body) # <<>>
      BY <1>1, <1>2, Forms
    <2>2. p \in Seq(ReferenceSymbols) /\ WithoutHyphens(body) \in Seq(Others)
      BY <2>1, PayloadIs
    <2> HIDE DEF p, c
    <2>3. p \in Seq(AlphabetOf(d))
      BY <1>1, <1>2, <2>2, SetOfSymbols
    <2> QED BY <2>1, <2>2, <2>3
  <1>3. ASSUME Succeeds(Parsed(d, body))
        PROVE  Reads(d, body, p, c) /\ Parsed(d, body) = Success(d, p, c)
    <2>1. Parsed(d, body).code = "ok"
      BY <1>3 DEF Succeeds
    <2>2. CalculateCheckSymbol(RadixOf(d), p) = c
      BY <2>1 DEF Parsed, Failure
    <2>3. p \in Seq(DataSymbols)
      <3>1. AlphabetOf(d) \subseteq DataSymbols
        BY Forms
      <3>2. p \in Seq(AlphabetOf(d))
        BY <1>2, <2>1
      <3> HIDE DEF p
      <3> QED BY <3>1, <3>2, LargerSet
    <2>4. Reads(d, body, p, c)
      BY <1>1, <1>2, <2>1, <2>2, <2>3 DEF Reads, IsReading, Payload, Check
    <2> QED BY <2>4, ReadIsParsed
  <1>4. Parsed(d, body).code # "unknown_namespace"
    BY DEF Parsed, Failure
  <1> QED BY <1>1, <1>2, <1>3, <1>4

\* Hyphens between the canonical groups are valid.
LEMMA HyphensAsWritten ==
  ASSUME NEW body, NEW lengths, GroupLengths(body) = lengths
  PROVE  ValidHyphenation(body, lengths)
  BY DEF ValidHyphenation, GroupLengths

\* What is written behind the prefix, for both strategies.
LEMMA BodyIs ==
  ASSUME NEW d, ReferenceDefinition(d), NEW p \in Seq(AlphabetOf(d)),
         Len(p) = PayloadPlaces(d), NEW c \in CheckSymbols
  PROVE  /\ BodyOf(d, p, c) \in Seq(CheckSymbols \cup {Hyphen})
         /\ WithoutHyphens(BodyOf(d, p, c)) = Append(p, c)
         /\ GroupLengths(BodyOf(d, p, c)) = GroupsOf(d)
         /\ Len(d.prefix) + 1 + Len(BodyOf(d, p, c)) <= MaxLength
  <1> DEFINE body == BodyOf(d, p, c)
  <1>1. CASE IsSequence(d)
    <2>1. p \in Seq(Digits) /\ Len(p) = ScopePlaces(d) + d.width
      BY <1>1 DEF AlphabetOf, PayloadPlaces
    <2>2. PICK n \in Nat, w \in Nat \ {0} : n = ScopePlaces(d) /\ w = d.width
      BY <1>1, Forms
    <2>3. /\ SubSeq(p, 1, n) \in Seq(Digits) /\ Len(SubSeq(p, 1, n)) = n
          /\ SubSeq(p, n + 1, Len(p)) \in Seq(Digits) /\ Len(SubSeq(p, n + 1, Len(p))) = w
          /\ p = SubSeq(p, 1, n) \o SubSeq(p, n + 1, Len(p))
      <3>1. Len(p) = n + w /\ p \in Seq(Digits)
        BY <2>1, <2>2
      <3>2. /\ SubSeq(p, 1, n) \in Seq(Digits) /\ Len(SubSeq(p, 1, n)) = n
            /\ \A i \in 1..n : SubSeq(p, 1, n)[i] = p[i]
        BY <3>1
      <3>3. /\ SubSeq(p, n + 1, Len(p)) \in Seq(Digits)
            /\ Len(SubSeq(p, n + 1, Len(p))) = w
            /\ \A i \in 1..w : SubSeq(p, n + 1, Len(p))[i] = p[n + i]
        BY <3>1
      <3>4. PICK x \in Seq(Digits), y \in Seq(Digits) :
              x = SubSeq(p, 1, n) /\ y = SubSeq(p, n + 1, Len(p))
        BY <3>2, <3>3
      <3>5. p = x \o y
        <4>1. x \o y \in Seq(Digits) /\ Len(x \o y) = Len(p)
          BY <3>1, <3>2, <3>3, <3>4
        <4>2. \A i \in 1..n : (x \o y)[i] = p[i]
          BY <3>2, <3>4
        <4>3. \A i \in 1..w : (x \o y)[n + i] = p[n + i]
          BY <3>2, <3>3, <3>4
        <4>4. \A i \in 1..Len(p) : (x \o y)[i] = p[i]
          <5>1. \A i \in 1..Len(p) : i \in 1..n \/ i - n \in 1..w
            BY <3>1
          <5>2. \A i \in 1..Len(p) : i - n \in 1..w => (x \o y)[n + (i - n)] = p[n + (i - n)]
            BY <4>3
          <5>3. \A i \in 1..Len(p) : n + (i - n) = i
            BY <3>1
          <5> QED BY <4>2, <5>1, <5>2, <5>3
        <4> QED BY <3>1, <4>1, <4>4
      <3> QED BY <3>2, <3>3, <3>4, <3>5
    <2>4. PICK x \in Seq(Digits), y \in Seq(Digits) :
            /\ x = SubSeq(p, 1, n) /\ y = SubSeq(p, n + 1, Len(p)) /\ p = x \o y
            /\ Len(x) = n /\ Len(y) = w
      BY <2>3
    <2>5. body = SequentialBody(x, y, c)
      BY <1>1, <2>2, <2>4 DEF BodyOf
    <2>6. /\ body \in Seq(CheckSymbols \cup {Hyphen})
          /\ WithoutHyphens(body) = Append(x \o y, c)
          /\ GroupLengths(body) = IF x = <<>> THEN <<w, 1>> ELSE <<n, w, 1>>
          /\ Len(body) = IF x = <<>> THEN w + 2 ELSE n + w + 3
      <3>1. /\ SequentialBody(x, y, c) \in Seq(CheckSymbols \cup {Hyphen})
            /\ WithoutHyphens(SequentialBody(x, y, c)) = Append(x \o y, c)
            /\ GroupLengths(SequentialBody(x, y, c))
                 = IF x = <<>> THEN <<Len(y), 1>> ELSE <<Len(x), Len(y), 1>>
            /\ Len(SequentialBody(x, y, c))
                 = IF x = <<>> THEN Len(y) + 2 ELSE Len(x) + Len(y) + 3
        BY SequentialBodyIs
      <3> HIDE DEF body
      <3> QED BY <2>4, <2>5, <3>1
    <2>7. x = <<>> <=> n = 0
      <3>1. x = <<>> <=> Len(x) = 0
        OBVIOUS
      <3> QED BY <2>4, <3>1
    <2>8. GroupLengths(body) = GroupsOf(d)
      BY <1>1, <2>2, <2>6, <2>7 DEF GroupsOf
    <2>9. Len(d.prefix) + 1 + Len(body) <= MaxLength
      <3>1. n <= ScopeLength /\ ScopeLength \in Nat /\ MaxLength \in Nat
        BY <2>2, LengthsAssumption DEF ScopePlaces
      <3>2. Len(d.prefix) \in PrefixLengths /\ Len(d.prefix) \in Nat /\ w \in ValidWidths
        BY <1>1, <2>2, Forms DEF ReferenceDefinition
      <3>3. Len(d.prefix) + ScopeLength + w + 4 <= MaxLength
        BY <3>2, MaxLengthAssumption
      <3>4. Len(body) \in {w + 2, n + w + 3}
        BY <2>6
      <3> HIDE DEF body
      <3> QED BY <3>1, <3>2, <3>3, <3>4
    <2> QED BY <2>4, <2>6, <2>8, <2>9
  <1>2. CASE ~IsSequence(d)
    <2>1. p \in Seq(DataSymbols) /\ Len(p) = d.payloadLength /\ p # <<>>
      BY <1>2, Forms DEF AlphabetOf, PayloadPlaces
    <2>2. body = RandomBody(p, c)
      BY <1>2 DEF BodyOf
    <2>3. /\ body \in Seq(CheckSymbols \cup {Hyphen})
          /\ WithoutHyphens(body) = Append(p, c)
          /\ GroupLengths(body) = RandomGroups(Len(p))
          /\ Len(body) = Len(p) + (Len(p) - 1) \div GroupLength + 2
      BY <2>1, <2>2, RandomBodyIs
    <2>4. GroupLengths(body) = GroupsOf(d)
      BY <1>2, <2>1, <2>3 DEF GroupsOf
    <2>5. Len(d.prefix) + 1 + Len(body) <= MaxLength
      <3>1. PICK profile \in DOMAIN ProfileLengths : Len(p) = ProfileLengths[profile]
        BY <1>2, <2>1 DEF ReferenceDefinition, IsSequence
      <3>2. Len(d.prefix) \in PrefixLengths /\ Len(d.prefix) \in Nat /\ Len(p) \in Nat
        BY DEF ReferenceDefinition
      <3>3. Len(d.prefix) + Len(p) + (Len(p) - 1) \div GroupLength + 3 <= MaxLength
        BY <3>1, <3>2, MaxLengthAssumption
      <3>4. (Len(p) - 1) \div GroupLength \in Int /\ MaxLength \in Nat
        BY <3>2, LengthsAssumption
      <3> QED BY <2>3, <3>2, <3>3, <3>4, SMTT(60)
    <2> QED BY <2>3, <2>4, <2>5
  <1> QED BY <1>1, <1>2

\* Every payload has a check symbol, and no alias in it.
LEMMA CheckIsThere ==
  ASSUME NEW d, ReferenceDefinition(d), NEW p \in Seq(AlphabetOf(d))
  PROVE  /\ p \in Seq(DataSymbols) /\ p \in Seq(Others)
         /\ CalculateCheckSymbol(RadixOf(d), p) \in CheckSymbols
         /\ Mapped(Norm(d), p) = p
  <1>1. PICK q \in Seq(DataSymbols) : q = p
    <2>1. AlphabetOf(d) \subseteq DataSymbols
      BY Forms
    <2> QED BY <2>1, LargerSet
  <1>2. q \in Seq(Others)
    BY DataIsRead
  <1>3. CalculateCheckSymbol(RadixOf(d), q) \in CheckSymbols
    <2>1. PICK b \in Radices : b = RadixOf(d)
      BY Forms
    <2>2. Remainder(b, q) \in Remainders
          /\ CalculateCheckSymbol(b, q) = CheckAlphabet[1 + Remainder(b, q)]
      BY RemainderRounds
    <2>3. 1 + Remainder(b, q) \in 1..37
      <3>1. \A r \in 0..37 - 1 : 1 + r \in 1..37
        OBVIOUS
      <3> QED BY <2>2, <3>1 DEF Remainders, Modulus
    <2> QED BY <2>1, <2>2, <2>3, CheckSets
  <1>4. Mapped(Norm(d), q) = q
    <2>1. \A i \in DOMAIN q : q[i] \in CheckSymbols
      BY ChecksAreRead
    <2>2. \A i \in DOMAIN q : Norm(d)[q[i]] = q[i]
      BY <2>1, Forms
    <2>3. q = [i \in DOMAIN q |-> q[i]]
      OBVIOUS
    <2> QED BY <2>2, <2>3 DEF Mapped
  <1> QED BY <1>1, <1>2, <1>3, <1>4

\* What is written is read as what was written.
LEMMA WrittenIsRead ==
  ASSUME NEW d, ReferenceDefinition(d), NEW p \in Seq(AlphabetOf(d)),
         Len(p) = PayloadPlaces(d), NEW c, c = CalculateCheckSymbol(RadixOf(d), p)
  PROVE  Reads(d, BodyOf(d, p, c), p, c)
  <1>1. p \in Seq(DataSymbols) /\ p \in Seq(Others) /\ c \in CheckSymbols
        /\ Mapped(Norm(d), p) = p
    BY CheckIsThere
  <1>2. WithoutHyphens(BodyOf(d, p, c)) = Append(p, c) /\ GroupLengths(BodyOf(d, p, c)) = GroupsOf(d)
    BY <1>1, BodyIs
  <1>3. ValidHyphenation(BodyOf(d, p, c), GroupsOf(d))
    BY <1>2, HyphensAsWritten
  <1>4. PICK e \in Others : e = c
    BY <1>1, ChecksAreRead
  <1>5. PICK q \in Seq(Others) : q = p
    BY <1>1
  <1>6. Append(q, e) \in Seq(Others) /\ Append(q, e) # <<>> /\ Len(Append(q, e)) = Len(q) + 1
        /\ Front(Append(q, e)) = q /\ Last(Append(q, e)) = e
    BY FrontAndLast
  <1>7. IsReading(RadixOf(d), Norm(d), Append(p, c), p, c)
    BY <1>1, <1>4, <1>5, <1>6 DEF IsReading
  <1> QED BY <1>2, <1>3, <1>4, <1>5, <1>6, <1>7 DEF Reads
-----------------------------------------------------------------------------
(* The namespace of a text *)

\* A text is its prefix and the rest.
LEMMA PrefixAndRest ==
  ASSUME NEW S, NEW s \in Seq(S), NEW b \in Seq(S)
  PROVE  IsPrefix(s, s \o b) /\ SubSeq(s \o b, Len(s) + 1, Len(s \o b)) = b
  <1>1. PICK t \in Seq(S) : t = s \o b
    <2>1. s \o b \in Seq(S)
      OBVIOUS
    <2> QED BY <2>1
  <1>2. Len(t) = Len(s) + Len(b) /\ \A i \in 1..Len(s) : t[i] = s[i]
    BY <1>1
  <1>3. \A i \in 1..Len(b) : t[Len(s) + i] = b[i]
    BY <1>1
  <1>4. IsPrefix(s, t)
    <2>1. SubSeq(s, 1, Len(s)) = SubSeq(t, 1, Len(s))
      BY <1>2
    <2> QED BY <1>2, <2>1 DEF IsPrefix
  <1>5. SubSeq(t, Len(s) + 1, Len(t)) = b
    <2>1. PICK n \in Nat, k \in Nat : n = Len(s) /\ k = Len(b) /\ Len(t) = n + k
      BY <1>2
    <2>2. \A i \in 1..k : t[n + i] = b[i]
      BY <1>3, <2>1
    <2>3. PICK z \in Seq(S) : /\ z = SubSeq(t, n + 1, n + k) /\ Len(z) = k
                             /\ \A i \in 1..k : z[i] = t[n + i]
      <3>1. SubSeq(t, n + 1, n + k) \in Seq(S) /\ Len(SubSeq(t, n + 1, n + k)) = k
        BY <2>1
      <3>2. \A i \in 1..k : SubSeq(t, n + 1, n + k)[i] = t[n + i]
        BY <2>1
      <3> QED BY <3>1, <3>2
    <2>4. Len(z) = Len(b) /\ \A i \in 1..Len(z) : z[i] = b[i]
      BY <2>1, <2>2, <2>3
    <2>5. z = b
      BY <2>4
    <2> QED BY <2>1, <2>3, <2>5
  <1> QED BY <1>1, <1>4, <1>5

\* Behind a prefix there is a rest.
LEMMA RestOfText ==
  ASSUME NEW S, NEW s \in Seq(S), NEW t \in Seq(S), IsPrefix(s, t)
  PROVE  \E b \in Seq(S) : t = s \o b
  <1>1. Len(s) <= Len(t) /\ SubSeq(s, 1, Len(s)) = SubSeq(t, 1, Len(s))
    BY DEF IsPrefix
  <1>2. \A i \in 1..Len(s) : s[i] = t[i]
    BY <1>1
  <1>3. PICK b \in Seq(S) : b = SubSeq(t, Len(s) + 1, Len(t))
    <2>1. SubSeq(t, Len(s) + 1, Len(t)) \in Seq(S)
      BY <1>1
    <2> QED BY <2>1
  <1>4. Len(b) = Len(t) - Len(s) /\ \A i \in 1..Len(b) : b[i] = t[Len(s) + i]
    BY <1>1, <1>3
  <1>5. t = s \o b
    <2>1. s \o b \in Seq(S) /\ Len(s \o b) = Len(t)
      BY <1>1, <1>4
    <2>2. ASSUME NEW i \in 1..Len(t) PROVE (s \o b)[i] = t[i]
      <3>1. CASE i \in 1..Len(s)
        BY <1>2, <3>1
      <3>2. CASE i \notin 1..Len(s)
        <4>1. i - Len(s) \in 1..Len(b) /\ Len(s) + (i - Len(s)) = i
          BY <1>1, <1>4, <3>2
        <4>2. (s \o b)[Len(s) + (i - Len(s))] = b[i - Len(s)]
          BY <4>1, Concatenation
        <4>3. b[i - Len(s)] = t[Len(s) + (i - Len(s))]
          BY <1>4, <4>1
        <4> QED BY <4>1, <4>2, <4>3
      <3> QED BY <3>1, <3>2
    <2>3. PICK z \in Seq(S) : z = s \o b
      BY <2>1
    <2>4. Len(z) = Len(t) /\ \A i \in 1..Len(z) : z[i] = t[i]
      BY <2>1, <2>2, <2>3
    <2>5. z = t
      BY <2>4
    <2> QED BY <2>3, <2>5
  <1> QED BY <1>5

\* Two prefixes of one text: one of them starts the other.
LEMMA PrefixesAreComparable ==
  ASSUME NEW S, NEW p \in Seq(S), NEW q \in Seq(S), NEW whole,
         IsPrefix(p, whole), IsPrefix(q, whole), Len(p) <= Len(q)
  PROVE  IsPrefix(p, q)
  <1>1. \A i \in 1..Len(p) : p[i] = whole[i]
    <2>1. SubSeq(p, 1, Len(p)) = SubSeq(whole, 1, Len(p))
      BY DEF IsPrefix
    <2> QED BY <2>1
  <1>2. \A i \in 1..Len(q) : q[i] = whole[i]
    <2>1. SubSeq(q, 1, Len(q)) = SubSeq(whole, 1, Len(q))
      BY DEF IsPrefix
    <2> QED BY <2>1
  <1>3. SubSeq(p, 1, Len(p)) = SubSeq(q, 1, Len(p))
    BY <1>1, <1>2
  <1> QED BY <1>3 DEF IsPrefix

\* A registry: complete definitions, and no prefix starts another.
WellBuilt(defs) ==
  /\ DOMAIN defs \subseteq Nat
  /\ \A i \in DOMAIN defs : HasReference(defs[i]) => ReferenceDefinition(defs[i])
  /\ \A i, j \in DOMAIN defs :
       (/\ HasReference(defs[i]) /\ HasReference(defs[j])
        /\ IsPrefix(defs[i].prefix, defs[j].prefix)) => i = j

\* What a registered prefix is followed by.
Lead(d, text) == IF Hyphen \in ToSet(text) THEN Append(d.prefix, Hyphen) ELSE d.prefix
\* The prefix of the definition i stands before body.
Located(text, defs, i, body) ==
  /\ i \in DOMAIN defs /\ HasReference(defs[i]) /\ body \in Seq(ReferenceSymbols)
  /\ UpperCase(text) = Lead(defs[i], text) \o body

\* The prefix, with the hyphen behind it where the text has hyphens.
LEMMA LeadIs ==
  ASSUME NEW d, ReferenceDefinition(d), NEW text
  PROVE  /\ d.prefix \in Seq(ReferenceSymbols) /\ d.prefix \in Seq(Others)
         /\ Lead(d, text) \in Seq(ReferenceSymbols)
         /\ Len(Lead(d, text)) = Len(d.prefix) + (IF Hyphen \in ToSet(text) THEN 1 ELSE 0)
         /\ IsPrefix(d.prefix, Lead(d, text))
         /\ Len(d.prefix) \in PrefixLengths /\ Len(d.prefix) \in Nat \ {0}
  <1>1. d.prefix \in Seq(Letters) /\ Len(d.prefix) \in PrefixLengths
    BY DEF ReferenceDefinition
  <1>2. Letters \subseteq Others /\ Letters \subseteq ReferenceSymbols
    BY SymbolSets
  <1>3. d.prefix \in Seq(Others) /\ d.prefix \in Seq(ReferenceSymbols)
    BY <1>1, <1>2, LargerSet
  <1>4. PICK p \in Seq(ReferenceSymbols) : p = d.prefix
    BY <1>3
  <1>5. PICK h \in ReferenceSymbols : h = Hyphen
    BY HyphenAndOthers
  <1>6. /\ Append(p, h) \in Seq(ReferenceSymbols) /\ Len(Append(p, h)) = Len(p) + 1
        /\ Append(p, h) = p \o <<h>> /\ p = p \o <<>> /\ Len(p) \in Nat
    OBVIOUS
  <1>7. IsPrefix(p, Append(p, h)) /\ IsPrefix(p, p)
    <2>1. PICK e \in Seq(ReferenceSymbols) : e = <<h>>
      <3>1. <<h>> \in Seq(ReferenceSymbols)
        OBVIOUS
      <3> QED BY <3>1
    <2>2. IsPrefix(p, p \o e)
      BY PrefixAndRest
    <2>3. IsPrefix(p, p)
      BY <1>6 DEF IsPrefix
    <2> QED BY <1>6, <2>1, <2>2, <2>3
  <1>8. Len(p) \in Nat \ {0}
    BY <1>1, <1>4, RegistryAssumption
  <1>9. PICK q \in Seq(ReferenceSymbols) :
          /\ q = IF Hyphen \in ToSet(text) THEN Append(p, h) ELSE p
          /\ Len(q) = Len(p) + (IF Hyphen \in ToSet(text) THEN 1 ELSE 0)
          /\ IsPrefix(p, q)
    <2>1. CASE Hyphen \in ToSet(text)
      BY <1>6, <1>7, <2>1
    <2>2. CASE Hyphen \notin ToSet(text)
      BY <1>6, <1>7, <2>2
    <2> QED BY <2>1, <2>2
  <1>10. Lead(d, text) = q
    BY <1>4, <1>5, <1>9 DEF Lead
  <1>11. Len(d.prefix) \in PrefixLengths /\ Len(d.prefix) \in Nat \ {0}
    BY <1>1, <1>4, <1>8
  <1> QED BY <1>3, <1>4, <1>9, <1>10, <1>11

\* A prefix of the beginning is one of the whole.
LEMMA PrefixOfPrefix ==
  ASSUME NEW S, NEW p \in Seq(S), NEW q \in Seq(S), NEW b \in Seq(S), IsPrefix(p, q)
  PROVE  IsPrefix(p, q \o b)
  <1>1. Len(p) <= Len(q) /\ SubSeq(p, 1, Len(p)) = SubSeq(q, 1, Len(p))
    BY DEF IsPrefix
  <1>2. \A i \in 1..Len(p) : p[i] = q[i]
    BY <1>1
  <1>3. Len(q \o b) = Len(q) + Len(b) /\ \A i \in 1..Len(q) : (q \o b)[i] = q[i]
    OBVIOUS
  <1>4. SubSeq(p, 1, Len(p)) = SubSeq(q \o b, 1, Len(p))
    BY <1>1, <1>2, <1>3
  <1> QED BY <1>1, <1>3, <1>4 DEF IsPrefix

\* A text has one place in a registry.
LEMMA OneLocation ==
  ASSUME NEW defs, WellBuilt(defs), NEW text, NEW i, NEW b, Located(text, defs, i, b)
  PROVE  /\ ReferenceDefinition(defs[i]) /\ IsPrefix(defs[i].prefix, UpperCase(text))
         /\ \A j \in DOMAIN defs :
              (HasReference(defs[j]) /\ IsPrefix(defs[j].prefix, UpperCase(text))) => i = j
  <1> DEFINE R == ReferenceSymbols
  <1>1. ReferenceDefinition(defs[i])
    BY DEF Located, WellBuilt
  <1>2. IsPrefix(defs[i].prefix, UpperCase(text))
    <2>1. PICK p \in Seq(R), q \in Seq(R) : p = defs[i].prefix /\ q = Lead(defs[i], text)
                                            /\ IsPrefix(p, q)
      BY <1>1, LeadIs
    <2>2. PICK c \in Seq(R) : c = b /\ UpperCase(text) = q \o c
      BY <2>1 DEF Located
    <2> HIDE DEF R
    <2>3. IsPrefix(p, q \o c)
      BY <2>1, PrefixOfPrefix
    <2> QED BY <2>1, <2>2, <2>3
  <1>3. ASSUME NEW j \in DOMAIN defs, HasReference(defs[j]),
               IsPrefix(defs[j].prefix, UpperCase(text))
        PROVE  i = j
    <2>1. ReferenceDefinition(defs[j])
      BY <1>3 DEF WellBuilt
    <2>2. PICK p \in Seq(R), q \in Seq(R) : p = defs[i].prefix /\ q = defs[j].prefix
      BY <1>1, <2>1, LeadIs
    <2>3. PICK u : u = UpperCase(text) /\ IsPrefix(p, u) /\ IsPrefix(q, u)
      BY <1>2, <1>3, <2>2
    <2>4. IsPrefix(p, q) \/ IsPrefix(q, p)
      <3> HIDE DEF R
      <3>1. Len(p) <= Len(q) \/ Len(q) <= Len(p)
        BY <2>2
      <3> QED BY <2>3, <3>1, PrefixesAreComparable
    <2>5. i \in DOMAIN defs /\ HasReference(defs[i])
      BY DEF Located
    <2> QED BY <1>3, <2>2, <2>4, <2>5 DEF WellBuilt
  <1> QED BY <1>1, <1>2, <1>3

\* Capitals keep the hyphens.
LEMMA HyphensOfUpper ==
  ASSUME NEW text \in Seq(ReferenceSymbols)
  PROVE  Hyphen \in ToSet(UpperCase(text)) <=> Hyphen \in ToSet(text)
  BY UpperIsReplacement, HyphensStay

\* The candidates of locateNamespace are the namespaces whose prefix stands before a
\* rest.
LEMMA CandidatesAreLocated ==
  ASSUME NEW defs, WellBuilt(defs), NEW text \in Seq(ReferenceSymbols), NEW i
  PROVE  i \in Candidates(UpperCase(text), defs) <=> \E b : Located(text, defs, i, b)
  <1> DEFINE R == ReferenceSymbols
  <1>1. PICK u \in Seq(R) : u = UpperCase(text)
    BY UpperIsReplacement
  <1>2. Hyphen \in ToSet(u) <=> Hyphen \in ToSet(text)
    BY <1>1, HyphensOfUpper
  <1>3. i \in Candidates(u, defs)
          <=> i \in DOMAIN defs /\ HasReference(defs[i]) /\ IsPrefix(Lead(defs[i], text), u)
    BY <1>2 DEF Candidates, Lead
  <1>4. ASSUME i \in DOMAIN defs, HasReference(defs[i]), IsPrefix(Lead(defs[i], text), u)
        PROVE  \E b : Located(text, defs, i, b)
    <2>1. PICK q \in Seq(R) : q = Lead(defs[i], text)
      BY <1>4, LeadIs DEF WellBuilt
    <2>2. PICK b \in Seq(R) : u = q \o b
      <3> HIDE DEF R
      <3> QED BY <1>4, <2>1, RestOfText
    <2> QED BY <1>1, <1>4, <2>1, <2>2 DEF Located
  <1>5. ASSUME NEW b, Located(text, defs, i, b)
        PROVE  i \in DOMAIN defs /\ HasReference(defs[i]) /\ IsPrefix(Lead(defs[i], text), u)
    <2>1. i \in DOMAIN defs /\ HasReference(defs[i])
      BY <1>5 DEF Located
    <2>2. PICK q \in Seq(R) : q = Lead(defs[i], text)
      BY <2>1, LeadIs DEF WellBuilt
    <2>3. PICK c \in Seq(R) : c = b
      BY <1>5 DEF Located
    <2>4. IsPrefix(q, q \o c)
      <3> HIDE DEF R
      <3> QED BY PrefixAndRest
    <2> QED BY <1>1, <1>5, <2>1, <2>2, <2>3, <2>4 DEF Located
  <1> QED BY <1>1, <1>3, <1>4, <1>5

\* A text is parsed in the one namespace it starts with the prefix of.
LEMMA TextIsParsed ==
  ASSUME NEW defs, WellBuilt(defs), NEW text \in Seq(ReferenceSymbols),
         NEW i, NEW body, Located(text, defs, i, body)
  PROVE  ParseReference(text, defs) =
           IF Len(text) \notin 1..MaxLength THEN Failure("invalid_ref")
           ELSE Parsed(defs[i], body)
  <1> DEFINE u == UpperCase(text)
             places == Candidates(u, defs)
             d == defs[CHOOSE k \in places : \A j \in places : k <= j]
             skipped == Len(d.prefix) + (IF Hyphen \in ToSet(text) THEN 1 ELSE 0)
             rest == SubSeq(u, skipped + 1, Len(u))
  <1>1. ToSet(text) \subseteq ReferenceSymbols
    BY SetOfSymbols
  <1>2. ParseReference(text, defs) =
          IF Len(text) \notin 1..MaxLength THEN Failure("invalid_ref")
          ELSE IF places = {} THEN Failure("unknown_namespace")
          ELSE ParseBody(rest, d)
    <2>1. ParseReference(text, defs) =
            IF Len(text) \notin 1..MaxLength \/ ~ToSet(text) \subseteq ReferenceSymbols
            THEN Failure("invalid_ref")
            ELSE IF places = {} THEN Failure("unknown_namespace")
            ELSE IF d.strategy = "sequence" THEN ParseSequentialReference(rest, d)
            ELSE ParseRandomReference(rest, d)
      BY DEF ParseReference
    <2> HIDE DEF places, rest, d
    <2>2. ParseBody(rest, d) = IF d.strategy = "sequence" THEN ParseSequentialReference(rest, d)
                               ELSE ParseRandomReference(rest, d)
      BY DEF ParseBody, IsSequence
    <2> QED BY <1>1, <2>1, <2>2
  <1>3. places = {i}
    <2>1. i \in places
      BY CandidatesAreLocated
    <2>2. ASSUME NEW j \in places PROVE j = i
      <3>1. PICK b : Located(text, defs, j, b)
        BY CandidatesAreLocated
      <3>2. j \in DOMAIN defs /\ HasReference(defs[j]) /\ IsPrefix(defs[j].prefix, u)
        BY <3>1, OneLocation DEF Located
      <3> QED BY <3>2, OneLocation
    <2> QED BY <2>1, <2>2
  <1>4. d = defs[i]
    <2>1. i \in Nat
      BY DEF Located, WellBuilt
    <2>2. i <= i
      BY <2>1
    <2> HIDE DEF places
    <2>3. (CHOOSE k \in places : \A j \in places : k <= j) = i
      BY <1>3, <2>2
    <2> QED BY <2>3
  <1>5. ReferenceDefinition(defs[i]) /\ body \in Seq(ReferenceSymbols)
    BY OneLocation DEF Located
  <1>6. rest = body
    <2> DEFINE R == ReferenceSymbols
    <2>1. PICK q \in Seq(R), b \in Seq(R) : q = Lead(defs[i], text) /\ b = body
                                            /\ u = q \o b
      BY <1>5, LeadIs DEF Located
    <2>2. SubSeq(q \o b, Len(q) + 1, Len(q \o b)) = b
      <3> HIDE DEF R
      <3> QED BY PrefixAndRest
    <2>3. skipped = Len(q)
      <3> HIDE DEF d
      <3> QED BY <1>4, <1>5, <2>1, LeadIs
    <2> HIDE DEF d, skipped, u
    <2> QED BY <2>1, <2>2, <2>3
  <1> HIDE DEF d, rest, places, u
  <1> QED BY <1>2, <1>3, <1>4, <1>5, <1>6, BodyIsParsed

\* What is not refused at once has such a namespace.
LEMMA TextIsLocated ==
  ASSUME NEW defs, WellBuilt(defs), NEW S, NEW text \in Seq(S),
         ParseReference(text, defs).code \notin {"invalid_ref", "unknown_namespace"}
  PROVE  /\ text \in Seq(ReferenceSymbols) /\ Len(text) \in 1..MaxLength
         /\ \E i, body : Located(text, defs, i, body)
  <1>1. /\ Len(text) \in 1..MaxLength /\ ToSet(text) \subseteq ReferenceSymbols
        /\ Candidates(UpperCase(text), defs) # {}
    BY DEF ParseReference, Failure
  <1>2. text \in Seq(ReferenceSymbols)
    BY <1>1, SetOfSymbols
  <1> QED BY <1>1, <1>2, CandidatesAreLocated
-----------------------------------------------------------------------------
(* The reading of a text *)

\* text stands for this payload and this check symbol in the i-th namespace.
Reading(text, defs, i, p, c) ==
  /\ text \in Seq(ReferenceSymbols) /\ Len(text) \in 1..MaxLength
  /\ \E body : Located(text, defs, i, body) /\ Reads(defs[i], body, p, c)

\* A payload that is read has the length and the alphabet of its namespace and its
\* check symbol.
LEMMA ReadPayload ==
  ASSUME NEW d, ReferenceDefinition(d), NEW body, NEW p, NEW c, Reads(d, body, p, c)
  PROVE  /\ p \in Seq(AlphabetOf(d)) /\ Len(p) = PayloadPlaces(d)
         /\ c = CalculateCheckSymbol(RadixOf(d), p) /\ c \in CheckSymbols
  <1>1. PICK s \in Seq(Others) : s = WithoutHyphens(body) /\ s # <<>>
                                 /\ Len(s) = PayloadPlaces(d) + 1
    BY DEF Reads, IsReading
  <1>2. PICK f \in Seq(ReferenceSymbols) : f = Front(s) /\ Len(s) = Len(f) + 1
    <2>1. Front(s) \in Seq(Others) /\ Last(s) \in Others /\ s = Append(Front(s), Last(s))
      BY <1>1, FrontThenLast
    <2>2. Len(s) = Len(Front(s)) + 1
      BY <2>1
    <2> QED BY <2>1, <2>2, HyphenAndOthers
  <1>3. Norm(d) \in [ReferenceSymbols -> ReferenceSymbols]
    BY Forms DEF Replacement
  <1>4. Len(Mapped(Norm(d), f)) = Len(f) /\ Len(f) \in Nat
    BY <1>3, MappedSteps
  <1>5. p = Mapped(Norm(d), f)
    BY <1>1, <1>2 DEF Reads, IsReading
  <1>6. PayloadPlaces(d) \in Nat
    BY Forms
  <1>7. Len(p) = PayloadPlaces(d)
    BY <1>1, <1>2, <1>4, <1>5, <1>6
  <1>8. /\ p \in Seq(AlphabetOf(d)) /\ c = CalculateCheckSymbol(RadixOf(d), p)
        /\ c \in CheckSymbols
    BY DEF Reads, IsReading
  <1> QED BY <1>7, <1>8

\* A text that has a reading is parsed as that.
LEMMA ReadingIsParsed ==
  ASSUME NEW defs, WellBuilt(defs), NEW text, NEW i, NEW p, NEW c,
         Reading(text, defs, i, p, c)
  PROVE  /\ i \in DOMAIN defs /\ ReferenceDefinition(defs[i])
         /\ ParseReference(text, defs) = Success(defs[i], p, c)
         /\ p \in Seq(AlphabetOf(defs[i])) /\ Len(p) = PayloadPlaces(defs[i])
         /\ c = CalculateCheckSymbol(RadixOf(defs[i]), p) /\ c \in CheckSymbols
  <1>1. text \in Seq(ReferenceSymbols) /\ Len(text) \in 1..MaxLength
    BY DEF Reading
  <1>2. PICK body : Located(text, defs, i, body) /\ Reads(defs[i], body, p, c)
    BY DEF Reading
  <1>3. ReferenceDefinition(defs[i]) /\ i \in DOMAIN defs /\ body \in Seq(ReferenceSymbols)
    BY <1>2, OneLocation DEF Located
  <1>4. ParseReference(text, defs) = Parsed(defs[i], body)
    BY <1>1, <1>2, TextIsParsed
  <1>5. Parsed(defs[i], body) = Success(defs[i], p, c)
    BY <1>2, <1>3, ReadIsParsed
  <1> QED BY <1>2, <1>3, <1>4, <1>5, ReadPayload

\* What is parsed has a reading.
LEMMA ParseIsReading ==
  ASSUME NEW defs, WellBuilt(defs), NEW S, NEW text \in Seq(S),
         Succeeds(ParseReference(text, defs))
  PROVE  \E i, p, c : Reading(text, defs, i, p, c)
  <1>1. ParseReference(text, defs).code \notin {"invalid_ref", "unknown_namespace"}
    BY DEF Succeeds
  <1>2. text \in Seq(ReferenceSymbols) /\ Len(text) \in 1..MaxLength
    BY <1>1, TextIsLocated
  <1>3. PICK i, body : Located(text, defs, i, body)
    BY <1>1, TextIsLocated
  <1>4. ReferenceDefinition(defs[i]) /\ body \in Seq(ReferenceSymbols)
    BY <1>3, OneLocation DEF Located
  <1>5. Succeeds(Parsed(defs[i], body))
    BY <1>2, <1>3, TextIsParsed
  <1>6. PICK p, c : Reads(defs[i], body, p, c)
    BY <1>4, <1>5, ParsedIsRead
  <1> QED BY <1>2, <1>3, <1>6 DEF Reading

-----------------------------------------------------------------------------
(* What is written *)

\* The text of a payload is read as that payload, and looks like a reference.
LEMMA TextOfIs ==
  ASSUME NEW d, ReferenceDefinition(d), NEW p \in Seq(AlphabetOf(d)),
         Len(p) = PayloadPlaces(d), NEW c \in CheckSymbols
  PROVE  /\ TextOf(d, p, c) \in Seq(CheckSymbols \cup Letters \cup {Hyphen})
         /\ TextOf(d, p, c) \in Seq(ReferenceSymbols)
         /\ TextOf(d, p, c) = Append(d.prefix, Hyphen) \o BodyOf(d, p, c)
         /\ BodyOf(d, p, c) \in Seq(ReferenceSymbols)
         /\ UpperCase(TextOf(d, p, c)) = TextOf(d, p, c)
         /\ Len(TextOf(d, p, c)) \in 1..MaxLength
         /\ Len(TextOf(d, p, c)) > Len(d.prefix)
         /\ \A k \in 1..Len(d.prefix) : TextOf(d, p, c)[k] \in Letters
         /\ TextOf(d, p, c)[Len(d.prefix) + 1] = Hyphen
         /\ Hyphen \in ToSet(TextOf(d, p, c)) /\ "_" \notin ToSet(TextOf(d, p, c))
  <1> DEFINE C == CheckSymbols \cup Letters \cup {Hyphen}
  <1>1. C \subseteq ReferenceSymbols /\ "_" \notin C /\ \A x \in C : Cap(x) = x
    BY SymbolSets, Case
  <1>2. PICK b \in Seq(C) : b = BodyOf(d, p, c) /\ Len(d.prefix) + 1 + Len(b) <= MaxLength
    <2>1. BodyOf(d, p, c) \in Seq(CheckSymbols \cup {Hyphen})
          /\ Len(d.prefix) + 1 + Len(BodyOf(d, p, c)) <= MaxLength
      BY BodyIs
    <2>2. CheckSymbols \cup {Hyphen} \subseteq C
      OBVIOUS
    <2> HIDE DEF C
    <2> QED BY <2>1, <2>2, LargerSet
  <1>3. PICK q \in Seq(C) : q = d.prefix /\ q \in Seq(Letters) /\ Len(q) \in Nat \ {0}
    <2>1. d.prefix \in Seq(Letters) /\ Len(d.prefix) \in Nat \ {0}
      BY LeadIs DEF ReferenceDefinition
    <2>2. Letters \subseteq C
      OBVIOUS
    <2> HIDE DEF C
    <2> QED BY <2>1, <2>2, LargerSet
  <1>4. PICK h \in C : h = Hyphen
    OBVIOUS
  <1>5. TextOf(d, p, c) = q \o <<h>> \o b
    BY <1>2, <1>3, <1>4 DEF TextOf
  <1>6. PICK l \in Seq(C) : l = Append(q, h) /\ Len(l) = Len(q) + 1 /\ l[Len(q) + 1] = h
                            /\ \A k \in 1..Len(q) : l[k] = q[k]
    <2> HIDE DEF C
    <2>1. Append(q, h) \in Seq(C)
      OBVIOUS
    <2>2. /\ Len(Append(q, h)) = Len(q) + 1 /\ Append(q, h)[Len(q) + 1] = h
          /\ \A k \in 1..Len(q) : Append(q, h)[k] = q[k]
      OBVIOUS
    <2> QED BY <2>1, <2>2
  <1>7. PICK t \in Seq(C) : t = l \o b /\ Len(t) = Len(l) + Len(b)
                            /\ \A k \in 1..Len(l) : t[k] = l[k]
    <2> HIDE DEF C
    <2>1. l \o b \in Seq(C)
      OBVIOUS
    <2> QED BY <2>1, Concatenation, ZenonT(60)
  <1>8. TextOf(d, p, c) = t
    <2> HIDE DEF C
    <2>1. q \o <<h>> = l
      BY <1>6
    <2> QED BY <1>5, <1>7, <2>1
  <1>9. Len(t) \in 1..MaxLength /\ Len(t) > Len(q) /\ t[Len(q) + 1] = h
        /\ \A k \in 1..Len(q) : t[k] \in Letters
    <2>1. Len(l) \in Nat /\ Len(b) \in Nat /\ MaxLength \in Nat
      BY LengthsAssumption
    <2>2. \A k \in 1..Len(q) : q[k] \in Letters
      BY <1>3
    <2>3. Len(t) \in 1..MaxLength /\ Len(t) > Len(q)
      BY <1>2, <1>3, <1>6, <1>7, <2>1
    <2>4. t[Len(q) + 1] = h /\ \A k \in 1..Len(q) : t[k] = q[k]
      BY <1>3, <1>6, <1>7
    <2> QED BY <2>2, <2>3, <2>4
  <1>10. Hyphen \in ToSet(t) /\ "_" \notin ToSet(t)
    <2>1. Len(q) + 1 \in DOMAIN t
      BY <1>3, <1>9
    <2>2. \A k \in DOMAIN t : t[k] \in C
      <3> HIDE DEF C
      <3> QED OBVIOUS
    <2> HIDE DEF C
    <2> QED BY <1>1, <1>4, <1>9, <2>1, <2>2 DEF ToSet
  <1>11. t \in Seq(ReferenceSymbols) /\ b \in Seq(ReferenceSymbols)
    <2> HIDE DEF C
    <2> QED BY <1>1, LargerSet
  <1>12. UpperCase(t) = t
    <2>1. \A k \in DOMAIN t : t[k] \in C
      <3> HIDE DEF C
      <3> QED OBVIOUS
    <2>2. \A k \in DOMAIN t : Cap(t[k]) = t[k]
      <3> HIDE DEF C
      <3> QED BY <1>1, <2>1
    <2>3. UpperCase(t) = [k \in DOMAIN t |-> Cap(t[k])]
      BY DEF UpperCase, Cap
    <2>4. t = [k \in DOMAIN t |-> t[k]]
      OBVIOUS
    <2> QED BY <2>2, <2>3, <2>4
  <1> QED BY <1>2, <1>3, <1>4, <1>6, <1>7, <1>8, <1>9, <1>10, <1>11, <1>12

\* What is written is read as the payload it was written for.
LEMMA WrittenIsReading ==
  ASSUME NEW defs, WellBuilt(defs), NEW i \in DOMAIN defs, HasReference(defs[i]),
         NEW p \in Seq(AlphabetOf(defs[i])), Len(p) = PayloadPlaces(defs[i]),
         NEW c, c = CalculateCheckSymbol(RadixOf(defs[i]), p)
  PROVE  Reading(TextOf(defs[i], p, c), defs, i, p, c)
  <1>1. ReferenceDefinition(defs[i])
    BY DEF WellBuilt
  <1>2. c \in CheckSymbols
    BY <1>1, CheckIsThere
  <1>3. Reads(defs[i], BodyOf(defs[i], p, c), p, c)
    BY <1>1, WrittenIsRead
  <1>4. PICK t : /\ t = TextOf(defs[i], p, c)
                 /\ t \in Seq(ReferenceSymbols) /\ Len(t) \in 1..MaxLength
                 /\ UpperCase(t) = t /\ Hyphen \in ToSet(t)
                 /\ t = Append(defs[i].prefix, Hyphen) \o BodyOf(defs[i], p, c)
    BY <1>1, <1>2, TextOfIs, ZenonT(60)
  <1>5. BodyOf(defs[i], p, c) \in Seq(ReferenceSymbols)
    BY <1>1, <1>2, TextOfIs
  <1>6. Located(t, defs, i, BodyOf(defs[i], p, c))
    BY <1>4, <1>5 DEF Located, Lead
  <1> QED BY <1>3, <1>4, <1>6 DEF Reading

\* What is written looks like a reference to the service (service.ts:336).
LEMMA WrittenLooksSo ==
  ASSUME NEW d, ReferenceDefinition(d), NEW p \in Seq(AlphabetOf(d)),
         Len(p) = PayloadPlaces(d), NEW c \in CheckSymbols
  PROVE  DetectIdentifierKind(TextOf(d, p, c)) = "ref"
  <1>1. PICK t \in Seq(ReferenceSymbols), n \in Nat \ {0} :
          /\ t = TextOf(d, p, c) /\ n = Len(d.prefix) /\ n \in PrefixLengths
          /\ UpperCase(t) = t /\ Len(t) > n /\ t[n + 1] = Hyphen
          /\ (\A k \in 1..n : t[k] \in Letters) /\ "_" \notin ToSet(t)
    BY TextOfIs, LeadIs
  <1> DEFINE letters == {k \in 0..Len(t) : ToSet(SubSeq(t, 1, k)) \subseteq Letters}
  <1>2. Hyphen \notin Letters
    BY SymbolSets
  <1>3. \A k \in 0..Len(t) : \A j \in 1..k : j \in DOMAIN SubSeq(t, 1, k)
                                              /\ SubSeq(t, 1, k)[j] = t[j]
    OBVIOUS
  <1>4. \A k \in 0..Len(t) : ToSet(SubSeq(t, 1, k)) = {t[j] : j \in 1..k}
    <2>1. \A k \in 0..Len(t) : DOMAIN SubSeq(t, 1, k) = 1..k
      OBVIOUS
    <2> QED BY <1>3, <2>1 DEF ToSet
  <1>5. \A k \in 0..Len(t) : k \in letters <=> k <= n
    <2>1. ASSUME NEW k \in 0..Len(t), k <= n PROVE k \in letters
      <3>1. \A j \in 1..k : j \in 1..n
        BY <2>1
      <3>2. {t[j] : j \in 1..k} \subseteq Letters
        BY <1>1, <3>1
      <3> QED BY <1>4, <3>2
    <2>2. ASSUME NEW k \in 0..Len(t), k > n PROVE k \notin letters
      <3>1. n + 1 \in 1..k
        BY <2>2
      <3>2. Hyphen \in {t[j] : j \in 1..k}
        BY <1>1, <3>1
      <3> QED BY <1>2, <1>4, <3>2
    <2>3. \A k \in 0..Len(t) : k <= n \/ k > n
      OBVIOUS
    <2> HIDE DEF letters
    <2> QED BY <2>1, <2>2, <2>3
  <1>6. letters = 0..n
    <2>1. letters \subseteq 0..Len(t)
      OBVIOUS
    <2>2. \A k : k \in 0..n <=> k \in 0..Len(t) /\ k <= n
      <3>1. PICK l \in Nat : l = Len(t)
        OBVIOUS
      <3>2. l > n
        BY <1>1, <3>1
      <3> QED BY <3>1, <3>2
    <2> HIDE DEF letters
    <2> QED BY <1>5, <2>1, <2>2
  <1> HIDE DEF letters
  <1>7. (CHOOSE k \in letters : k + 1 \notin letters) = n
    BY <1>6
  <1>8. DetectIdentifierKind(t) =
          LET k == CHOOSE k \in letters : k + 1 \notin letters
          IN IF "_" \in ToSet(t) THEN "pid"
             ELSE IF /\ k \in PrefixLengths /\ k < Len(t)
                     /\ t[k + 1] \in Digits \cup {Hyphen}
             THEN "ref" ELSE "unknown"
    BY <1>1 DEF DetectIdentifierKind, letters
  <1> QED BY <1>1, <1>7, <1>8

\* What is read is normalized to a text that is read as itself.
LEMMA NormalizedIsRead ==
  ASSUME NEW defs, WellBuilt(defs), NEW S, NEW text \in Seq(S),
         Succeeds(ParseReference(text, defs))
  PROVE  LET parsed == ParseReference(text, defs) IN
         /\ ParseReference(parsed.value, defs) = parsed
         /\ ParseIdentifier(parsed.value, defs) = parsed
  <1>1. PICK i, p, c : Reading(text, defs, i, p, c)
    BY ParseIsReading
  <1>2. PICK d : /\ d = defs[i] /\ i \in DOMAIN defs /\ ReferenceDefinition(d)
                 /\ ParseReference(text, defs) = Success(d, p, c)
                 /\ p \in Seq(AlphabetOf(d)) /\ Len(p) = PayloadPlaces(d)
                 /\ c = CalculateCheckSymbol(RadixOf(d), p) /\ c \in CheckSymbols
    BY <1>1, ReadingIsParsed
  <1>3. HasReference(d)
    BY <1>2 DEF ReferenceDefinition
  <1>4. Reading(TextOf(d, p, c), defs, i, p, c)
    BY <1>2, <1>3, WrittenIsReading
  <1>5. ParseReference(TextOf(d, p, c), defs) = Success(d, p, c)
    BY <1>2, <1>4, ReadingIsParsed
  <1>6. DetectIdentifierKind(TextOf(d, p, c)) = "ref"
    BY <1>2, WrittenLooksSo
  <1>7. ParseIdentifier(TextOf(d, p, c), defs) = Success(d, p, c)
    BY <1>5, <1>6 DEF ParseIdentifier
  <1>8. Success(d, p, c).value = TextOf(d, p, c)
    BY DEF Success
  <1> QED BY <1>2, <1>5, <1>7, <1>8
-----------------------------------------------------------------------------
(* The last symbol, and what is put in its place *)

\* The symbols of a text with one more.
LEMMA HyphenInAppend ==
  ASSUME NEW s \in Seq(ReferenceSymbols), NEW c \in ReferenceSymbols
  PROVE  /\ ToSet(Append(s, c)) = ToSet(s) \cup {c}
         /\ Hyphen \in ToSet(Append(s, c)) <=> (Hyphen \in ToSet(s) \/ c = Hyphen)
  <1>1. PICK n \in Nat : n = Len(s) /\ DOMAIN s = 1..n
    OBVIOUS
  <1>2. /\ DOMAIN Append(s, c) = 1..n + 1 /\ Append(s, c)[n + 1] = c
        /\ \A i \in 1..n : Append(s, c)[i] = s[i]
    BY <1>1
  <1>3. 1..n + 1 = 1..n \cup {n + 1}
    OBVIOUS
  <1>4. ToSet(Append(s, c)) = ToSet(s) \cup {c}
    BY <1>1, <1>2, <1>3 DEF ToSet
  <1> QED BY <1>4

\* What is hyphenated as it should be ends in a group of one symbol.
LEMMA BodyEnds ==
  ASSUME NEW d, ReferenceDefinition(d), NEW body \in Seq(ReferenceSymbols),
         WithoutHyphens(body) # <<>>, ValidHyphenation(body, GroupsOf(d))
  PROVE  \E b \in Seq(ReferenceSymbols), l \in Others : body = Append(b, l)
  <1>1. body # <<>>
    BY HyphensDropped
  <1>2. PICK b \in Seq(ReferenceSymbols), l \in ReferenceSymbols : body = Append(b, l)
    BY <1>1, FrontThenLast
  <1>3. ASSUME l = Hyphen PROVE FALSE
    <2>1. Hyphen \in ToSet(body)
      BY <1>2, <1>3, HyphenInAppend
    <2>2. GroupLengths(body) = GroupsOf(d)
      BY <2>1 DEF ValidHyphenation, GroupLengths
    <2>3. PICK g \in Seq(Nat) : g = GroupLengths(b) /\ Append(g, 0) = GroupsOf(d)
      BY <1>2, <1>3, <2>2, GroupLengthsSteps
    <2>4. PICK h \in Seq(Nat) : GroupsOf(d) = Append(h, 1)
      <3>1. CASE IsSequence(d)
        <4>1. PICK w \in Nat, n \in Nat : w = d.width /\ n = ScopePlaces(d)
          BY <3>1, Forms
        <4>2. <<w>> \in Seq(Nat) /\ <<n, w>> \in Seq(Nat)
          OBVIOUS
        <4>3. Append(<<w>>, 1) = <<w, 1>> /\ Append(<<n, w>>, 1) = <<n, w, 1>>
          BY PairAppended, MoreAppended
        <4>4. GroupsOf(d) = IF n = 0 THEN <<w, 1>> ELSE <<n, w, 1>>
          BY <3>1, <4>1 DEF GroupsOf
        <4> QED BY <4>2, <4>3, <4>4
      <3>2. CASE ~IsSequence(d)
        <4>1. PICK g1 : InGroups(g1, d.payloadLength) /\ RandomGroups(d.payloadLength) = Append(g1, 1)
          BY <3>2, Forms, RandomGroupsAre
        <4>2. GroupsOf(d) = Append(g1, 1)
          BY <3>2, <4>1 DEF GroupsOf
        <4>3. g1 \in Seq(Nat)
          BY <4>1 DEF InGroups
        <4> QED BY <4>2, <4>3
      <3> QED BY <3>1, <3>2
    <2>5. Last(Append(g, 0)) = 0 /\ Last(Append(h, 1)) = 1
      BY FrontAndLast
    <2> QED BY <2>3, <2>4, <2>5
  <1> QED BY <1>2, <1>3 DEF Others

\* Hyphens stay where they are, when symbols are replaced.
LEMMA HyphenationStays ==
  ASSUME NEW f, Replacement(f), NEW b \in Seq(ReferenceSymbols),
         NEW l \in Others, NEW c \in Others, NEW groups,
         ValidHyphenation(Append(b, l), groups)
  PROVE  ValidHyphenation(Append(Mapped(f, b), c), groups)
  <1>1. l \in ReferenceSymbols /\ c \in ReferenceSymbols /\ l # Hyphen /\ c # Hyphen
    BY HyphenAndOthers
  <1>2. f \in [ReferenceSymbols -> ReferenceSymbols]
    BY DEF Replacement
  <1>3. PICK m \in Seq(ReferenceSymbols) : m = Mapped(f, b)
    BY <1>2, MappedSteps
  <1>4. Hyphen \in ToSet(Append(b, l)) <=> Hyphen \in ToSet(b)
    BY <1>1, HyphenInAppend
  <1>5. Hyphen \in ToSet(Append(m, c)) <=> Hyphen \in ToSet(m)
    BY <1>1, HyphenInAppend
  <1>6. GroupLengths(m) = GroupLengths(b) /\ (Hyphen \in ToSet(m) <=> Hyphen \in ToSet(b))
    BY <1>3, HyphensStay
  <1>7. GroupLengths(Append(b, l)) = OneLonger(GroupLengths(b))
        /\ GroupLengths(Append(m, c)) = OneLonger(GroupLengths(m))
    BY GroupLengthsSteps
  <1>8. Hyphen \notin ToSet(Append(b, l)) \/ GroupLengths(Append(b, l)) = groups
    BY DEF ValidHyphenation, GroupLengths
  <1>9. Hyphen \notin ToSet(Append(m, c)) \/ GroupLengths(Append(m, c)) = groups
    BY <1>4, <1>5, <1>6, <1>7, <1>8
  <1> QED BY <1>3, <1>9 DEF ValidHyphenation, GroupLengths

\* A body whose payload is written with other symbols of the same meaning and
\* whose last symbol is the check symbol of the payload.
LEMMA Rewritten ==
  ASSUME NEW d, ReferenceDefinition(d), NEW f, Replacement(f),
         NEW b \in Seq(ReferenceSymbols), NEW l \in Others,
         Len(WithoutHyphens(Append(b, l))) = PayloadPlaces(d) + 1,
         ValidHyphenation(Append(b, l), GroupsOf(d)),
         NEW p \in Seq(AlphabetOf(d)), p = Mapped(Norm(d), WithoutHyphens(b)),
         Mapped(Norm(d), Mapped(f, WithoutHyphens(b))) = p,
         NEW c, c = CalculateCheckSymbol(RadixOf(d), p)
  PROVE  Reads(d, Append(Mapped(f, b), c), p, c)
  <1>1. p \in Seq(DataSymbols) /\ c \in CheckSymbols
    BY CheckIsThere
  <1>2. PICK e \in Others : e = c
    BY <1>1, ChecksAreRead
  <1>3. f \in [ReferenceSymbols -> ReferenceSymbols]
    BY DEF Replacement
  <1>4. PICK m \in Seq(ReferenceSymbols) : m = Mapped(f, b)
    BY <1>3, MappedSteps
  <1>5. PICK w \in Seq(Others) : w = WithoutHyphens(b)
    BY HyphensDropped
  <1>6. PICK v \in Seq(Others) : v = WithoutHyphens(m) /\ v = Mapped(f, w)
    BY <1>4, <1>5, HyphensDropped, HyphensStay
  <1>7. Len(v) = Len(w)
    <2>1. w \in Seq(ReferenceSymbols)
      BY HyphenAndOthers
    <2> QED BY <1>3, <1>6, <2>1, MappedSteps
  <1>8. WithoutHyphens(Append(b, l)) = Append(w, l) /\ WithoutHyphens(Append(m, e)) = Append(v, e)
    BY <1>5, <1>6, HyphensDropped
  <1>9. Len(Append(v, e)) = PayloadPlaces(d) + 1
    <2>1. Len(Append(v, e)) = Len(v) + 1 /\ Len(Append(w, l)) = Len(w) + 1
      OBVIOUS
    <2> QED BY <1>7, <1>8, <2>1
  <1>10. /\ Append(v, e) \in Seq(Others) /\ Append(v, e) # <<>>
         /\ Front(Append(v, e)) = v /\ Last(Append(v, e)) = e
    BY FrontAndLast
  <1>11. p = Mapped(Norm(d), v)
    BY <1>5, <1>6
  <1>12. IsReading(RadixOf(d), Norm(d), Append(v, e), p, e)
    BY <1>1, <1>2, <1>10, <1>11 DEF IsReading
  <1>13. ValidHyphenation(Append(m, e), GroupsOf(d))
    BY <1>4, HyphenationStays
  <1> QED BY <1>2, <1>4, <1>8, <1>9, <1>12, <1>13 DEF Reads

\* A check symbol that is wrong can be put right.
LEMMA CheckCorrected ==
  ASSUME NEW defs, WellBuilt(defs), NEW S, NEW text \in Seq(S),
         ParseReference(text, defs).code = "invalid_checksum"
  PROVE  \E c \in CheckSymbols : Succeeds(ParseReference(Append(Front(text), c), defs))
  <1> DEFINE R == ReferenceSymbols
  <1>1. text \in Seq(R) /\ Len(text) \in 1..MaxLength
    BY TextIsLocated
  <1>2. PICK i, body : Located(text, defs, i, body)
    BY TextIsLocated
  <1>3. PICK d : d = defs[i] /\ ReferenceDefinition(d) /\ body \in Seq(R) /\ i \in DOMAIN defs
                 /\ HasReference(d) /\ UpperCase(text) = Lead(d, text) \o body
    BY <1>2, OneLocation DEF Located
  <1>4. ParseReference(text, defs) = Parsed(d, body)
    BY <1>1, <1>2, <1>3, TextIsParsed
  <1>5. /\ Len(WithoutHyphens(body)) = PayloadPlaces(d) + 1
        /\ ValidHyphenation(body, GroupsOf(d))
        /\ Payload(d, body) \in Seq(AlphabetOf(d))
    BY <1>3, <1>4, ParsedIsRead
  <1>6. WithoutHyphens(body) # <<>>
    BY <1>3, <1>5, Forms
  <1>7. PICK b \in Seq(R), l \in Others : body = Append(b, l)
    BY <1>3, <1>5, <1>6, BodyEnds
  <1>8. PICK w \in Seq(Others) : w = WithoutHyphens(b) /\ WithoutHyphens(body) = Append(w, l)
    BY <1>7, HyphensDropped
  <1>9. Payload(d, body) = Mapped(Norm(d), w)
    BY <1>8, FrontAndLast DEF Payload
  <1>10. PICK p \in Seq(AlphabetOf(d)) : p = Mapped(Norm(d), w)
    BY <1>5, <1>9
  <1>11. PICK c \in CheckSymbols : c = CalculateCheckSymbol(RadixOf(d), p)
    BY <1>3, CheckIsThere
  <1>12. Reads(d, Append(b, c), p, c)
    <2>1. Mapped(SameMap, b) = b /\ Mapped(SameMap, w) = w /\ Replacement(SameMap)
      BY MapsReplace, HyphenAndOthers
    <2>2. Reads(d, Append(Mapped(SameMap, b), c), p, c)
      BY <1>3, <1>5, <1>7, <1>8, <1>10, <1>11, <2>1, Rewritten
    <2> QED BY <2>1, <2>2
  <1>13. PICK front \in Seq(R), x \in R : front = Front(text) /\ text = Append(front, x)
    <2>1. text # <<>>
      BY <1>1
    <2> HIDE DEF R
    <2> QED BY <1>1, <2>1, FrontThenLast
  <1>14. PICK e \in R : e = c /\ e \in Others
    BY ChecksAreRead, HyphenAndOthers
  <1>15. PICK v \in Seq(R), y \in R :
           /\ v = UpperCase(front) /\ y = Cap(x)
           /\ UpperCase(text) = Append(v, y) /\ UpperCase(Append(front, e)) = Append(v, e)
    <2>1. /\ Replacement(Upper) /\ Upper \in [R -> R] /\ \A z \in R : Upper[z] = Cap(z)
      BY UpperIsReplacement DEF Replacement, Upper
    <2>2. Cap(e) = e
      BY <1>14, Case
    <2>3. Append(front, e) \in Seq(R)
      <3> HIDE DEF R
      <3> QED OBVIOUS
    <2>4. UpperCase(front) = Mapped(Upper, front) /\ UpperCase(text) = Mapped(Upper, text)
          /\ UpperCase(Append(front, e)) = Mapped(Upper, Append(front, e))
      BY <1>1, <2>3, UpperIsReplacement
    <2>5. UpperCase(front) \in Seq(R) /\ Cap(x) \in R
      BY Case, UpperIsReplacement
    <2> HIDE DEF R
    <2>6. Mapped(Upper, Append(front, x)) = Append(Mapped(Upper, front), Upper[x])
          /\ Mapped(Upper, Append(front, e)) = Append(Mapped(Upper, front), Upper[e])
      BY <2>1, MappedAppend
    <2> QED BY <1>13, <2>1, <2>2, <2>4, <2>5, <2>6
  <1>16. PICK q \in Seq(R), k \in R : q = Lead(d, text) /\ k = l /\ k # Hyphen
    BY <1>3, LeadIs, HyphenAndOthers
  <1>17. v = q \o b /\ y = k
    <2> HIDE DEF R
    <2>1. q \o Append(b, k) = Append(q \o b, k)
      BY AppendToSecond
    <2>2. PICK qb \in Seq(R) : qb = q \o b
      <3>1. q \o b \in Seq(R)
        OBVIOUS
      <3> QED BY <3>1
    <2>3. Append(v, y) = Append(qb, k)
      BY <1>3, <1>7, <1>15, <1>16, <2>1, <2>2
    <2>4. v = qb /\ y = k
      <3>1. Front(Append(v, y)) = v /\ Last(Append(v, y)) = y
        BY FrontAndLast
      <3>2. Front(Append(qb, k)) = qb /\ Last(Append(qb, k)) = k
        BY FrontAndLast
      <3> QED BY <2>3, <3>1, <3>2
    <2> QED BY <2>2, <2>4
  <1>18. Hyphen \in ToSet(Append(front, e)) <=> Hyphen \in ToSet(text)
    <2>1. x # Hyphen /\ e # Hyphen
      <3>1. Cap(x) = Hyphen <=> x = Hyphen
        BY Case
      <3> QED BY <1>14, <1>15, <1>16, <1>17, <3>1, HyphenAndOthers
    <2>2. Hyphen \in ToSet(Append(front, e)) <=> Hyphen \in ToSet(front)
      BY <2>1, HyphenInAppend
    <2>3. Hyphen \in ToSet(Append(front, x)) <=> Hyphen \in ToSet(front)
      BY <2>1, HyphenInAppend
    <2> QED BY <1>13, <2>2, <2>3
  <1>19. Located(Append(front, e), defs, i, Append(b, e))
    <2>1. Lead(d, Append(front, e)) = q
      BY <1>16, <1>18 DEF Lead
    <2>2. Append(v, e) = q \o Append(b, e) /\ Append(b, e) \in Seq(R)
      <3> HIDE DEF R
      <3>1. q \o Append(b, e) = Append(q \o b, e)
        BY AppendToSecond
      <3>2. Append(b, e) \in Seq(R)
        OBVIOUS
      <3> QED BY <1>17, <3>1, <3>2
    <2> QED BY <1>3, <1>15, <2>1, <2>2 DEF Located
  <1>20. Append(front, e) \in Seq(R) /\ Len(Append(front, e)) \in 1..MaxLength
    <2> HIDE DEF R
    <2>1. Append(front, e) \in Seq(R) /\ Len(Append(front, e)) = Len(front) + 1
          /\ Len(Append(front, x)) = Len(front) + 1
      OBVIOUS
    <2> QED BY <1>1, <1>13, <2>1
  <1>21. Reading(Append(front, c), defs, i, p, c)
    BY <1>3, <1>12, <1>14, <1>19, <1>20 DEF Reading
  <1>22. Succeeds(ParseReference(Append(Front(text), c), defs))
    BY <1>13, <1>21, ReadingIsParsed DEF Succeeds, Success
  <1> QED BY <1>22

\* What inspect says of any text is so (service.ts:209-276).
LEMMA InspectedHonestly ==
  ASSUME NEW defs, WellBuilt(defs), NEW S, NEW text \in Seq(S)
  PROVE  /\ Inspect(text, defs).registryRecognized =>
              \E i \in DOMAIN defs :
                HasReference(defs[i]) /\ IsPrefix(defs[i].prefix, UpperCase(text))
         /\ FALSE \in Inspect(text, defs).checksumValid =>
              \E c \in CheckSymbols : Succeeds(ParseReference(Append(Front(text), c), defs))
  <1> DEFINE seen == Inspect(text, defs)
             parsed == ParseReference(text, defs)
  <1>1. seen.registryRecognized
          <=> /\ DetectIdentifierKind(text) = "ref"
              /\ ParseIdentifier(text, defs).code \notin {"invalid_ref", "unknown_namespace"}
    BY DEF Inspect
  <1>2. DetectIdentifierKind(text) = "ref" => ParseIdentifier(text, defs) = parsed
    BY DEF ParseIdentifier
  <1>3. ASSUME seen.registryRecognized
        PROVE  \E i \in DOMAIN defs :
                 HasReference(defs[i]) /\ IsPrefix(defs[i].prefix, UpperCase(text))
    <2>1. parsed.code \notin {"invalid_ref", "unknown_namespace"}
      BY <1>1, <1>2, <1>3
    <2>2. PICK i, body : Located(text, defs, i, body)
      BY <2>1, TextIsLocated
    <2> QED BY <2>2, OneLocation DEF Located
  <1>4. ASSUME FALSE \in seen.checksumValid
        PROVE  \E c \in CheckSymbols : Succeeds(ParseReference(Append(Front(text), c), defs))
    <2>1. ParseIdentifier(text, defs).code = "invalid_checksum"
      BY <1>4 DEF Inspect
    <2>2. DetectIdentifierKind(text) = "ref"
      BY <2>1 DEF ParseIdentifier, Failure
    <2>3. parsed.code = "invalid_checksum"
      BY <1>2, <2>1, <2>2
    <2> QED BY <2>3, CheckCorrected
  <1> QED BY <1>3, <1>4
-----------------------------------------------------------------------------
(* Copies *)

\* Leaving out hyphens makes no text longer.
LEMMA FewerSymbols ==
  ASSUME NEW s \in Seq(ReferenceSymbols)
  PROVE  Len(WithoutHyphens(s)) \in Nat /\ Len(WithoutHyphens(s)) <= Len(s)
  <1> DEFINE R == ReferenceSymbols
             T == {t \in Seq(R) : Len(WithoutHyphens(t)) <= Len(t)}
  <1>1. <<>> \in T
    BY HyphensDropped
  <1>2. ASSUME NEW t \in Seq(R), NEW c \in R, t \in T PROVE Append(t, c) \in T
    <2>1. PICK w \in Seq(Others) : w = WithoutHyphens(t) /\ Len(w) <= Len(t)
      BY <1>2, HyphensDropped
    <2>2. Append(t, c) \in Seq(R) /\ Len(Append(t, c)) = Len(t) + 1 /\ Len(t) \in Nat
      <3> HIDE DEF R
      <3> QED OBVIOUS
    <2>3. WithoutHyphens(Append(t, c)) = IF c = Hyphen THEN w ELSE Append(w, c)
      BY <2>1, HyphensDropped DEF Others
    <2>4. Len(w) \in Nat /\ (c # Hyphen => Len(Append(w, c)) = Len(w) + 1)
      OBVIOUS
    <2> QED BY <2>1, <2>2, <2>3, <2>4
  <1>3. Seq(R) \subseteq T
    <2> HIDE DEF T, R
    <2> QED BY <1>1, <1>2, SequenceInduction
  <1>4. WithoutHyphens(s) \in Seq(Others)
    BY HyphensDropped
  <1> QED BY <1>3, <1>4

\* Small letters.
LEMMA SmallIsRead ==
  ASSUME NEW defs, NEW text, NEW i, NEW p, NEW c, Reading(text, defs, i, p, c)
  PROVE  Reading(LowerCase(text), defs, i, p, c)
  <1>1. PICK body : Located(text, defs, i, body) /\ Reads(defs[i], body, p, c)
    BY DEF Reading
  <1>2. text \in Seq(ReferenceSymbols) /\ Len(text) \in 1..MaxLength
    BY DEF Reading
  <1>3. /\ LowerCase(text) \in Seq(ReferenceSymbols) /\ Len(LowerCase(text)) = Len(text)
        /\ UpperCase(LowerCase(text)) = UpperCase(text)
    BY <1>2, UpperIsReplacement
  <1>4. Hyphen \in ToSet(LowerCase(text)) <=> Hyphen \in ToSet(text)
    <2>1. Hyphen \in ToSet(UpperCase(LowerCase(text))) <=> Hyphen \in ToSet(LowerCase(text))
      BY <1>3, HyphensOfUpper
    <2>2. Hyphen \in ToSet(UpperCase(text)) <=> Hyphen \in ToSet(text)
      BY <1>2, HyphensOfUpper
    <2> QED BY <1>3, <2>1, <2>2
  <1>5. Located(LowerCase(text), defs, i, body)
    BY <1>1, <1>3, <1>4 DEF Located, Lead
  <1> QED BY <1>1, <1>2, <1>3, <1>5 DEF Reading

\* A body is read the same without its hyphens.
LEMMA HyphenlessReads ==
  ASSUME NEW d, NEW body \in Seq(ReferenceSymbols), NEW p, NEW c, Reads(d, body, p, c)
  PROVE  Reads(d, WithoutHyphens(body), p, c)
  <1>1. PICK s \in Seq(Others) : s = WithoutHyphens(body)
    BY HyphensDropped
  <1>2. WithoutHyphens(s) = s /\ Hyphen \notin ToSet(s)
    BY NoHyphens
  <1>3. ValidHyphenation(s, GroupsOf(d))
    BY <1>2 DEF ValidHyphenation
  <1> QED BY <1>1, <1>2, <1>3 DEF Reads

\* No hyphens.
LEMMA HyphenlessIsRead ==
  ASSUME NEW defs, WellBuilt(defs), NEW text, NEW i, NEW p, NEW c,
         Reading(text, defs, i, p, c)
  PROVE  Reading(WithoutHyphens(text), defs, i, p, c)
  <1> DEFINE R == ReferenceSymbols
  <1>1. PICK body : Located(text, defs, i, body) /\ Reads(defs[i], body, p, c)
    BY DEF Reading
  <1>2. text \in Seq(R) /\ Len(text) \in 1..MaxLength
    BY DEF Reading
  <1>3. PICK d : d = defs[i] /\ ReferenceDefinition(d) /\ i \in DOMAIN defs /\ HasReference(d)
                 /\ body \in Seq(R) /\ UpperCase(text) = Lead(d, text) \o body
    BY <1>1, OneLocation DEF Located
  <1>4. PICK t \in Seq(Others) : t = WithoutHyphens(text)
    BY <1>2, HyphensDropped
  <1>5. t \in Seq(R) /\ Hyphen \notin ToSet(t) /\ Len(t) <= Len(text)
    BY <1>2, <1>4, HyphenAndOthers, NoHyphens, FewerSymbols
  <1>6. UpperCase(t) = WithoutHyphens(UpperCase(text))
    <2>1. UpperCase(t) = Mapped(Upper, t) /\ UpperCase(text) = Mapped(Upper, text)
      BY <1>2, <1>5, UpperIsReplacement
    <2>2. WithoutHyphens(Mapped(Upper, text)) = Mapped(Upper, WithoutHyphens(text))
      BY <1>2, UpperIsReplacement, HyphensStay
    <2> QED BY <1>4, <2>1, <2>2
  <1>7. PICK p0 \in Seq(Others) : p0 = d.prefix /\ WithoutHyphens(Lead(d, text)) = p0
                                  /\ Len(p0) \in Nat \ {0}
    <2>1. PICK q \in Seq(Others) : q = d.prefix /\ q \in Seq(R) /\ Len(q) \in Nat \ {0}
      BY <1>3, LeadIs
    <2>2. WithoutHyphens(q) = q
      BY NoHyphens
    <2>3. WithoutHyphens(Append(q, Hyphen)) = WithoutHyphens(q)
      BY <2>1, HyphensDropped
    <2> QED BY <2>1, <2>2, <2>3 DEF Lead
  <1>8. PICK s \in Seq(Others) : s = WithoutHyphens(body) /\ s \in Seq(R)
    BY <1>3, HyphensDropped, HyphenAndOthers
  <1>9. UpperCase(t) = p0 \o s
    <2>1. PICK q \in Seq(R) : q = Lead(d, text)
      BY <1>3, LeadIs
    <2>2. WithoutHyphens(q \o body) = WithoutHyphens(q) \o WithoutHyphens(body)
      BY <1>3, HyphensDroppedFromBoth
    <2> QED BY <1>3, <1>6, <1>7, <1>8, <2>1, <2>2
  <1>10. Located(t, defs, i, s)
    BY <1>3, <1>5, <1>7, <1>8, <1>9 DEF Located, Lead
  <1>11. Len(t) \in 1..MaxLength
    <2>1. Len(UpperCase(t)) = Len(t)
      BY <1>5, UpperIsReplacement
    <2>2. Len(p0 \o s) = Len(p0) + Len(s) /\ Len(s) \in Nat
      OBVIOUS
    <2>3. Len(t) >= 1
      BY <1>7, <1>9, <2>1, <2>2
    <2>4. Len(text) <= MaxLength /\ Len(text) \in Nat /\ Len(t) \in Nat /\ MaxLength \in Nat
      BY <1>2, LengthsAssumption
    <2> QED BY <1>5, <2>3, <2>4
  <1>12. Reads(d, s, p, c)
    BY <1>1, <1>3, <1>8, HyphenlessReads
  <1> QED BY <1>3, <1>4, <1>5, <1>10, <1>11, <1>12 DEF Reading

\* Other symbols of the same meaning behind the prefix.
ReplacedFrom(f, first, text) ==
  [i \in DOMAIN text |-> IF i \in first..Len(text) - 1 THEN f[text[i]] ELSE text[i]]

\* t is text, replaced from first on, with hyphens where it had them.
IsReplaced(t, f, first, text) ==
  /\ t \in Seq(ReferenceSymbols) /\ Len(t) = Len(text)
  /\ \A i \in 1..Len(text) :
       t[i] = IF i \in first..Len(text) - 1 THEN f[text[i]] ELSE text[i]
  /\ Hyphen \in ToSet(t) <=> Hyphen \in ToSet(text)

\* Symbols replaced from a place on leave the length and the hyphens alone.
LEMMA ReplacedIs ==
  ASSUME NEW f, Replacement(f), NEW first, NEW text \in Seq(ReferenceSymbols)
  PROVE  IsReplaced(ReplacedFrom(f, first, text), f, first, text)
  <1> DEFINE R == ReferenceSymbols
  <1>1. PICK n \in Nat : n = Len(text) /\ DOMAIN text = 1..n
    OBVIOUS
  <1>2. \A i \in 1..n : text[i] \in R
    BY <1>1
  <1>3. \A x \in R : f[x] \in R /\ (f[x] = Hyphen <=> x = Hyphen)
    BY DEF Replacement
  <1>4. ReplacedFrom(f, first, text)
          = [i \in 1..n |-> IF i \in first..n - 1 THEN f[text[i]] ELSE text[i]]
    BY <1>1 DEF ReplacedFrom
  <1>5. \A i \in 1..n : (IF i \in first..n - 1 THEN f[text[i]] ELSE text[i]) \in R
    BY <1>2, <1>3
  <1> HIDE DEF R
  <1>6. /\ ReplacedFrom(f, first, text) \in Seq(R) /\ Len(ReplacedFrom(f, first, text)) = n
        /\ DOMAIN ReplacedFrom(f, first, text) = 1..n
    BY <1>4, <1>5
  <1>7. \A i \in 1..n : ReplacedFrom(f, first, text)[i]
                          = IF i \in first..n - 1 THEN f[text[i]] ELSE text[i]
    BY <1>4
  <1>8. \A i \in 1..n : ReplacedFrom(f, first, text)[i] = Hyphen <=> text[i] = Hyphen
    BY <1>2, <1>3, <1>7
  <1>9. Hyphen \in ToSet(ReplacedFrom(f, first, text)) <=> Hyphen \in ToSet(text)
    BY <1>1, <1>6, <1>8 DEF ToSet
  <1> QED BY <1>1, <1>6, <1>7, <1>9 DEF R, IsReplaced

\* A replacement that is absorbed by another.
LEMMA MappedTwice ==
  ASSUME NEW f \in [ReferenceSymbols -> ReferenceSymbols],
         NEW g \in [ReferenceSymbols -> ReferenceSymbols],
         \A x \in ReferenceSymbols : g[f[x]] = g[x], NEW s \in Seq(ReferenceSymbols)
  PROVE  Mapped(g, Mapped(f, s)) = Mapped(g, s)
  <1>1. \A i \in DOMAIN s : s[i] \in ReferenceSymbols
    OBVIOUS
  <1>2. DOMAIN Mapped(f, s) = DOMAIN s /\ \A i \in DOMAIN s : Mapped(f, s)[i] = f[s[i]]
    BY DEF Mapped
  <1>3. \A i \in DOMAIN s : g[Mapped(f, s)[i]] = g[s[i]]
    BY <1>1, <1>2
  <1>4. [i \in DOMAIN Mapped(f, s) |-> g[Mapped(f, s)[i]]] = [i \in DOMAIN s |-> g[s[i]]]
    BY <1>2, <1>3
  <1> QED BY <1>4 DEF Mapped

\* A body is read the same after a replacement the aliases absorb, its check symbol
\* left alone.
LEMMA ReplacedReads ==
  ASSUME NEW d, ReferenceDefinition(d), NEW f, Replacement(f),
         \A x \in ReferenceSymbols : Norm(d)[f[x]] = Norm(d)[x],
         NEW body \in Seq(ReferenceSymbols), NEW p, NEW c, Reads(d, body, p, c)
  PROVE  \E b \in Seq(ReferenceSymbols) :
           body = Append(b, c) /\ c \in ReferenceSymbols /\ Reads(d, Append(Mapped(f, b), c), p, c)
  <1>1. /\ Len(WithoutHyphens(body)) = PayloadPlaces(d) + 1
        /\ ValidHyphenation(body, GroupsOf(d)) /\ WithoutHyphens(body) # <<>>
    BY DEF Reads, IsReading
  <1>2. PICK b \in Seq(ReferenceSymbols), l \in Others : body = Append(b, l)
    BY <1>1, BodyEnds
  <1>3. PICK w \in Seq(Others) : w = WithoutHyphens(b) /\ WithoutHyphens(body) = Append(w, l)
    BY <1>2, HyphensDropped
  <1>4. Front(Append(w, l)) = w /\ Last(Append(w, l)) = l
    BY FrontAndLast
  <1>5. p \in Seq(AlphabetOf(d)) /\ p = Mapped(Norm(d), w) /\ c = l
        /\ c = CalculateCheckSymbol(RadixOf(d), p)
    BY <1>3, <1>4 DEF Reads, IsReading
  <1>6. Mapped(Norm(d), Mapped(f, w)) = p
    <2>1. w \in Seq(ReferenceSymbols)
      BY HyphenAndOthers
    <2>2. /\ f \in [ReferenceSymbols -> ReferenceSymbols]
          /\ Norm(d) \in [ReferenceSymbols -> ReferenceSymbols]
      BY Forms DEF Replacement
    <2> QED BY <1>5, <2>1, <2>2, MappedTwice
  <1>7. Reads(d, Append(Mapped(f, b), c), p, c)
    BY <1>1, <1>2, <1>3, <1>5, <1>6, Rewritten
  <1> QED BY <1>2, <1>5, <1>7, HyphenAndOthers
\* The replacement, in terms of prefix and body.
StandsBehind(f, n, u, q, b, c) ==
  ReplacedFrom(f, n + 1, u) = q \o Append(Mapped(f, b), c)

\* Replacing symbols behind the prefix is replacing those of the body but the last.
LEMMA ReplacedBehind ==
  ASSUME NEW f, Replacement(f), NEW q \in Seq(ReferenceSymbols), NEW b \in Seq(ReferenceSymbols),
         NEW c \in ReferenceSymbols, NEW u \in Seq(ReferenceSymbols), u = q \o Append(b, c),
         NEW n \in Nat, Len(q) = n \/ (Len(q) = n + 1 /\ q[n + 1] = Hyphen)
  PROVE  StandsBehind(f, n, u, q, b, c)
  <1> DEFINE R == ReferenceSymbols
  <1>1. /\ f \in [R -> R] /\ f[Hyphen] = Hyphen
    BY HyphenAndOthers DEF Replacement
  <1>2. PICK l \in Nat, k \in Nat : l = Len(q) /\ k = Len(b)
    OBVIOUS
  <1>3. PICK m \in Seq(R) : m = Mapped(f, b) /\ Len(m) = k /\ \A i \in 1..k : m[i] = f[b[i]]
    BY <1>1, <1>2, MappedSteps, SMTT(60)
  <1>4. PICK v \in Seq(R) : v = ReplacedFrom(f, n + 1, u) /\ Len(v) = Len(u)
          /\ \A i \in 1..Len(u) : v[i] = IF i \in n + 1..Len(u) - 1 THEN f[u[i]] ELSE u[i]
    <2>1. /\ ReplacedFrom(f, n + 1, u) \in Seq(R) /\ Len(ReplacedFrom(f, n + 1, u)) = Len(u)
          /\ \A i \in 1..Len(u) : ReplacedFrom(f, n + 1, u)[i]
                                  = IF i \in n + 1..Len(u) - 1 THEN f[u[i]] ELSE u[i]
      <3>1. IsReplaced(ReplacedFrom(f, n + 1, u), f, n + 1, u)
        BY ReplacedIs
      <3> QED BY <3>1 DEF IsReplaced
    <2> HIDE DEF R
    <2> QED BY <2>1
  <1> HIDE DEF R
  <1>5. PICK bc \in Seq(R) :
          /\ bc = Append(b, c) /\ Len(bc) = k + 1 /\ bc[k + 1] = c
          /\ \A i \in 1..k : bc[i] = b[i]
    <2>1. /\ Append(b, c) \in Seq(R) /\ Len(Append(b, c)) = k + 1 /\ Append(b, c)[k + 1] = c
          /\ \A i \in 1..k : Append(b, c)[i] = b[i]
      BY <1>2 DEF R
    <2> QED BY <2>1
  <1>6. PICK mc \in Seq(R) :
          /\ mc = Append(m, c) /\ Len(mc) = k + 1 /\ mc[k + 1] = c
          /\ \A i \in 1..k : mc[i] = m[i]
    <2>1. /\ Append(m, c) \in Seq(R) /\ Len(Append(m, c)) = Len(m) + 1
          /\ Append(m, c)[Len(m) + 1] = c
          /\ \A i \in 1..Len(m) : Append(m, c)[i] = m[i]
      BY DEF R
    <2> QED BY <1>3, <2>1
  <1>7. /\ Len(u) = l + k + 1
        /\ \A i \in 1..l : u[i] = q[i]
        /\ \A i \in 1..k + 1 : u[l + i] = bc[i]
    BY <1>2, <1>5, Concatenation DEF R
  <1>8. PICK w \in Seq(R) :
          /\ w = q \o mc /\ Len(w) = l + k + 1
          /\ \A i \in 1..l : w[i] = q[i]
          /\ \A i \in 1..k + 1 : w[l + i] = mc[i]
    <2>1. /\ q \o mc \in Seq(R) /\ Len(q \o mc) = l + k + 1
          /\ \A i \in 1..l : (q \o mc)[i] = q[i]
          /\ \A i \in 1..k + 1 : (q \o mc)[l + i] = mc[i]
      <3>1. /\ q \o mc \in Seq(R) /\ Len(q \o mc) = Len(q) + Len(mc)
            /\ \A i \in 1..Len(q) : (q \o mc)[i] = q[i]
            /\ \A i \in 1..Len(mc) : (q \o mc)[Len(q) + i] = mc[i]
        BY Concatenation DEF R
      <3> QED BY <1>2, <1>6, <3>1
    <2> QED BY <2>1
  <1>9. l = n \/ (l = n + 1 /\ q[n + 1] = Hyphen)
    BY <1>2
  <1>10. ASSUME NEW i \in 1..l PROVE v[i] = w[i]
    <2>1. i \in 1..Len(u)
      BY <1>7
    <2>2. u[i] = q[i] /\ w[i] = q[i]
      BY <1>7, <1>8
    <2>3. i \in n + 1..Len(u) - 1 => u[i] = Hyphen
      <3>1. ASSUME i >= n + 1 PROVE i = n + 1 /\ q[n + 1] = Hyphen
        BY <1>9, <3>1
      <3> QED BY <2>2, <3>1
    <2> QED BY <1>1, <1>4, <2>1, <2>2, <2>3
  <1>11. ASSUME NEW i \in 1..k PROVE v[l + i] = w[l + i]
    <2>1. l + i \in 1..Len(u) /\ l + i \in n + 1..Len(u) - 1
      BY <1>7, <1>9
    <2>2. u[l + i] = b[i] /\ w[l + i] = m[i]
      BY <1>5, <1>6, <1>7, <1>8, SMTT(60)
    <2> QED BY <1>3, <1>4, <2>1, <2>2
  <1>12. v[l + (k + 1)] = w[l + (k + 1)]
    <2>1. l + (k + 1) \in 1..Len(u) /\ l + (k + 1) \notin n + 1..Len(u) - 1
      BY <1>7
    <2>2. u[l + (k + 1)] = c /\ w[l + (k + 1)] = c
      BY <1>5, <1>6, <1>7, <1>8
    <2> QED BY <1>4, <2>1, <2>2
  <1>13. v = w
    <2>1. ASSUME NEW i \in 1..l + k + 1 PROVE v[i] = w[i]
      <3>1. i \in 1..l \/ i - l \in 1..k \/ i = l + (k + 1)
        OBVIOUS
      <3>2. CASE i - l \in 1..k
        <4>1. l + (i - l) = i
          OBVIOUS
        <4>2. v[l + (i - l)] = w[l + (i - l)]
          BY <1>11, <3>2
        <4> QED BY <4>1, <4>2
      <3> QED BY <1>10, <1>12, <3>1, <3>2
    <2>2. Len(v) = l + k + 1 /\ Len(w) = l + k + 1
      BY <1>4, <1>7, <1>8
    <2> QED BY <2>1, <2>2
  <1> QED BY <1>3, <1>4, <1>6, <1>8, <1>13 DEF StandsBehind

\* The case of a symbol and what is put for it.
LEMMA ReplacedUpper ==
  ASSUME NEW f, Replacement(f), \A x \in ReferenceSymbols : Cap(f[x]) = f[Cap(x)],
         NEW first, NEW text \in Seq(ReferenceSymbols)
  PROVE  UpperCase(ReplacedFrom(f, first, text)) = ReplacedFrom(f, first, UpperCase(text))
  <1> DEFINE R == ReferenceSymbols
  <1>1. PICK n \in Nat : n = Len(text)
    OBVIOUS
  <1>2. PICK t \in Seq(R) : t = ReplacedFrom(f, first, text) /\ Len(t) = n
          /\ \A i \in 1..n : t[i] = IF i \in first..n - 1 THEN f[text[i]] ELSE text[i]
    BY <1>1, ReplacedIs DEF IsReplaced
  <1>3. PICK u \in Seq(R) : u = UpperCase(text) /\ Len(u) = n /\ \A i \in 1..n : u[i] = Cap(text[i])
    BY <1>1, UpperIsReplacement
  <1>4. PICK v \in Seq(R) : v = UpperCase(t) /\ Len(v) = n /\ \A i \in 1..n : v[i] = Cap(t[i])
    BY <1>2, UpperIsReplacement
  <1>5. PICK w \in Seq(R) : w = ReplacedFrom(f, first, u) /\ Len(w) = n
          /\ \A i \in 1..n : w[i] = IF i \in first..n - 1 THEN f[u[i]] ELSE u[i]
    BY <1>3, ReplacedIs, SMTT(60) DEF IsReplaced
  <1>6. \A i \in 1..n : text[i] \in R
    BY <1>1
  <1>7. \A i \in 1..n : v[i] = w[i]
    BY <1>2, <1>3, <1>4, <1>5, <1>6, SMTT(60)
  <1>8. v = w
    <2> HIDE DEF R
    <2> QED BY <1>4, <1>5, <1>7
  <1> QED BY <1>2, <1>3, <1>4, <1>5, <1>8

\* Look-alikes.
LEMMA ReplacedIsRead ==
  ASSUME NEW defs, WellBuilt(defs), NEW text, NEW i, NEW p, NEW c,
         Reading(text, defs, i, p, c), NEW f, Replacement(f),
         \A x \in ReferenceSymbols :
           Cap(f[x]) = f[Cap(x)] /\ Norm(defs[i])[f[x]] = Norm(defs[i])[x]
  PROVE  Reading(ReplacedFrom(f, Len(defs[i].prefix) + 1, text), defs, i, p, c)
  <1> DEFINE R == ReferenceSymbols
  <1>1. PICK body : Located(text, defs, i, body) /\ Reads(defs[i], body, p, c)
    BY DEF Reading
  <1>2. text \in Seq(R) /\ Len(text) \in 1..MaxLength
    BY DEF Reading
  <1>3. PICK d : d = defs[i] /\ ReferenceDefinition(d) /\ i \in DOMAIN defs /\ HasReference(d)
                 /\ body \in Seq(R) /\ UpperCase(text) = Lead(d, text) \o body
    BY <1>1, OneLocation DEF Located
  <1>4. PICK b \in Seq(R) : body = Append(b, c) /\ c \in R /\ Reads(d, Append(Mapped(f, b), c), p, c)
    BY <1>1, <1>3, ReplacedReads
  <1>5. PICK n \in Nat : n = Len(d.prefix)
    BY <1>3, LeadIs
  <1>6. PICK t \in Seq(R) : t = ReplacedFrom(f, n + 1, text) /\ Len(t) = Len(text)
                          /\ (Hyphen \in ToSet(t) <=> Hyphen \in ToSet(text))
    BY <1>2, ReplacedIs DEF IsReplaced
  <1>7. PICK q \in Seq(R) : q = Lead(d, text)
                          /\ (Len(q) = n \/ (Len(q) = n + 1 /\ q[n + 1] = Hyphen))
    <2>1. Lead(d, text) \in Seq(R) /\ d.prefix \in Seq(R)
          /\ Len(Lead(d, text)) = n + (IF Hyphen \in ToSet(text) THEN 1 ELSE 0)
      BY <1>3, <1>5, LeadIs
    <2>2. Hyphen \in ToSet(text) => Lead(d, text)[n + 1] = Hyphen
      BY <1>5, <2>1 DEF Lead
    <2> QED BY <2>1, <2>2
  <1>8. PICK m \in Seq(R) : m = Append(Mapped(f, b), c)
    <2>1. f \in [R -> R]
      BY DEF Replacement
    <2>2. PICK m0 \in Seq(R) : m0 = Mapped(f, b)
      BY <2>1, MappedSteps
    <2>3. PICK e \in R : e = c
      BY <1>4
    <2> HIDE DEF R
    <2>4. Append(m0, e) \in Seq(R)
      OBVIOUS
    <2> QED BY <2>2, <2>3, <2>4
  <1>9. UpperCase(t) = q \o m
    <2>1. UpperCase(t) = ReplacedFrom(f, n + 1, UpperCase(text))
      BY <1>2, <1>6, ReplacedUpper
    <2>2. PICK u \in Seq(R) : u = UpperCase(text) /\ u = q \o Append(b, c)
      BY <1>2, <1>3, <1>4, <1>7, UpperIsReplacement
    <2>3. ReplacedFrom(f, n + 1, u) = q \o Append(Mapped(f, b), c)
      <3>1. PICK e \in R : e = c
        BY <1>4
      <3>2. u = q \o Append(b, e)
        BY <2>2, <3>1
      <3>3. ReplacedFrom(f, n + 1, u) = q \o Append(Mapped(f, b), e)
        <4>1. StandsBehind(f, n, u, q, b, e)
          BY <1>7, <3>2, ReplacedBehind
        <4> QED BY <4>1 DEF StandsBehind
      <3> QED BY <3>1, <3>3
    <2> QED BY <1>8, <2>1, <2>2, <2>3
  <1>10. Located(t, defs, i, m)
    BY <1>3, <1>6, <1>7, <1>8, <1>9 DEF Located, Lead
  <1>11. Reads(d, m, p, c)
    BY <1>4, <1>8
  <1> QED BY <1>2, <1>3, <1>5, <1>6, <1>10, <1>11 DEF Reading
-----------------------------------------------------------------------------
(* One slip *)

\* The symbols of a text, whatever its case and its hyphens.
Bare(text) == WithoutHyphens(UpperCase(text))

\* Capitals without hyphens, of two texts in a row.
LEMMA BareParts ==
  ASSUME NEW s \in Seq(ReferenceSymbols), NEW t \in Seq(ReferenceSymbols)
  PROVE  /\ UpperCase(s \o t) = UpperCase(s) \o UpperCase(t)
         /\ Bare(s \o t) = Bare(s) \o Bare(t)
         /\ Bare(s) \in Seq(Others)
  <1> DEFINE R == ReferenceSymbols
  <1>1. Upper \in [R -> R]
    BY UpperIsReplacement DEF Replacement
  <1>2. PICK w \in Seq(R) : w = s \o t
    <2> HIDE DEF R
    <2>1. s \o t \in Seq(R)
      BY DEF R
    <2> QED BY <2>1
  <1>3. /\ UpperCase(w) = Mapped(Upper, w)
        /\ UpperCase(s) = Mapped(Upper, s) /\ UpperCase(s) \in Seq(R)
        /\ UpperCase(t) = Mapped(Upper, t) /\ UpperCase(t) \in Seq(R)
    BY UpperIsReplacement
  <1>4. Mapped(Upper, s \o t) = Mapped(Upper, s) \o Mapped(Upper, t)
    BY <1>1, MappedBoth
  <1>5. UpperCase(s \o t) = UpperCase(s) \o UpperCase(t)
    BY <1>2, <1>3, <1>4
  <1>6. WithoutHyphens(UpperCase(s) \o UpperCase(t))
          = WithoutHyphens(UpperCase(s)) \o WithoutHyphens(UpperCase(t))
    BY <1>3, HyphensDroppedFromBoth
  <1>7. WithoutHyphens(UpperCase(s)) \in Seq(Others)
    BY <1>3, HyphensDropped
  <1> QED BY <1>5, <1>6, <1>7 DEF Bare

\* ... and of one symbol.
LEMMA BareOne ==
  ASSUME NEW x \in ReferenceSymbols
  PROVE  /\ <<x>> \in Seq(ReferenceSymbols)
         /\ Bare(<<x>>) = IF x = Hyphen THEN <<>> ELSE <<Cap(x)>>
         /\ x # Hyphen => Cap(x) \in Others
  <1>1. Cap(x) \in ReferenceSymbols /\ (Cap(x) = Hyphen <=> x = Hyphen)
    BY Case
  <1>2. UpperCase(<<x>>) = <<Cap(x)>>
    BY DEF UpperCase, Cap
  <1>3. <<>> \in Seq(ReferenceSymbols) /\ Append(<<>>, Cap(x)) = <<Cap(x)>>
    OBVIOUS
  <1>4. CASE x = Hyphen
    <2>1. WithoutHyphens(Append(<<>>, Hyphen)) = <<>>
      BY <1>3, HyphensDropped
    <2> QED BY <1>1, <1>2, <1>3, <1>4, <2>1 DEF Bare
  <1>5. CASE x # Hyphen
    <2>1. Cap(x) \in Others
      BY <1>1, <1>5 DEF Others
    <2>2. WithoutHyphens(Append(<<>>, Cap(x))) = Append(<<>>, Cap(x))
      BY <1>3, <2>1, HyphensDropped
    <2> QED BY <1>2, <1>3, <1>5, <2>1, <2>2 DEF Bare
  <1> QED BY <1>4, <1>5

\* Two symbols in a row.
LEMMA PairJoined ==
  ASSUME NEW u, NEW v
  PROVE  <<u>> \o <<v>> = <<u, v>>
  <1>1. PICK S : u \in S /\ v \in S
    <2>1. u \in {u, v} /\ v \in {u, v}
      OBVIOUS
    <2> QED BY <2>1
  <1>2. PICK s \in Seq(S) : s = <<u>>
    <2>1. <<u>> \in Seq(S)
      BY <1>1
    <2> QED BY <2>1
  <1>3. s \o <<v>> = Append(s, v)
    BY <1>1, AppendedParts
  <1>4. Append(<<u>>, v) = <<u, v>>
    BY PairAppended
  <1> QED BY <1>2, <1>3, <1>4

\* What a slip does: a symbol for another, none for one, one for none, or two
\* in the wrong order.
Edit(m, n) ==
  \/ \E x, y \in ReferenceSymbols : m = <<x>> /\ n = <<y>>
  \/ \E x \in ReferenceSymbols : (m = <<x>> /\ n = <<>>) \/ (m = <<>> /\ n = <<x>>)
  \/ \E x, y \in ReferenceSymbols : m = <<x, y>> /\ n = <<y, x>>

\* An edit that leaves the length alone changes one bare symbol, swaps two, or
\* changes nothing.
LEMMA BareEdit ==
  ASSUME NEW m, NEW n, Edit(m, n), Len(Bare(m)) = Len(Bare(n))
  PROVE  \/ Bare(m) = Bare(n)
         \/ \E x, y \in Others : \/ Bare(m) = <<x>> /\ Bare(n) = <<y>>
                                 \/ Bare(m) = <<x, y>> /\ Bare(n) = <<y, x>>
  <1>1. Bare(<<>>) = <<>>
    BY HyphensDropped DEF Bare, UpperCase
  <1>2. ASSUME NEW x, NEW y, NEW z PROVE Len(<<>>) = 0 /\ Len(<<x>>) = 1
    OBVIOUS
  <1>3. CASE \E x, y \in ReferenceSymbols : m = <<x>> /\ n = <<y>>
    <2>1. PICK x \in ReferenceSymbols, y \in ReferenceSymbols : m = <<x>> /\ n = <<y>>
      BY <1>3
    <2>2. /\ Bare(m) = IF x = Hyphen THEN <<>> ELSE <<Cap(x)>>
          /\ Bare(n) = IF y = Hyphen THEN <<>> ELSE <<Cap(y)>>
          /\ x # Hyphen => Cap(x) \in Others
          /\ y # Hyphen => Cap(y) \in Others
      BY <2>1, BareOne
    <2>3. Len(<<>>) = 0 /\ Len(<<Cap(x)>>) = 1 /\ Len(<<Cap(y)>>) = 1
      OBVIOUS
    <2>4. x = Hyphen <=> y = Hyphen
      BY <2>2, <2>3
    <2> QED BY <2>2, <2>4
  <1>4. CASE \E x \in ReferenceSymbols : (m = <<x>> /\ n = <<>>) \/ (m = <<>> /\ n = <<x>>)
    <2>1. PICK x \in ReferenceSymbols : (m = <<x>> /\ n = <<>>) \/ (m = <<>> /\ n = <<x>>)
      BY <1>4
    <2>2. Bare(<<x>>) = IF x = Hyphen THEN <<>> ELSE <<Cap(x)>>
      BY BareOne
    <2>3. Len(<<>>) = 0 /\ Len(<<Cap(x)>>) = 1
      OBVIOUS
    <2> QED BY <1>1, <2>1, <2>2, <2>3
  <1>5. CASE \E x, y \in ReferenceSymbols : m = <<x, y>> /\ n = <<y, x>>
    <2>1. PICK x \in ReferenceSymbols, y \in ReferenceSymbols : m = <<x, y>> /\ n = <<y, x>>
      BY <1>5
    <2>2. m = <<x>> \o <<y>> /\ n = <<y>> \o <<x>>
      BY <2>1, PairJoined
    <2>3. PICK a \in Seq(ReferenceSymbols), b \in Seq(ReferenceSymbols) : a = <<x>> /\ b = <<y>>
      BY BareOne
    <2>4. Bare(a \o b) = Bare(a) \o Bare(b) /\ Bare(b \o a) = Bare(b) \o Bare(a)
      BY BareParts
    <2>5. /\ Bare(a) = IF x = Hyphen THEN <<>> ELSE <<Cap(x)>>
          /\ Bare(b) = IF y = Hyphen THEN <<>> ELSE <<Cap(y)>>
          /\ x # Hyphen => Cap(x) \in Others
          /\ y # Hyphen => Cap(y) \in Others
      BY <2>3, BareOne
    <2>6. Bare(m) = Bare(a) \o Bare(b) /\ Bare(n) = Bare(b) \o Bare(a)
      BY <2>2, <2>3, <2>4
    <2>7. CASE x = Hyphen
      <3>1. Bare(a) = <<>> /\ Bare(b) \in Seq(Others)
        BY <2>5, <2>7, BareParts
      <3>2. \A t \in Seq(Others) : <<>> \o t = t /\ t \o <<>> = t
        OBVIOUS
      <3> QED BY <2>6, <3>1, <3>2
    <2>8. CASE y = Hyphen
      <3>1. Bare(b) = <<>> /\ Bare(a) \in Seq(Others)
        BY <2>5, <2>8, BareParts
      <3>2. \A t \in Seq(Others) : <<>> \o t = t /\ t \o <<>> = t
        OBVIOUS
      <3> QED BY <2>6, <3>1, <3>2
    <2>9. CASE x # Hyphen /\ y # Hyphen
      <3>1. /\ <<Cap(x)>> \o <<Cap(y)>> = <<Cap(x), Cap(y)>>
            /\ <<Cap(y)>> \o <<Cap(x)>> = <<Cap(y), Cap(x)>>
        BY PairJoined
      <3>2. Bare(m) = <<Cap(x), Cap(y)>> /\ Bare(n) = <<Cap(y), Cap(x)>>
        BY <2>5, <2>6, <2>9, <3>1
      <3> QED BY <2>5, <2>9, <3>2
    <2> QED BY <2>7, <2>8, <2>9
  <1> QED BY <1>3, <1>4, <1>5 DEF Edit

\* The bare text is the prefix and the symbols of the body.
LEMMA BareLocated ==
  ASSUME NEW defs, WellBuilt(defs), NEW text \in Seq(ReferenceSymbols),
         NEW i, NEW body, Located(text, defs, i, body)
  PROVE  Bare(text) = defs[i].prefix \o WithoutHyphens(body)
  <1>1. PICK d : d = defs[i] /\ ReferenceDefinition(d) /\ body \in Seq(ReferenceSymbols)
                 /\ UpperCase(text) = Lead(d, text) \o body
    BY OneLocation DEF Located
  <1>2. PICK q \in Seq(Others) : q = d.prefix /\ q \in Seq(ReferenceSymbols)
    BY <1>1, LeadIs
  <1>3. WithoutHyphens(q) = q
    BY NoHyphens
  <1>4. WithoutHyphens(Append(q, Hyphen)) = WithoutHyphens(q)
    BY <1>2, HyphensDropped
  <1>5. WithoutHyphens(Lead(d, text)) = q
    BY <1>2, <1>3, <1>4 DEF Lead
  <1>6. PICK l \in Seq(ReferenceSymbols) : l = Lead(d, text)
    BY <1>1, LeadIs
  <1>7. WithoutHyphens(l \o body) = WithoutHyphens(l) \o WithoutHyphens(body)
    BY <1>1, HyphensDroppedFromBoth
  <1> QED BY <1>1, <1>2, <1>5, <1>6, <1>7 DEF Bare

\* Behind equal beginnings stand equal rests.
LEMMA Cancelled ==
  ASSUME NEW S, NEW p \in Seq(S), NEW s \in Seq(S), NEW t \in Seq(S), p \o s = p \o t
  PROVE  s = t
  <1>1. SubSeq(p \o s, Len(p) + 1, Len(p \o s)) = s
    BY PrefixAndRest
  <1>2. SubSeq(p \o t, Len(p) + 1, Len(p \o t)) = t
    BY PrefixAndRest
  <1> QED BY <1>1, <1>2

\* What is written in front of the slip starts with the prefix.
LEMMA BareStart ==
  ASSUME NEW p, p \in Seq(ReferenceSymbols), p \in Seq(Others), NEW b \in Seq(ReferenceSymbols),
         NEW r \in Seq(ReferenceSymbols), NEW r2 \in Seq(ReferenceSymbols),
         IsPrefix(p, UpperCase(b \o r)), Len(p) <= Len(b)
  PROVE  /\ IsPrefix(p, UpperCase(b \o r2))
         /\ \E a \in Seq(Others) : Bare(b) = p \o a
  <1> DEFINE R == ReferenceSymbols
  <1>1. PICK q \in Seq(R) : q = p
    OBVIOUS
  <1>2. PICK u \in Seq(R) : u = UpperCase(b) /\ Len(u) = Len(b)
    BY UpperIsReplacement
  <1>3. PICK v \in Seq(R), v2 \in Seq(R) : v = UpperCase(r) /\ v2 = UpperCase(r2)
    BY UpperIsReplacement
  <1>4. UpperCase(b \o r) = u \o v /\ UpperCase(b \o r2) = u \o v2
    BY <1>2, <1>3, BareParts
  <1>5. IsPrefix(q, u)
    <2> HIDE DEF R
    <2>1. IsPrefix(u, u \o v)
      BY PrefixAndRest
    <2>2. IsPrefix(q, u \o v) /\ Len(q) <= Len(u)
      BY <1>1, <1>2, <1>4
    <2> QED BY <2>1, <2>2, PrefixesAreComparable
  <1>6. IsPrefix(q, u \o v2)
    <2> HIDE DEF R
    <2> QED BY <1>5, PrefixOfPrefix
  <1>7. PICK b2 \in Seq(R) : u = q \o b2
    <2> HIDE DEF R
    <2> QED BY <1>5, RestOfText
  <1>8. WithoutHyphens(q \o b2) = WithoutHyphens(q) \o WithoutHyphens(b2)
    BY HyphensDroppedFromBoth
  <1>9. WithoutHyphens(q) = q /\ WithoutHyphens(b2) \in Seq(Others)
    BY <1>1, NoHyphens, HyphensDropped
  <1> QED BY <1>1, <1>2, <1>4, <1>6, <1>7, <1>8, <1>9 DEF Bare
\* What stands behind p.
RestIs(p, a, m, z, s) == p \o s = (p \o a) \o (m \o z) => s = a \o m \o z

\* The rest behind the prefix, of a text in parts.
LEMMA RestOfBare ==
  ASSUME NEW p \in Seq(Others), NEW a \in Seq(Others), NEW m \in Seq(Others),
         NEW z \in Seq(Others), NEW s \in Seq(Others)
  PROVE  RestIs(p, a, m, z, s)
  <1> DEFINE S == Others
  <1> SUFFICES ASSUME p \o s = (p \o a) \o (m \o z) PROVE s = a \o m \o z
    BY DEF RestIs
  <1> HIDE DEF S
  <1>1. PICK w \in Seq(S) : w = a \o m \o z
    <2>1. a \o m \o z \in Seq(S)
      BY DEF S
    <2> QED BY <2>1
  <1>2. (p \o a) \o (m \o z) = p \o (a \o m \o z)
    <2>1. PICK y \in Seq(S) : y = m \o z
      <3>1. m \o z \in Seq(S)
        BY DEF S
      <3> QED BY <3>1
    <2>2. (p \o a) \o y = p \o (a \o y)
      BY SMTT(60) DEF S
    <2>3. a \o (m \o z) = a \o m \o z
      BY SMTT(60) DEF S
    <2> QED BY <2>1, <2>2, <2>3
  <1>3. p \o s = p \o w
    BY <1>1, <1>2
  <1>4. s = w
    BY <1>3, Cancelled DEF S
  <1> QED BY <1>1, <1>4

\* In equally long texts with equal ends the middles are equally long.
LEMMA SameLengths ==
  ASSUME NEW a \in Seq(Others), NEW m \in Seq(Others), NEW n \in Seq(Others),
         NEW z \in Seq(Others)
  PROVE  Len(a \o m \o z) = Len(a \o n \o z) => Len(m) = Len(n)
  <1>1. Len(a \o m \o z) = Len(a) + Len(m) + Len(z)
    OBVIOUS
  <1>2. Len(a \o n \o z) = Len(a) + Len(n) + Len(z)
    OBVIOUS
  <1>3. PICK j \in Nat, k \in Nat, l \in Nat, o \in Nat :
          j = Len(a) /\ k = Len(m) /\ l = Len(n) /\ o = Len(z)
    OBVIOUS
  <1>4. j + k + o = j + l + o => k = l
    OBVIOUS
  <1> QED BY <1>1, <1>2, <1>3, <1>4

\* What is read after a slip behind the prefix is what was meant.
LEMMA EditNoticed ==
  ASSUME NEW defs, WellBuilt(defs),
         NEW b \in Seq(ReferenceSymbols), NEW m \in Seq(ReferenceSymbols),
         NEW n \in Seq(ReferenceSymbols), NEW z \in Seq(ReferenceSymbols), Edit(m, n),
         NEW i, NEW p, NEW c, Reading(b \o (m \o z), defs, i, p, c),
         Len(defs[i].prefix) <= Len(b),
         NEW j, NEW q, NEW e, Reading(b \o (n \o z), defs, j, q, e)
  PROVE  j = i /\ q = p /\ e = c
  <1> DEFINE R == ReferenceSymbols
  <1>1. PICK mz \in Seq(R), nz \in Seq(R) : mz = m \o z /\ nz = n \o z
    <2> HIDE DEF R
    <2>1. m \o z \in Seq(R) /\ n \o z \in Seq(R)
      BY DEF R
    <2> QED BY <2>1
  <1>2. PICK t \in Seq(R), t2 \in Seq(R) : t = b \o mz /\ t2 = b \o nz
    <2> HIDE DEF R
    <2>1. b \o mz \in Seq(R) /\ b \o nz \in Seq(R)
      BY DEF R
    <2> QED BY <2>1
  <1>3. Reading(t, defs, i, p, c) /\ Reading(t2, defs, j, q, e)
    BY <1>1, <1>2
  <1>4. PICK body : Located(t, defs, i, body) /\ Reads(defs[i], body, p, c)
    BY <1>3 DEF Reading
  <1>5. PICK body2 : Located(t2, defs, j, body2) /\ Reads(defs[j], body2, q, e)
    BY <1>3 DEF Reading
  <1>6. PICK d : /\ d = defs[i] /\ ReferenceDefinition(d) /\ i \in DOMAIN defs
                 /\ HasReference(d) /\ IsPrefix(d.prefix, UpperCase(t))
    BY <1>4, OneLocation DEF Located
  <1>7. PICK pre \in Seq(R) : pre = d.prefix /\ pre \in Seq(Others)
    BY <1>6, LeadIs
  <1>8. IsPrefix(pre, UpperCase(b \o nz)) /\ \E a \in Seq(Others) : Bare(b) = pre \o a
    <2>1. IsPrefix(pre, UpperCase(b \o mz)) /\ Len(pre) <= Len(b)
      BY <1>2, <1>6, <1>7
    <2> QED BY <1>7, <2>1, BareStart
  <1>9. j = i
    <2>1. IsPrefix(defs[i].prefix, UpperCase(t2))
      BY <1>2, <1>6, <1>7, <1>8
    <2> QED BY <1>5, <1>6, <2>1, OneLocation
  <1>10. PICK a \in Seq(Others) : Bare(b) = pre \o a
    BY <1>8
  <1>11. PICK s \in Seq(Others), s2 \in Seq(Others) :
           s = WithoutHyphens(body) /\ s2 = WithoutHyphens(body2)
    BY <1>4, <1>5, HyphensDropped DEF Located
  <1>12. PICK m1 \in Seq(Others), n1 \in Seq(Others), z1 \in Seq(Others) :
           m1 = Bare(m) /\ n1 = Bare(n) /\ z1 = Bare(z)
    BY BareParts
  <1>13. Bare(mz) = m1 \o z1 /\ Bare(nz) = n1 \o z1
    BY <1>1, <1>12, BareParts
  <1>14. Bare(t) = (pre \o a) \o (m1 \o z1) /\ Bare(t2) = (pre \o a) \o (n1 \o z1)
    <2>1. Bare(b \o mz) = Bare(b) \o Bare(mz) /\ Bare(b \o nz) = Bare(b) \o Bare(nz)
      BY BareParts
    <2> QED BY <1>2, <1>10, <1>13, <2>1
  <1>15. Bare(t) = pre \o s /\ Bare(t2) = pre \o s2
    <2>1. Bare(t) = defs[i].prefix \o WithoutHyphens(body)
      BY <1>4, BareLocated, SMTT(60)
    <2>2. Bare(t2) = defs[j].prefix \o WithoutHyphens(body2)
      BY <1>5, BareLocated, SMTT(60)
    <2> QED BY <1>6, <1>7, <1>9, <1>11, <2>1, <2>2
  <1>16. PICK o \in Seq(Others) : o = pre
    BY <1>7
  <1>17. s = a \o m1 \o z1 /\ s2 = a \o n1 \o z1
    <2>1. o \o s = (o \o a) \o (m1 \o z1) /\ o \o s2 = (o \o a) \o (n1 \o z1)
      BY <1>14, <1>15, <1>16
    <2>2. RestIs(o, a, m1, z1, s) /\ RestIs(o, a, n1, z1, s2)
      BY RestOfBare
    <2> QED BY <2>1, <2>2 DEF RestIs
  <1>18. /\ IsReading(RadixOf(d), Norm(d), s, p, c) /\ IsReading(RadixOf(d), Norm(d), s2, q, e)
         /\ Len(s) = Len(s2)
    BY <1>4, <1>5, <1>6, <1>9, <1>11 DEF Reads
  <1>19. Len(m1) = Len(n1)
    <2>1. Len(a \o m1 \o z1) = Len(a \o n1 \o z1)
      BY <1>17, <1>18
    <2> QED BY <2>1, SameLengths
  <1>20. CASE m1 = n1
    <2>1. s = s2
      BY <1>17, <1>20
    <2> QED BY <1>9, <1>18, <2>1 DEF IsReading
  <1>21. CASE m1 # n1
    <2>1. PICK x \in Others, y \in Others : \/ m1 = <<x>> /\ n1 = <<y>>
                                            \/ m1 = <<x, y>> /\ n1 = <<y, x>>
      BY <1>12, <1>19, <1>21, BareEdit
    <2>2. Slipped(s, s2, a, x, y, z1)
      BY <1>17, <2>1 DEF Slipped
    <2>3. RadixOf(d) \in Radices /\ Replacement(Norm(d)) /\ \A k \in CheckSymbols : Norm(d)[k] = k
      BY <1>6, Forms
    <2>4. q = p /\ e = c
      BY <1>18, <2>2, <2>3, SlipIsNoticed
    <2> QED BY <1>9, <2>4
  <1> QED BY <1>20, <1>21
-----------------------------------------------------------------------------
(* Slips as changes of a text *)

\* The places of three sequences in a row.
LEMMA Places ==
  ASSUME NEW S, NEW b \in Seq(S), NEW m \in Seq(S), NEW z \in Seq(S)
  PROVE  /\ b \o (m \o z) \in Seq(S)
         /\ Len(b \o (m \o z)) = Len(b) + Len(m) + Len(z)
         /\ \A i \in 1..Len(b) : (b \o (m \o z))[i] = b[i]
         /\ \A i \in 1..Len(m) : (b \o (m \o z))[Len(b) + i] = m[i]
         /\ \A i \in 1..Len(z) : (b \o (m \o z))[Len(b) + Len(m) + i] = z[i]
  <1>1. PICK w \in Seq(S) :
          /\ w = m \o z /\ Len(w) = Len(m) + Len(z)
          /\ \A i \in 1..Len(m) : w[i] = m[i]
          /\ \A i \in 1..Len(z) : w[Len(m) + i] = z[i]
    <2>1. m \o z \in Seq(S)
      OBVIOUS
    <2>2. /\ Len(m \o z) = Len(m) + Len(z)
          /\ \A i \in 1..Len(m) : (m \o z)[i] = m[i]
          /\ \A i \in 1..Len(z) : (m \o z)[Len(m) + i] = z[i]
      BY Concatenation
    <2> QED BY <2>1, <2>2
  <1>2. PICK j \in Nat, k \in Nat, l \in Nat : j = Len(b) /\ k = Len(m) /\ l = Len(z)
    OBVIOUS
  <1>3. PICK v \in Seq(S) :
          /\ v = b \o w /\ Len(v) = j + Len(w)
          /\ \A i \in 1..j : v[i] = b[i]
          /\ \A i \in 1..Len(w) : v[j + i] = w[i]
    <2>1. b \o w \in Seq(S)
      OBVIOUS
    <2>2. /\ Len(b \o w) = Len(b) + Len(w)
          /\ \A i \in 1..Len(b) : (b \o w)[i] = b[i]
          /\ \A i \in 1..Len(w) : (b \o w)[Len(b) + i] = w[i]
      BY Concatenation
    <2> QED BY <1>2, <2>1, <2>2
  <1>4. ASSUME NEW i \in 1..k PROVE v[j + i] = m[i]
    <2>1. i \in 1..Len(w)
      BY <1>1, <1>2
    <2> QED BY <1>1, <1>2, <1>3, <2>1
  <1>5. ASSUME NEW i \in 1..l PROVE v[j + k + i] = z[i]
    <2>1. k + i \in 1..Len(w) /\ j + k + i = j + (k + i)
      BY <1>1, <1>2
    <2>2. v[j + (k + i)] = w[k + i] /\ w[k + i] = z[i]
      BY <1>1, <1>2, <1>3, <2>1
    <2> QED BY <2>1, <2>2
  <1>6. Len(v) = j + k + l
    BY <1>1, <1>2, <1>3
  <1> QED BY <1>1, <1>2, <1>3, <1>4, <1>5, <1>6

\* A text is what two of its parts and what is between them make.
PartsOf(t, b, m, z, j, k) ==
  /\ t = b \o (m \o z) /\ Len(b) = j /\ Len(m) = k - j
  /\ \A i \in 1..k - j : m[i] = t[j + i]

\* A sequence cut at two places.
LEMMA Cut ==
  ASSUME NEW S, NEW t \in Seq(S), NEW j \in Nat, NEW k \in Nat, j <= k, k <= Len(t)
  PROVE  /\ SubSeq(t, 1, j) \in Seq(S) /\ SubSeq(t, j + 1, k) \in Seq(S)
         /\ SubSeq(t, k + 1, Len(t)) \in Seq(S)
         /\ PartsOf(t, SubSeq(t, 1, j), SubSeq(t, j + 1, k), SubSeq(t, k + 1, Len(t)), j, k)
  <1>1. PICK b \in Seq(S) :
          b = SubSeq(t, 1, j) /\ Len(b) = j /\ \A i \in 1..j : b[i] = t[i]
    <2>1. SubSeq(t, 1, j) \in Seq(S)
      OBVIOUS
    <2>2. Len(SubSeq(t, 1, j)) = j /\ \A i \in 1..j : SubSeq(t, 1, j)[i] = t[i]
      OBVIOUS
    <2> QED BY <2>1, <2>2
  <1>2. PICK m \in Seq(S) : /\ m = SubSeq(t, j + 1, k) /\ Len(m) = k - j
                            /\ \A i \in 1..k - j : m[i] = t[j + i]
    <2>1. SubSeq(t, j + 1, k) \in Seq(S)
      OBVIOUS
    <2>2. Len(SubSeq(t, j + 1, k)) = k - j
      OBVIOUS
    <2>3. \A i \in 1..k - j : SubSeq(t, j + 1, k)[i] = t[j + i]
      OBVIOUS
    <2> QED BY <2>1, <2>2, <2>3
  <1>3. PICK l \in Nat : l = Len(t)
    OBVIOUS
  <1>4. PICK z \in Seq(S) : /\ z = SubSeq(t, k + 1, l) /\ Len(z) = l - k
                            /\ \A i \in 1..l - k : z[i] = t[k + i]
    <2>1. SubSeq(t, k + 1, l) \in Seq(S)
      BY <1>3
    <2>2. Len(SubSeq(t, k + 1, l)) = l - k
      BY <1>3
    <2>3. \A i \in 1..l - k : SubSeq(t, k + 1, l)[i] = t[k + i]
      BY <1>3
    <2> QED BY <2>1, <2>2, <2>3
  <1>5. PICK v \in Seq(S) :
          /\ v = b \o (m \o z) /\ Len(v) = Len(b) + Len(m) + Len(z)
          /\ \A i \in 1..Len(b) : v[i] = b[i]
          /\ \A i \in 1..Len(m) : v[Len(b) + i] = m[i]
          /\ \A i \in 1..Len(z) : v[Len(b) + Len(m) + i] = z[i]
    <2>1. /\ b \o (m \o z) \in Seq(S)
          /\ Len(b \o (m \o z)) = Len(b) + Len(m) + Len(z)
          /\ \A i \in 1..Len(b) : (b \o (m \o z))[i] = b[i]
          /\ \A i \in 1..Len(m) : (b \o (m \o z))[Len(b) + i] = m[i]
          /\ \A i \in 1..Len(z) : (b \o (m \o z))[Len(b) + Len(m) + i] = z[i]
      BY Places
    <2> QED BY <2>1
  <1>6. Len(b) = j /\ Len(m) = k - j /\ Len(z) = l - k /\ j + (k - j) = k
    BY <1>1, <1>2, <1>4
  <1>7. /\ Len(v) = l
        /\ \A i \in 1..j : v[i] = t[i]
        /\ \A i \in 1..k - j : v[j + i] = t[j + i]
        /\ \A i \in 1..l - k : v[k + i] = t[k + i]
    <2>1. Len(v) = j + (k - j) + (l - k)
      BY <1>5, <1>6
    <2>2. \A i \in 1..j : v[i] = t[i]
      BY <1>1, <1>5, <1>6
    <2>3. \A i \in 1..k - j : v[j + i] = t[j + i]
      BY <1>2, <1>5, <1>6, SMTT(60)
    <2>4. \A i \in 1..l - k : v[k + i] = t[k + i]
      <3>1. \A i \in 1..Len(z) : v[Len(b) + Len(m) + i] = z[i]
        BY <1>5
      <3>2. Len(b) + Len(m) = k /\ Len(z) = l - k
        BY <1>6
      <3>3. \A i \in 1..l - k : v[k + i] = z[i]
        BY <3>1, <3>2
      <3> QED BY <1>4, <3>3
    <2>5. j + (k - j) + (l - k) = l
      OBVIOUS
    <2> QED BY <2>1, <2>2, <2>3, <2>4, <2>5
  <1>8. v = t
    <2>1. ASSUME NEW i \in 1..l PROVE v[i] = t[i]
      <3>1. CASE i <= j
        BY <1>7, <3>1
      <3>2. CASE i > j /\ i <= k
        <4>1. i - j \in 1..k - j /\ j + (i - j) = i
          BY <3>2
        <4>2. v[j + (i - j)] = t[j + (i - j)]
          BY <1>7, <4>1
        <4> QED BY <4>1, <4>2
      <3>3. CASE i > k
        <4>1. i - k \in 1..l - k /\ k + (i - k) = i
          BY <3>3
        <4>2. v[k + (i - k)] = t[k + (i - k)]
          BY <1>7, <4>1
        <4> QED BY <4>1, <4>2
      <3> QED BY <3>1, <3>2, <3>3
    <2>2. Len(v) = l /\ Len(t) = l
      BY <1>3, <1>7
    <2>3. \A i \in 1..Len(v) : v[i] = t[i]
      BY <2>1, <2>2
    <2> QED BY <2>2, <2>3, SeqEqual, ZenonT(30)
  <1> QED BY <1>1, <1>2, <1>3, <1>4, <1>5, <1>8 DEF PartsOf

\* One symbol changed, one left out or added, two swapped.
EditIn(S, m, n) ==
  \/ \E x, y \in S : m = <<x>> /\ n = <<y>>
  \/ \E x \in S : (m = <<x>> /\ n = <<>>) \/ (m = <<>> /\ n = <<x>>)
  \/ \E x, y \in S : m = <<x, y>> /\ n = <<y, x>>

\* A sequence with one item changed.
LEMMA Changed ==
  ASSUME NEW S, NEW t \in Seq(S), NEW k \in 1..Len(t), NEW x \in S
  PROVE  /\ [t EXCEPT ![k] = x] \in Seq(S) /\ Len([t EXCEPT ![k] = x]) = Len(t)
         /\ [t EXCEPT ![k] = x][k] = x
         /\ \A i \in 1..Len(t) : i # k => [t EXCEPT ![k] = x][i] = t[i]
  OBVIOUS

\* Two sequences of l + 1 + n items, equal in the three parts.
AgreeInParts(v, w, l, n) ==
  /\ Len(v) = l + 1 + n /\ Len(w) = l + 1 + n
  /\ \A i \in 1..l : v[i] = w[i]
  /\ v[l + 1] = w[l + 1]
  /\ \A i \in 1..n : v[l + 1 + i] = w[l + 1 + i]

\* Sequences that agree in all parts are one.
LEMMA SameInParts ==
  ASSUME NEW S, NEW v \in Seq(S), NEW w \in Seq(S), NEW l \in Nat, NEW n \in Nat
  PROVE  AgreeInParts(v, w, l, n) => v = w
  <1> SUFFICES ASSUME AgreeInParts(v, w, l, n) PROVE v = w
    OBVIOUS
  <1> USE DEF AgreeInParts
  <1>1. ASSUME NEW i \in 1..l + 1 + n PROVE v[i] = w[i]
    <2>1. CASE i <= l
      BY <2>1
    <2>2. CASE i = l + 1
      BY <2>2
    <2>3. CASE i > l + 1
      <3>1. i - (l + 1) \in 1..n /\ l + 1 + (i - (l + 1)) = i
        BY <2>3
      <3>2. v[l + 1 + (i - (l + 1))] = w[l + 1 + (i - (l + 1))]
        BY <3>1
      <3> QED BY <3>1, <3>2
    <2> QED BY <2>1, <2>2, <2>3
  <1> QED BY <1>1

\* One symbol between two parts.
HasParts(w, b, x, z) ==
  /\ Len(w) = Len(b) + 1 + Len(z)
  /\ \A i \in 1..Len(b) : w[i] = b[i]
  /\ w[Len(b) + 1] = x
  /\ \A i \in 1..Len(z) : w[Len(b) + 1 + i] = z[i]

\* One item between two sequences.
LEMMA OneBetween ==
  ASSUME NEW S, NEW b \in Seq(S), NEW x \in S, NEW z \in Seq(S)
  PROVE  b \o (<<x>> \o z) \in Seq(S) /\ HasParts(b \o (<<x>> \o z), b, x, z)
  <1>1. PICK m \in Seq(S) : m = <<x>> /\ Len(m) = 1 /\ m[1] = x
    <2>1. <<x>> \in Seq(S) /\ Len(<<x>>) = 1 /\ <<x>>[1] = x
      OBVIOUS
    <2> QED BY <2>1
  <1>2. /\ b \o (m \o z) \in Seq(S)
        /\ Len(b \o (m \o z)) = Len(b) + Len(m) + Len(z)
        /\ \A i \in 1..Len(b) : (b \o (m \o z))[i] = b[i]
        /\ \A i \in 1..Len(m) : (b \o (m \o z))[Len(b) + i] = m[i]
        /\ \A i \in 1..Len(z) : (b \o (m \o z))[Len(b) + Len(m) + i] = z[i]
    BY Places
  <1>3. PICK w \in Seq(S) : w = b \o (m \o z)
    BY <1>2
  <1>4. w[Len(b) + 1] = x
    BY <1>1, <1>2, <1>3
  <1> QED BY <1>1, <1>2, <1>3, <1>4 DEF HasParts

\* x in the place of y, behind b.
Placed(b, x, y, z) == [b \o (<<y>> \o z) EXCEPT ![Len(b) + 1] = x] = b \o (<<x>> \o z)

\* Changing the one item between two sequences.
LEMMA PlaceOfOne ==
  ASSUME NEW S, NEW b \in Seq(S), NEW x \in S, NEW y \in S, NEW z \in Seq(S)
  PROVE  Placed(b, x, y, z)
  <1>1. PICK l \in Nat, n \in Nat : l = Len(b) /\ n = Len(z)
    OBVIOUS
  <1>2. PICK t \in Seq(S) : t = b \o (<<y>> \o z) /\ HasParts(t, b, y, z)
    BY OneBetween
  <1>3. PICK w \in Seq(S) : w = b \o (<<x>> \o z) /\ HasParts(w, b, x, z)
    BY OneBetween
  <1>4. l + 1 \in 1..Len(t) /\ Len(t) = l + 1 + n
    BY <1>1, <1>2 DEF HasParts
  <1>5. PICK v \in Seq(S) : /\ v = [t EXCEPT ![l + 1] = x] /\ Len(v) = Len(t) /\ v[l + 1] = x
                            /\ \A i \in 1..Len(t) : i # l + 1 => v[i] = t[i]
    <2>1. /\ [t EXCEPT ![l + 1] = x] \in Seq(S) /\ Len([t EXCEPT ![l + 1] = x]) = Len(t)
          /\ [t EXCEPT ![l + 1] = x][l + 1] = x
          /\ \A i \in 1..Len(t) : i # l + 1 => [t EXCEPT ![l + 1] = x][i] = t[i]
      BY <1>4, Changed
    <2> QED BY <2>1
  <1>6. \A i \in 1..l : v[i] = w[i]
    <2>1. \A i \in 1..l : t[i] = b[i] /\ w[i] = b[i]
      BY <1>1, <1>2, <1>3 DEF HasParts
    <2>2. \A i \in 1..l : v[i] = t[i]
      BY <1>4, <1>5
    <2> QED BY <2>1, <2>2
  <1>7. \A i \in 1..n : v[l + 1 + i] = w[l + 1 + i]
    <2>1. \A i \in 1..n : t[l + 1 + i] = z[i] /\ w[l + 1 + i] = z[i]
      BY <1>1, <1>2, <1>3 DEF HasParts
    <2>2. ASSUME NEW i \in 1..n PROVE v[l + 1 + i] = t[l + 1 + i]
      <3>1. l + 1 + i \in 1..Len(t) /\ l + 1 + i # l + 1
        BY <1>4
      <3> QED BY <1>5, <3>1
    <2> QED BY <2>1, <2>2
  <1>8. Len(w) = l + 1 + n /\ v[l + 1] = w[l + 1]
    BY <1>1, <1>3, <1>5 DEF HasParts
  <1>9. v = w
    <2>1. AgreeInParts(v, w, l, n)
      BY <1>4, <1>5, <1>6, <1>7, <1>8 DEF AgreeInParts
    <2>2. AgreeInParts(v, w, l, n) => v = w
      BY SameInParts
    <2> QED BY <2>1, <2>2
  <1> QED BY <1>1, <1>2, <1>3, <1>5, <1>9 DEF Placed
\* c and d between b and z, in one or two steps.
PairStands(b, c, d, z) ==
  /\ b \o (<<c, d>> \o z) = b \o (<<c>> \o (<<d>> \o z))
  /\ b \o (<<c, d>> \o z) = Append(b, c) \o (<<d>> \o z)

\* Two items between two sequences.
LEMMA PairBetween ==
  ASSUME NEW S, NEW b \in Seq(S), NEW c \in S, NEW d \in S, NEW z \in Seq(S)
  PROVE  PairStands(b, c, d, z)
  <1>1. PICK m \in Seq(S), n \in Seq(S) : m = <<c>> /\ n = <<d>>
    <2>1. <<c>> \in Seq(S) /\ <<d>> \in Seq(S)
      OBVIOUS
    <2> QED BY <2>1
  <1>2. m \o n = <<c, d>>
    BY <1>1, PairJoined
  <1>3. PICK y \in Seq(S) : y = n \o z
    <2>1. n \o z \in Seq(S)
      OBVIOUS
    <2> QED BY <2>1
  <1>4. (m \o n) \o z = m \o y
    <2>1. (m \o n) \o z = m \o (n \o z)
      OBVIOUS
    <2> QED BY <1>3, <2>1
  <1>5. b \o (m \o y) = (b \o m) \o y
    OBVIOUS
  <1>6. b \o m = Append(b, c)
    BY <1>1, AppendedParts
  <1> QED BY <1>1, <1>2, <1>3, <1>4, <1>5, <1>6 DEF PairStands

\* A wrong, a missing, an additional symbol, or two neighbours swapped.
IsSlip(new, text, k, x) ==
  \/ new = [text EXCEPT ![k] = x]
  \/ new = RemoveAt(text, k)
  \/ new = InsertAt(text, k, x)
  \/ k < Len(text) /\ new = [text EXCEPT ![k] = text[k + 1], ![k + 1] = text[k]]

\* An edit at the place k turns t into new.
EditedInto(S, t, new, k) ==
  \E b, m, n, z \in Seq(S) :
    t = b \o (m \o z) /\ new = b \o (n \o z) /\ Len(b) = k - 1 /\ EditIn(S, m, n)

\* Each of the four mistakes is an edit at its place.
LEMMA SlipIsEdit ==
  ASSUME NEW S, NEW t \in Seq(S), NEW k \in 1..Len(t), NEW x \in S, NEW new
  PROVE  IsSlip(new, t, k, x) => EditedInto(S, t, new, k)
  <1>1. PICK j \in Nat : j = k - 1 /\ j + 1 = k /\ k - j = 1 /\ j <= k /\ k <= Len(t)
    <2>1. k - 1 \in Nat /\ (k - 1) + 1 = k /\ k - (k - 1) = 1 /\ k - 1 <= k /\ k <= Len(t)
      OBVIOUS
    <2> QED BY <2>1
  <1>2. t[k] \in S
    OBVIOUS
  <1>3. PICK b \in Seq(S) : b = SubSeq(t, 1, k - 1) /\ Len(b) = j
    <2>1. /\ SubSeq(t, 1, j) \in Seq(S) /\ SubSeq(t, j + 1, k) \in Seq(S)
          /\ SubSeq(t, k + 1, Len(t)) \in Seq(S)
          /\ PartsOf(t, SubSeq(t, 1, j), SubSeq(t, j + 1, k), SubSeq(t, k + 1, Len(t)), j, k)
      BY <1>1, Cut
    <2>2. Len(SubSeq(t, 1, j)) = j
      BY <2>1 DEF PartsOf
    <2> QED BY <1>1, <2>1, <2>2
  <1>4. <<>> \in Seq(S) /\ (\A s \in Seq(S) : <<>> \o s = s)
    OBVIOUS
  <1>5. \A y \in S : <<y>> \in Seq(S)
    OBVIOUS
  <1>6. PICK z \in Seq(S) : z = SubSeq(t, k + 1, Len(t)) /\ t = b \o (<<t[k]>> \o z)
    <2>1. /\ SubSeq(t, 1, j) \in Seq(S) /\ SubSeq(t, j + 1, k) \in Seq(S)
          /\ SubSeq(t, k + 1, Len(t)) \in Seq(S)
          /\ PartsOf(t, SubSeq(t, 1, j), SubSeq(t, j + 1, k), SubSeq(t, k + 1, Len(t)), j, k)
      BY <1>1, Cut
    <2>2. PICK m \in Seq(S) : m = SubSeq(t, j + 1, k)
      BY <2>1
    <2>3. Len(m) = 1 /\ \A i \in 1..1 : m[i] = t[j + i]
      BY <1>1, <2>1, <2>2 DEF PartsOf
    <2>4. m = <<t[k]>>
      BY <1>1, <2>3
    <2> QED BY <1>1, <1>3, <2>1, <2>2, <2>4 DEF PartsOf
  <1>7. CASE new = [t EXCEPT ![k] = x]
    <2>1. [b \o (<<t[k]>> \o z) EXCEPT ![Len(b) + 1] = x] = b \o (<<x>> \o z)
      <3>1. Placed(b, x, t[k], z)
        BY <1>2, PlaceOfOne
      <3> QED BY <3>1 DEF Placed
    <2>2. new = b \o (<<x>> \o z)
      BY <1>1, <1>3, <1>6, <1>7, <2>1
    <2>3. EditIn(S, <<t[k]>>, <<x>>)
      BY <1>2 DEF EditIn
    <2> QED BY <1>1, <1>2, <1>3, <1>5, <1>6, <2>2, <2>3 DEF EditedInto
  <1>8. CASE new = RemoveAt(t, k)
    <2>1. new = b \o z
      BY <1>3, <1>6, <1>8 DEF RemoveAt
    <2>2. new = b \o (<<>> \o z)
      BY <1>4, <2>1
    <2>3. EditIn(S, <<t[k]>>, <<>>)
      BY <1>2 DEF EditIn
    <2> QED BY <1>1, <1>2, <1>3, <1>4, <1>5, <1>6, <2>2, <2>3 DEF EditedInto
  <1>9. CASE new = InsertAt(t, k, x)
    <2>1. PICK y \in Seq(S) : y = SubSeq(t, k, Len(t)) /\ t = b \o y
      <3>1. SubSeq(t, k, Len(t)) \in Seq(S)
        OBVIOUS
      <3>2. /\ SubSeq(t, j + 1, j) \in Seq(S) /\ SubSeq(t, j + 1, Len(t)) \in Seq(S)
            /\ PartsOf(t, SubSeq(t, 1, j), SubSeq(t, j + 1, j), SubSeq(t, j + 1, Len(t)), j, j)
        <4>1. j <= j /\ j <= Len(t)
          BY <1>1
        <4> QED BY <4>1, Cut
      <3>3. PICK m \in Seq(S) : m = SubSeq(t, j + 1, j)
        BY <3>2
      <3>4. Len(m) = 0
        BY <3>2, <3>3 DEF PartsOf
      <3>5. m = <<>>
        BY <3>4
      <3>6. PICK y \in Seq(S) : y = SubSeq(t, k, Len(t))
        BY <3>1
      <3>7. t = b \o (m \o y)
        BY <1>1, <1>3, <3>2, <3>3, <3>6 DEF PartsOf
      <3> QED BY <1>4, <3>5, <3>6, <3>7
    <2>2. new = b \o <<x>> \o y
      BY <1>3, <1>9, <2>1 DEF InsertAt
    <2>3. PICK o \in Seq(S) : o = <<x>>
      BY <1>5
    <2>4. b \o o \o y = b \o (o \o y)
      OBVIOUS
    <2>5. new = b \o (<<x>> \o y) /\ t = b \o (<<>> \o y)
      BY <1>4, <2>1, <2>2, <2>3, <2>4
    <2>6. EditIn(S, <<>>, <<x>>)
      BY DEF EditIn
    <2> QED BY <1>1, <1>3, <1>4, <1>5, <2>5, <2>6 DEF EditedInto
  <1>10. CASE k < Len(t) /\ new = [t EXCEPT ![k] = t[k + 1], ![k + 1] = t[k]]
    <2>1. PICK c \in S, d \in S : c = t[k] /\ d = t[k + 1]
      <3>1. t[k + 1] \in S
        BY <1>10
      <3> QED BY <1>2, <3>1
    <2>2. PICK y \in Seq(S) : t = b \o (<<c, d>> \o y)
      <3>1. /\ SubSeq(t, j + 1, k + 1) \in Seq(S) /\ SubSeq(t, k + 1 + 1, Len(t)) \in Seq(S)
            /\ PartsOf(t, SubSeq(t, 1, j), SubSeq(t, j + 1, k + 1),
                       SubSeq(t, k + 1 + 1, Len(t)), j, k + 1)
        <4>1. j <= k + 1 /\ k + 1 <= Len(t) /\ k + 1 \in Nat
          <5>1. PICK l \in Nat : l = Len(t) /\ k < l
            BY <1>10
          <5>2. k \in Nat /\ k + 1 <= l
            BY <5>1
          <5> QED BY <1>1, <5>1, <5>2
        <4> QED BY <4>1, Cut
      <3>2. PICK m \in Seq(S) : m = SubSeq(t, j + 1, k + 1)
        BY <3>1
      <3>3. Len(m) = 2 /\ m[1] = c /\ m[2] = d
        <4>1. Len(m) = k + 1 - j /\ \A i \in 1..k + 1 - j : m[i] = t[j + i]
          <5>1. PICK z2 : PartsOf(t, SubSeq(t, 1, j), m, z2, j, k + 1)
            BY <3>1, <3>2
          <5> QED BY <5>1 DEF PartsOf
        <4>2. k + 1 - j = 2 /\ j + 1 = k /\ j + 2 = k + 1
          BY <1>1
        <4> QED BY <2>1, <4>1, <4>2
      <3>4. m = <<c, d>>
        BY <3>3
      <3> QED BY <1>1, <1>3, <3>1, <3>2, <3>4 DEF PartsOf
    <2>3. PICK t1 \in Seq(S) : t1 = [t EXCEPT ![k] = d] /\ t1 = Append(b, d) \o (<<d>> \o y)
      <3>1. PICK dy \in Seq(S) : dy = <<d>> \o y
        <4>1. PICK o \in Seq(S) : o = <<d>>
          BY <1>5
        <4>2. o \o y \in Seq(S)
          OBVIOUS
        <4> QED BY <4>1, <4>2
      <3>2. t = b \o (<<c>> \o dy)
        <4>1. PairStands(b, c, d, y)
          BY PairBetween
        <4> QED BY <2>2, <3>1, <4>1 DEF PairStands
      <3>3. [b \o (<<c>> \o dy) EXCEPT ![Len(b) + 1] = d] = b \o (<<d>> \o dy)
        <4>1. Placed(b, d, c, dy)
          BY PlaceOfOne
        <4> QED BY <4>1 DEF Placed
      <3>4. PairStands(b, d, d, y)
        BY PairBetween
      <3>5. b \o (<<d>> \o (<<d>> \o y)) = Append(b, d) \o (<<d>> \o y)
        BY <3>4 DEF PairStands
      <3>6. [t EXCEPT ![k] = d] \in Seq(S)
        OBVIOUS
      <3> QED BY <1>1, <1>3, <3>1, <3>2, <3>3, <3>5, <3>6
    <2>4. new = [t1 EXCEPT ![k + 1] = c]
      BY <1>10, <2>1, <2>3
    <2>5. PICK bd \in Seq(S) : bd = Append(b, d) /\ Len(bd) = k
      <3>1. Append(b, d) \in Seq(S) /\ Len(Append(b, d)) = Len(b) + 1
        OBVIOUS
      <3> QED BY <1>1, <1>3, <3>1
    <2>6. new = bd \o (<<c>> \o y)
      <3>1. [bd \o (<<d>> \o y) EXCEPT ![Len(bd) + 1] = c] = bd \o (<<c>> \o y)
        <4>1. Placed(bd, c, d, y)
          BY PlaceOfOne
        <4> QED BY <4>1 DEF Placed
      <3> QED BY <2>3, <2>4, <2>5, <3>1
    <2>7. new = b \o (<<d, c>> \o y)
      <3>1. b \o (<<d, c>> \o y) = Append(b, d) \o (<<c>> \o y)
        <4>1. PairStands(b, d, c, y)
          BY PairBetween
        <4> QED BY <4>1 DEF PairStands
      <3> QED BY <2>5, <2>6, <3>1
    <2>8. EditIn(S, <<c, d>>, <<d, c>>) /\ <<c, d>> \in Seq(S) /\ <<d, c>> \in Seq(S)
      BY DEF EditIn
    <2> QED BY <1>1, <1>3, <2>2, <2>7, <2>8 DEF EditedInto
  <1> QED BY <1>7, <1>8, <1>9, <1>10 DEF IsSlip

\* An edit within the symbols of texts.
LEMMA EditOfRead ==
  ASSUME NEW S, NEW m, NEW n, EditIn(S, m, n), m \in Seq(ReferenceSymbols),
         n \in Seq(ReferenceSymbols)
  PROVE  Edit(m, n)
  <1>1. ASSUME NEW x, <<x>> \in Seq(ReferenceSymbols) PROVE x \in ReferenceSymbols
    <2>1. PICK s \in Seq(ReferenceSymbols) : s = <<x>>
      BY <1>1
    <2>2. Len(s) = 1 /\ s[1] = x
      BY <2>1
    <2>3. \A i \in 1..Len(s) : s[i] \in ReferenceSymbols
      OBVIOUS
    <2> QED BY <2>2, <2>3
  <1>2. ASSUME NEW x, NEW y, <<x, y>> \in Seq(ReferenceSymbols)
        PROVE  x \in ReferenceSymbols /\ y \in ReferenceSymbols
    <2>1. PICK s \in Seq(ReferenceSymbols) : s = <<x, y>>
      BY <1>2
    <2>2. Len(s) = 2 /\ s[1] = x /\ s[2] = y
      BY <2>1
    <2>3. \A i \in 1..Len(s) : s[i] \in ReferenceSymbols
      OBVIOUS
    <2> QED BY <2>2, <2>3
  <1>3. CASE \E x, y \in S : m = <<x>> /\ n = <<y>>
    BY <1>1, <1>3 DEF Edit
  <1>4. CASE \E x \in S : (m = <<x>> /\ n = <<>>) \/ (m = <<>> /\ n = <<x>>)
    BY <1>1, <1>4 DEF Edit
  <1>5. CASE \E x, y \in S : m = <<x, y>> /\ n = <<y, x>>
    BY <1>2, <1>5 DEF Edit
  <1> QED BY <1>3, <1>4, <1>5 DEF EditIn

\* A slip behind the prefix is refused, or read as what was meant: whatever is
\* mistyped, left out, added or swapped, the check symbol and the hyphens
\* included.
THEOREM SlipNoticedInText ==
  ASSUME NEW defs, WellBuilt(defs), NEW text, NEW i, NEW p, NEW c,
         Reading(text, defs, i, p, c),
         NEW k \in 1..Len(text), k > Len(defs[i].prefix), NEW x, NEW new,
         IsSlip(new, text, k, x), Succeeds(ParseReference(new, defs))
  PROVE  ParseReference(new, defs) = Success(defs[i], p, c)
  <1> DEFINE R == ReferenceSymbols
             S == R \cup {x}
  <1>1. text \in Seq(R) /\ R \subseteq S /\ x \in S
    BY DEF Reading
  <1>2. PICK t \in Seq(S) : t = text
    <2> HIDE DEF S, R
    <2> QED BY <1>1, LargerSet
  <1>3. EditedInto(S, t, new, k)
    <2> HIDE DEF S
    <2> QED BY <1>1, <1>2, SlipIsEdit
  <1>4. PICK b \in Seq(S), m \in Seq(S), n \in Seq(S), z \in Seq(S) :
          /\ t = b \o (m \o z) /\ new = b \o (n \o z) /\ Len(b) = k - 1 /\ EditIn(S, m, n)
    BY <1>3 DEF EditedInto
  <1>5. PICK mz \in Seq(S), nz \in Seq(S) : mz = m \o z /\ nz = n \o z
    <2> HIDE DEF S
    <2>1. m \o z \in Seq(S) /\ n \o z \in Seq(S)
      OBVIOUS
    <2> QED BY <2>1
  <1>6. new \in Seq(S)
    <2> HIDE DEF S
    <2>1. b \o nz \in Seq(S)
      OBVIOUS
    <2> QED BY <1>4, <1>5, <2>1
  <1>7. PICK j, q, e : Reading(new, defs, j, q, e)
    BY <1>6, ParseIsReading
  <1>8. new \in Seq(R)
    BY <1>7 DEF Reading
  <1>9. b \in Seq(R) /\ mz \in Seq(R) /\ nz \in Seq(R)
    <2>1. b \o mz \in Seq(R) /\ b \o nz \in Seq(R)
      BY <1>1, <1>2, <1>4, <1>5, <1>8
    <2> HIDE DEF R, S
    <2>2. b \in Seq(R) /\ mz \in Seq(R)
      BY <2>1, PartsIn
    <2>3. nz \in Seq(R)
      BY <2>1, PartsIn
    <2> QED BY <2>2, <2>3
  <1>10. m \in Seq(R) /\ n \in Seq(R) /\ z \in Seq(R)
    <2>1. m \o z \in Seq(R) /\ n \o z \in Seq(R)
      BY <1>5, <1>9
    <2> HIDE DEF R, S
    <2>2. m \in Seq(R) /\ z \in Seq(R)
      BY <2>1, PartsIn
    <2>3. n \in Seq(R)
      BY <2>1, PartsIn
    <2> QED BY <2>2, <2>3
  <1>11. Edit(m, n)
    <2> HIDE DEF S
    <2> QED BY <1>4, <1>10, EditOfRead
  <1>12. Len(defs[i].prefix) <= Len(b)
    <2>1. PICK d : d = defs[i] /\ ReferenceDefinition(d)
      BY ReadingIsParsed
    <2>2. Len(d.prefix) \in Nat
      BY <2>1, LeadIs
    <2> QED BY <1>4, <2>1, <2>2
  <1>13. Reading(b \o (m \o z), defs, i, p, c) /\ Reading(b \o (n \o z), defs, j, q, e)
    BY <1>2, <1>4, <1>7
  <1>14. j = i /\ q = p /\ e = c
    BY <1>9, <1>10, <1>11, <1>12, <1>13, EditNoticed
  <1> QED BY <1>7, <1>14, ReadingIsParsed
-----------------------------------------------------------------------------
(* What is issued *)

\* A payload and its check symbol are written in the namespace d.
IsWritten(d, value) ==
  \E p \in Seq(AlphabetOf(d)) :
    Len(p) = PayloadPlaces(d) /\ value = TextOf(d, p, CalculateCheckSymbol(RadixOf(d), p))

\* A drawn candidate is written in its namespace (createReferenceCandidate).
LEMMA CandidateIsWritten ==
  ASSUME NEW d, ReferenceDefinition(d), d.strategy = "random",
         NEW bytes \in Seq(0..255), Len(bytes) = d.payloadLength
  PROVE  IsWritten(d, CreateReferenceCandidate(d, bytes))
  <1> DEFINE symbol(byte) == DataAlphabet[1 + (byte % 32)]
  <1>1. \A byte \in 0..255 : symbol(byte) \in DataSymbols
    <2>1. \A byte \in 0..255 : 1 + (byte % 32) \in 1..32
      OBVIOUS
    <2>2. \A v \in 1..32 : DataAlphabet[v] \in DataSymbols
      BY DataSets
    <2> QED BY <2>1, <2>2
  <1>2. PICK l \in Nat :
          l = Len(bytes) /\ DOMAIN bytes = 1..l /\ \A i \in 1..l : bytes[i] \in 0..255
    <2>1. Len(bytes) \in Nat /\ DOMAIN bytes = 1..Len(bytes)
      OBVIOUS
    <2>2. \A i \in 1..Len(bytes) : bytes[i] \in 0..255
      BY ElementOfSeq
    <2> QED BY <2>1, <2>2
  <1>3. \A i \in 1..l : symbol(bytes[i]) \in DataSymbols
    BY <1>1, <1>2
  <1>4. CreateReferenceCandidate(d, bytes) =
          FormatReference(d.prefix, [i \in 1..l |-> symbol(bytes[i])],
            CalculateCheckSymbol(RandomRadix, [i \in 1..l |-> symbol(bytes[i])]))
    BY <1>2 DEF CreateReferenceCandidate
  <1> HIDE DEF symbol
  <1>5. PICK p \in Seq(DataSymbols) : p = [i \in 1..l |-> symbol(bytes[i])] /\ Len(p) = l
    <2>1. [i \in 1..l |-> symbol(bytes[i])] \in Seq(DataSymbols)
          /\ Len([i \in 1..l |-> symbol(bytes[i])]) = l
      BY <1>3
    <2> QED BY <2>1
  <1>6. ~IsSequence(d) /\ AlphabetOf(d) = DataSymbols /\ RadixOf(d) = RandomRadix
        /\ PayloadPlaces(d) = d.payloadLength
    BY DEF IsSequence, AlphabetOf, RadixOf, PayloadPlaces
  <1>7. PICK c \in CheckSymbols : c = CalculateCheckSymbol(RadixOf(d), p)
    BY <1>6, CheckIsThere
  <1>8. Len(p) = PayloadPlaces(d) /\ p \in Seq(AlphabetOf(d))
    BY <1>2, <1>5, <1>6
  <1>9. FormatReference(d.prefix, p, c) = TextOf(d, p, c)
    BY <1>6, <1>8, TextIs
  <1> QED BY <1>4, <1>5, <1>6, <1>7, <1>8, <1>9 DEF IsWritten

\* The parts the adapters cut a sequential reference into.
LEMMA PartsOfWritten ==
  ASSUME NEW d, ReferenceDefinition(d), NEW x \in Seq(Digits), NEW y \in Seq(Digits),
         NEW c \in CheckSymbols, Len(y) \in ValidWidths, x # <<>> => Len(x) = ScopeLength
  PROVE  SqlParts(d.prefix \o <<Hyphen>> \o SequentialBody(x, y, c))
           = {[prefix |-> d.prefix, scope |-> x, sequence |-> Number(y)]}
  <1>1. PICK p \in Seq(Others) :
          p = d.prefix /\ Len(p) \in PrefixLengths /\ ToSet(p) \subseteq Letters
    <2>1. d.prefix \in Seq(Others) /\ Len(d.prefix) \in PrefixLengths /\ d.prefix \in Seq(Letters)
      BY LeadIs DEF ReferenceDefinition
    <2>2. ToSet(d.prefix) \subseteq Letters
      BY <2>1, SetOfSymbols
    <2> QED BY <2>1, <2>2
  <1>2. PICK text : text = p \o <<Hyphen>> \o SequentialBody(x, y, c)
    OBVIOUS
  <1>3. Split(text) = IF x = <<>> THEN <<p, y, <<c>>>> ELSE <<p, x, y, <<c>>>>
    BY <1>2, SequentialBodyIs
  <1>4. ToSet(x) \subseteq Digits /\ ToSet(y) \subseteq Digits
    BY SetOfSymbols
  <1>5. Len(<<c>>) = 1 /\ <<c>>[1] = c
    OBVIOUS
  <1>6. CASE x = <<>>
    <2>1. PICK groups : groups = <<p, y, <<c>>>>
      OBVIOUS
    <2>2. Len(groups) = 3 /\ groups[1] = p /\ groups[2] = y /\ groups[3] = <<c>>
      BY <2>1
    <2>3. Split(text) = groups
      BY <1>3, <1>6, <2>1
    <2>4. groups[3 - 1] = y
      BY <2>2
    <2>5. SqlParts(text) =
            LET n == Len(groups)
                scope == IF n = 4 THEN groups[2] ELSE <<>>
                sequence == groups[n - 1]
            IN IF /\ n \in {3, 4}
                  /\ Len(groups[1]) \in PrefixLengths /\ ToSet(groups[1]) \subseteq Letters
                  /\ n = 4 => Len(scope) = ScopeLength /\ ToSet(scope) \subseteq Digits
                  /\ Len(sequence) \in ValidWidths /\ ToSet(sequence) \subseteq Digits
                  /\ Len(groups[n]) = 1 /\ groups[n][1] \in CheckSymbols \cup Letters
               THEN {[prefix |-> groups[1], scope |-> scope, sequence |-> Number(sequence)]}
               ELSE {}
      BY <2>3 DEF SqlParts
    <2>6. SqlParts(text) =
            IF /\ Len(p) \in PrefixLengths /\ ToSet(p) \subseteq Letters
               /\ Len(y) \in ValidWidths /\ ToSet(y) \subseteq Digits
               /\ Len(<<c>>) = 1 /\ <<c>>[1] \in CheckSymbols \cup Letters
            THEN {[prefix |-> p, scope |-> <<>>, sequence |-> Number(y)]}
            ELSE {}
      <3>1. Len(groups) \in {3, 4} /\ Len(groups) # 4
        BY <2>2
      <3>2. groups[Len(groups) - 1] = y /\ groups[Len(groups)] = <<c>>
        BY <2>2, <2>4
      <3> QED BY <2>2, <2>5, <3>1, <3>2
    <2> QED BY <1>1, <1>2, <1>4, <1>5, <1>6, <2>6
  <1>7. CASE x # <<>>
    <2>1. PICK groups : groups = <<p, x, y, <<c>>>>
      OBVIOUS
    <2>2. /\ Len(groups) = 4 /\ groups[1] = p /\ groups[2] = x /\ groups[3] = y
          /\ groups[4] = <<c>>
      BY <2>1
    <2>3. Split(text) = groups
      BY <1>3, <1>7, <2>1
    <2>4. SqlParts(text) =
            LET sequence == groups[4 - 1] IN
            IF /\ Len(groups[1]) \in PrefixLengths /\ ToSet(groups[1]) \subseteq Letters
               /\ Len(groups[2]) = ScopeLength /\ ToSet(groups[2]) \subseteq Digits
               /\ Len(sequence) \in ValidWidths /\ ToSet(sequence) \subseteq Digits
               /\ Len(groups[4]) = 1 /\ groups[4][1] \in CheckSymbols \cup Letters
            THEN {[prefix |-> groups[1], scope |-> groups[2], sequence |-> Number(sequence)]}
            ELSE {}
      BY <2>2, <2>3 DEF SqlParts
    <2>5. groups[4 - 1] = y
      BY <2>2
    <2> QED BY <1>1, <1>2, <1>4, <1>5, <1>7, <2>2, <2>4, <2>5
  <1> QED BY <1>6, <1>7

\* Two sequences joined and cut again.
LEMMA JoinedParts ==
  ASSUME NEW S, NEW x \in Seq(S), NEW y \in Seq(S)
  PROVE  /\ x \o y \in Seq(S) /\ Len(x \o y) = Len(x) + Len(y)
         /\ SubSeq(x \o y, 1, Len(x)) = x
         /\ SubSeq(x \o y, Len(x) + 1, Len(x \o y)) = y
  <1>1. IsPrefix(x, x \o y) /\ SubSeq(x \o y, Len(x) + 1, Len(x \o y)) = y
    BY PrefixAndRest
  <1>2. x \o y \in Seq(S) /\ Len(x \o y) = Len(x) + Len(y)
    OBVIOUS
  <1>3. SubSeq(x, 1, Len(x)) = SubSeq(x \o y, 1, Len(x))
    BY <1>1 DEF IsPrefix
  <1>4. SubSeq(x, 1, Len(x)) = x
    OBVIOUS
  <1> QED BY <1>1, <1>2, <1>3, <1>4

\* A formatted number is written in its namespace, and the lookup finds its parts
\* (formatSequentialReference; sql-storage.ts:35-47).
LEMMA SequentialIsWritten ==
  ASSUME NEW d, ReferenceDefinition(d), IsSequence(d), NEW n \in Nat,
         NEW scope \in Seq(ReferenceSymbols),
         Succeeds(FormatSequentialReference(d, n, scope))
  PROVE  LET value == FormatSequentialReference(d, n, scope).value IN
         /\ IsWritten(d, value)
         /\ SqlParts(value) = {[prefix |-> d.prefix, scope |-> scope, sequence |-> n]}
  <1>1. PICK y \in Seq(Digits) : /\ y = PaddedDigits(n, d.width).digits /\ Len(y) = d.width
                                 /\ PaddedDigits(n, d.width).rest = 0 => Number(y) = n
    <2>1. d.width \in Nat
      BY Forms
    <2>2. /\ PaddedDigits(n, d.width).digits \in Seq(Digits)
          /\ Len(PaddedDigits(n, d.width).digits) = d.width
          /\ PaddedDigits(n, d.width).rest = 0 => Number(PaddedDigits(n, d.width).digits) = n
      BY <2>1, DigitsOfNumber
    <2> QED BY <2>2
  <1>2. /\ PaddedDigits(n, d.width).rest = 0
        /\ d.scope = "calendar-year" => Len(scope) = ScopeLength /\ ToSet(scope) \subseteq Digits
        /\ d.scope # "calendar-year" => scope = <<>>
        /\ FormatSequentialReference(d, n, scope).value
             = FormatSequentialParts(d.prefix, scope, y,
                 CalculateCheckSymbol(SequentialRadix, scope \o y))
    BY <1>1 DEF FormatSequentialReference, Succeeds, Failure
  <1>3. PICK x \in Seq(Digits) : x = scope
    <2>1. <<>> \in Seq(Digits)
      OBVIOUS
    <2>2. d.scope = "calendar-year" => scope \in Seq(Digits)
      BY <1>2, SetOfSymbols
    <2> QED BY <1>2, <2>1, <2>2
  <1>4. Len(x) = ScopePlaces(d) /\ (x # <<>> => Len(x) = ScopeLength)
    BY <1>2, <1>3 DEF ScopePlaces
  <1>5. /\ x \o y \in Seq(Digits) /\ Len(x \o y) = Len(x) + Len(y)
        /\ SubSeq(x \o y, 1, Len(x)) = x /\ SubSeq(x \o y, Len(x) + 1, Len(x \o y)) = y
    BY JoinedParts
  <1>6. PICK p \in Seq(Digits) :
          /\ p = x \o y /\ Len(p) = Len(x) + Len(y)
          /\ SubSeq(p, 1, Len(x)) = x /\ SubSeq(p, Len(x) + 1, Len(p)) = y
    BY <1>5
  <1>7. AlphabetOf(d) = Digits /\ RadixOf(d) = SequentialRadix
        /\ PayloadPlaces(d) = ScopePlaces(d) + d.width
    BY DEF AlphabetOf, RadixOf, PayloadPlaces
  <1>8. p \in Seq(AlphabetOf(d)) /\ Len(p) = PayloadPlaces(d)
    BY <1>1, <1>4, <1>6, <1>7
  <1>9. PICK c \in CheckSymbols : c = CalculateCheckSymbol(RadixOf(d), p)
    BY <1>8, CheckIsThere
  <1>10. FormatSequentialParts(d.prefix, SubSeq(p, 1, ScopePlaces(d)),
           SubSeq(p, ScopePlaces(d) + 1, Len(p)), c) = TextOf(d, p, c)
    BY <1>8, TextIs
  <1>11. FormatSequentialReference(d, n, scope).value = TextOf(d, p, c)
    BY <1>2, <1>3, <1>4, <1>6, <1>7, <1>9, <1>10
  <1>12. TextOf(d, p, c) = d.prefix \o <<Hyphen>> \o SequentialBody(x, y, c)
    BY <1>4, <1>6 DEF TextOf, BodyOf
  <1>13. Len(y) \in ValidWidths
    BY <1>1, Forms
  <1>14. SqlParts(TextOf(d, p, c)) = {[prefix |-> d.prefix, scope |-> x, sequence |-> Number(y)]}
    BY <1>4, <1>12, <1>13, PartsOfWritten, ZenonT(60)
  <1>15. SqlParts(TextOf(d, p, c)) = {[prefix |-> d.prefix, scope |-> scope, sequence |-> n]}
    BY <1>1, <1>2, <1>3, <1>14
  <1>16. IsWritten(d, TextOf(d, p, c))
    BY <1>8, <1>9 DEF IsWritten
  <1> QED BY <1>11, <1>15, <1>16
=============================================================================
