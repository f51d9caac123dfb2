----------------------------- MODULE CheckSymbol -----------------------------
(***************************************************************************)
(* The symbols of references and the check symbol that ends each of them   *)
(* (packages/typescript/src/reference.ts, spec/checksums.md).  A text is a *)
(* sequence of symbols; a data symbol stands for its index in the alphabet.*)
(***************************************************************************)
EXTENDS Integers, Sequences, SequencesExt

DataAlphabet ==
  <<"0", "1", "2", "3", "4", "5", "6", "7", "8", "9", "A", "B", "C", "D", "E", "F",
    "G", "H", "J", "K", "M", "N", "P", "Q", "R", "S", "T", "V", "W", "X", "Y", "Z">>
CheckAlphabet == DataAlphabet \o <<"*", "~", "$", "=", "U">>

DataSymbols == ToSet(DataAlphabet)
CheckSymbols == ToSet(CheckAlphabet)
Digits == {DataAlphabet[i] : i \in 1..10}
ValueOf == [symbol \in DataSymbols |->
              CHOOSE v \in 0..31 : DataAlphabet[v + 1] = symbol]

CapitalLetters ==
  <<"A", "B", "C", "D", "E", "F", "G", "H", "I", "J", "K", "L", "M",
    "N", "O", "P", "Q", "R", "S", "T", "U", "V", "W", "X", "Y", "Z">>
SmallLetters ==
  <<"a", "b", "c", "d", "e", "f", "g", "h", "i", "j", "k", "l", "m",
    "n", "o", "p", "q", "r", "s", "t", "u", "v", "w", "x", "y", "z">>
Letters == ToSet(CapitalLetters)
Capital == [symbol \in ToSet(SmallLetters) |->
              CapitalLetters[CHOOSE i \in 1..26 : SmallLetters[i] = symbol]]
Small == [symbol \in Letters |->
            SmallLetters[CHOOSE i \in 1..26 : CapitalLetters[i] = symbol]]

\* toUpperCase, toLowerCase
UpperCase(text) ==
  [i \in DOMAIN text |-> IF text[i] \in DOMAIN Capital THEN Capital[text[i]] ELSE text[i]]
LowerCase(text) ==
  [i \in DOMAIN text |-> IF text[i] \in DOMAIN Small THEN Small[text[i]] ELSE text[i]]

\* for (const item of list): the state after the last round.
Loop(round, start, list) ==
  LET state[i \in 0..Len(list)] ==
        IF i = 0 THEN start ELSE round[state[i - 1]][list[i]]
  IN state[Len(list)]

Modulus == 37
RandomRadix == 32
SequentialRadix == 10

\* Mutant: the modulus of the data alphabet.
NextRemainderOfRadix(radix, remainder, value) == (remainder * radix + value) % radix

\* One round of the loop over the payload.
NextRemainder(radix, remainder, value) == (remainder * radix + value) % Modulus

\* calculateReferenceCheckSymbol, calculateSequentialCheckSymbol: payload holds
\* symbols of the data alphabet, or digits.
CalculateCheckSymbol(radix, payload) ==
  CheckAlphabet[1 + Loop([r \in 0..Modulus - 1 |-> [c \in DataSymbols |->
                            NextRemainder(radix, r, ValueOf[c])]], 0, payload)]
=============================================================================
