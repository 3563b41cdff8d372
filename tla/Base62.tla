------------------------------- MODULE Base62 -------------------------------
(***************************************************************************)
(* pkg/base62: the positional codec of short codes, over an alphabet in    *)
(* shuffled order.  A code is a sequence of characters.                    *)
(***************************************************************************)
EXTENDS Integers, Sequences

CONSTANTS
  Alphabet,   \* the characters, at the place of their digit
  Word        \* 2^64: uint64 arithmetic is modulo Word

ASSUME AlphabetAssumption ==
  /\ Len(Alphabet) \in Nat \ {0, 1}
  /\ \A i, j \in 1 .. Len(Alphabet) : Alphabet[i] = Alphabet[j] => i = j
ASSUME WordAssumption == Word \in Nat \ {0}

Base == Len(Alphabet)

Digit == 0 .. Base - 1
Char(d) == Alphabet[d + 1]
Known(c) == \E d \in Digit : Char(d) = c
DigitOf(c) == CHOOSE d \in Digit : Char(d) = c

(* The digits of a positive number; buf is filled from its end. *)
Written[num \in Nat] ==
  IF num = 0 THEN <<>> ELSE Append(Written[num \div Base], Char(num % Base))

(* Mutant: the lowest digit is skipped. *)
EncodeHigh(num) == IF num = 0 THEN <<Char(0)>> ELSE Written[num \div Base]

(* Mutant: the slice of buf starts one character early. *)
EncodeEarly(num) == IF num = 0 THEN <<Char(0)>> ELSE <<Char(0)>> \o Written[num]

Encode(num) == IF num = 0 THEN <<Char(0)>> ELSE Written[num]

Invalid == [err |-> TRUE, num |-> 0]

(* A character outside the alphabet is an error; larger numbers wrap. *)
Decode(str) ==
  LET num[i \in 0 .. Len(str)] ==
        IF i = 0 THEN 0 ELSE (num[i - 1] * Base + DigitOf(str[i])) % Word
  IN IF \A i \in DOMAIN str : Known(str[i]) THEN [err |-> FALSE, num |-> num[Len(str)]]
     ELSE Invalid
=============================================================================
