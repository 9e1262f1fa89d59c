----------------------------- MODULE IntegerWords -----------------------------
(***************************************************************************)
(* How an integer travels: Input.integer of native/aphid_nif.zig splits it  *)
(* into two machine words, aphid_value_make of native/bridge.cpp checks     *)
(* them against the declared type and narrows them to what the engine       *)
(* stores, aphid_value_inspect widens that to two words again, and          *)
(* Result.integer reads them back.                                          *)
(*                                                                         *)
(* A word has Base values (2^64), Half of which have the sign bit clear.    *)
(* `limit` of a type is 2^(bits-1) for signed, 2^bits for unsigned and      *)
(* 10^precision for decimal types; `store` is the limit of the signed       *)
(* type that a decimal is stored in, 0 if that is INT128.                   *)
(***************************************************************************)
EXTENDS Integers

CONSTANT Half
ASSUME HalfAssumption == Half \in Nat \ {0}

Base == 2 * Half
Word == 0..(Base - 1)
Pair == [low: Word, high: Word]

\* Two words as an unsigned number, and the number of these.
Join(pair) == Base * pair.high + pair.low
Wide == Base * Base
Split(n) == [low |-> n % Base, high |-> n \div Base]

Classes == {"signed", "unsigned", "int128", "uint128", "decimal"}

\* What the narrowing switch may rely on, for the types that the engine has.
IntegerTypes ==
  {t \in [class: Classes, limit: Nat, store: Nat] :
     /\ t.class = "signed" => t.limit \in 1..Half
     /\ t.class = "unsigned" => t.limit \in 1..Base
     /\ t.class = "decimal" => /\ t.limit \in 1..(Half * Base)
                               /\ t.store = 0 \/ (t.limit <= t.store /\ t.store <= Half)}

TakesUnsigned(t) == t.class \in {"unsigned", "uint128"}

-----------------------------------------------------------------------------
(* Input: from the integer to words. *)

\* The second word of a sign-extended number.
SignWord(n) == IF n < 0 THEN Base - 1 ELSE 0

\* Two's complement of two words.
Negated(n) == (Wide - n) % Wide

\* One word, signed or not, is taken directly, the others by their magnitude.
PairOf(v) ==
  IF -Half <= v /\ v < Half THEN [low |-> v % Base, high |-> SignWord(v)]
  ELSE IF 0 <= v /\ v < Base THEN [low |-> v, high |-> 0]
  ELSE Split(IF v < 0 THEN Negated(-v) ELSE v)

\* Which integers the NIF converts at all.
Converts(t, v) ==
  IF TakesUnsigned(t) THEN 0 <= v /\ v < Wide ELSE -(Half * Base) <= v /\ v < Half * Base

\* signed_number: the low word, if the high word only extends its sign.
SignedWord(w) == IF w < Half THEN w ELSE w - Base
IsSigned(pair) == pair.high = SignWord(SignedWord(pair.low))

Magnitude(pair) == IF pair.high < Half THEN Join(pair) ELSE Negated(Join(pair))

InSigned(pair, limit) ==
  IsSigned(pair) /\ -limit <= SignedWord(pair.low) /\ SignedWord(pair.low) < limit

\* Fault: the sign of the high word is not compared.
MakesTruncated(t, pair) ==
  CASE t.class = "signed" -> -t.limit <= SignedWord(pair.low) /\ SignedWord(pair.low) < t.limit
    [] t.class = "unsigned" -> pair.high = 0 /\ pair.low < t.limit
    [] t.class \in {"int128", "uint128"} -> TRUE
    [] t.class = "decimal" -> Magnitude(pair) < t.limit

\* What aphid_value_make accepts.
Makes(t, pair) ==
  CASE t.class = "signed" -> InSigned(pair, t.limit)
    [] t.class = "unsigned" -> pair.high = 0 /\ pair.low < t.limit
    [] t.class \in {"int128", "uint128"} -> TRUE
    [] t.class = "decimal" -> /\ Magnitude(pair) < t.limit
                              /\ t.store # 0 => InSigned(pair, t.store)

\* Whether the engine stores one signed word, and what it stores.
OneSigned(t) == t.class = "signed" \/ (t.class = "decimal" /\ t.store # 0)
Stored(t, pair) == IF OneSigned(t) THEN SignedWord(pair.low)
                   ELSE IF t.class = "unsigned" THEN pair.low
                   ELSE pair

-----------------------------------------------------------------------------
(* Output: from words to the integer. *)

\* aphid_value_inspect
Inspected(t, stored) ==
  IF OneSigned(t) THEN [low |-> stored % Base, high |-> SignWord(stored)]
  ELSE IF t.class = "unsigned" THEN [low |-> stored, high |-> 0]
  ELSE stored

\* Result.integer
NumberOf(pair, signed) ==
  IF signed /\ pair.high >= Half THEN -Negated(Join(pair)) ELSE Join(pair)

Returned(t, stored) == NumberOf(Inspected(t, stored), ~TakesUnsigned(t))

-----------------------------------------------------------------------------
(* What the types promise. *)

InRange(t, v) ==
  CASE t.class = "signed" -> -t.limit <= v /\ v < t.limit
    [] t.class = "unsigned" -> 0 <= v /\ v < t.limit
    [] t.class = "int128" -> -(Half * Base) <= v /\ v < Half * Base
    [] t.class = "uint128" -> 0 <= v /\ v < Wide
    [] t.class = "decimal" -> -t.limit < v /\ v < t.limit

Accepted(t, v) == Converts(t, v) /\ Makes(t, PairOf(v))
================================================================================
