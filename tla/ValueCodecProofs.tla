-------------------------- MODULE ValueCodecProofs --------------------------
(***************************************************************************)
(* Proofs about ValueCodec, for words of every even size and for parameter *)
(* maps of every shape: that integers survive, that native values are freed *)
(* once, that a limit is the limit of all the values together, and that an *)
(* error names the place of its value.                                     *)
(***************************************************************************)
EXTENDS ValueCodec, SequenceTheorems, FiniteSetTheorems, WellFoundedInduction, TLAPS

-----------------------------------------------------------------------------
(* Integers. *)

\* Division with remainder.
LEMMA Division ==
  ASSUME NEW b \in Nat \ {0}, NEW n \in Int
  PROVE  /\ n \div b \in Int /\ n % b \in 0..(b - 1)
         /\ n = (b * (n \div b)) + (n % b)
BY SMTT(30)

\* A number below b * k has a quotient below k.
LEMMA Quotient ==
  ASSUME NEW b \in Nat \ {0}, NEW n \in Nat, NEW k \in Nat, n < b * k
  PROVE  n \div b \in 0..(k - 1)
<1> DEFINE q == n \div b
           r == n % b
<1>1. q \in Int /\ r \in 0..(b - 1) /\ n = (b * q) + r
  BY Division
<1> HIDE DEF q, r
<1>2. q < k
  <2> SUFFICES ASSUME q >= k PROVE FALSE BY <1>1
  <2>1. b * q >= b * k BY <1>1, SMTT(30)
  <2> QED BY <1>1, <2>1, SMTT(30)
<1>3. q >= 0
  <2> SUFFICES ASSUME q <= -1 PROVE FALSE BY <1>1
  <2>1. b * q <= b * (-1) BY <1>1, SMTT(30)
  <2> QED BY <1>1, <2>1, SMTT(30)
<1> QED BY <1>1, <1>2, <1>3 DEF q

\* The remainder of a number that is already in range, and of one just below it.
LEMMA SmallRemainder ==
  ASSUME NEW b \in Nat \ {0}, NEW n \in 0..(b - 1)
  PROVE  n % b = n /\ (n - b) % b = n
<1>1. ASSUME NEW m \in Int, m = n \/ m = n - b PROVE m % b = n
  <2> DEFINE q == m \div b
             r == m % b
  <2>1. q \in Int /\ r \in 0..(b - 1) /\ m = (b * q) + r
    BY Division
  <2> HIDE DEF q, r
  <2> DEFINE e == IF m = n THEN q ELSE q + 1
  <2>2. e \in Int /\ n = (b * e) + r
    <3>1. b * (q + 1) = (b * q) + b BY <2>1, SMTT(30)
    <3> QED BY <1>1, <2>1, <3>1
  <2> HIDE DEF e
  <2>3. e = 0
    <3>1. CASE e >= 1
      <4>1. b * e >= b BY <2>2, <3>1, SMTT(30)
      <4> QED BY <2>1, <2>2, <4>1
    <3>2. CASE e <= -1
      <4>1. b * e <= -b BY <2>2, <3>2, SMTT(30)
      <4> QED BY <2>1, <2>2, <4>1
    <3> QED BY <2>2, <3>1, <3>2
  <2>4. b * e = 0 BY <2>3, SMTT(30)
  <2>5. r = n BY <2>1, <2>2, <2>4
  <2> QED BY <2>5 DEF r
<1> QED BY <1>1

\* The sizes in one place: Double is the number of signed pairs of one sign.
Double == Half * Base

LEMMA Sizes ==
  /\ Half \in Nat \ {0} /\ Base \in Nat \ {0} /\ Base = 2 * Half
  /\ Double \in Nat \ {0} /\ Wide \in Nat \ {0} /\ Wide = 2 * Double
  /\ Base <= Double /\ Wide = Base * Base
<1>1. Half \in Nat /\ Half >= 1 /\ Base \in Nat /\ Base >= 2 /\ Base = 2 * Half
  BY HalfAssumption DEF Base
<1>2. Double \in Nat /\ Base <= Double
  <2> HIDE DEF Base
  <2>1. Half * Base >= 1 * Base BY <1>1, SMTT(30)
  <2> QED BY <1>1, <2>1, SMTT(30) DEF Double
<1>3. Wide = 2 * Double
  BY <1>1, SMTT(30) DEF Wide, Double, Base
<1> QED BY <1>1, <1>2, <1>3 DEF Wide

\* Joining what was split.
LEMMA SplitJoin ==
  ASSUME NEW n \in 0..(Wide - 1)
  PROVE  Split(n) \in Pair /\ Join(Split(n)) = n
<1>0. n \in Nat /\ n < Base * Base BY Sizes
<1>1. n \div Base \in 0..(Base - 1) BY <1>0, Sizes, Quotient
<1>2. n % Base \in 0..(Base - 1) /\ n = (Base * (n \div Base)) + (n % Base)
  <2>1. n \in Int /\ Base \in Nat \ {0} BY Sizes
  <2> QED BY <2>1, Division
<1> QED BY <1>1, <1>2 DEF Split, Join, Pair, Word

\* A pair of words stays below Wide, and its high word says in which half it is.
LEMMA JoinRange ==
  ASSUME NEW pair \in Pair
  PROVE  /\ Join(pair) \in 0..(Wide - 1)
         /\ pair.high < Half <=> Join(pair) < Double
<1> DEFINE h == pair.high
           l == pair.low
<1>1. h \in 0..(Base - 1) /\ l \in 0..(Base - 1) BY DEF Pair, Word
<1>2. Join(pair) = (Base * h) + l BY DEF Join
<1> HIDE DEF h, l
<1>3. Base * h \in Nat /\ Base * h <= Base * (Base - 1) BY <1>1, Sizes, SMTT(30)
<1>4. Base * (Base - 1) = Wide - Base BY Sizes, SMTT(30)
<1>5. CASE h < Half
  <2>1. Base * h <= Base * (Half - 1) BY <1>1, <1>5, Sizes, SMTT(30)
  <2>2. Base * (Half - 1) = Double - Base BY Sizes, SMTT(30) DEF Double
  <2>3. Join(pair) < Double BY <1>1, <1>2, <1>3, <2>1, <2>2, Sizes
  <2> QED BY <1>1, <1>2, <1>3, <1>4, <1>5, <2>3, Sizes DEF h
<1>6. CASE h >= Half
  <2>1. Base * h >= Base * Half BY <1>1, <1>6, Sizes, SMTT(30)
  <2>2. Base * Half = Double BY Sizes, SMTT(30) DEF Double
  <2>3. Join(pair) >= Double BY <1>1, <1>2, <1>3, <2>1, <2>2, Sizes
  <2> QED BY <1>1, <1>2, <1>3, <1>4, <1>6, <2>3, Sizes DEF h
<1> QED BY <1>1, <1>5, <1>6, Sizes

\* Two's complement of a magnitude.
LEMMA Negation ==
  ASSUME NEW m \in 1..(Wide - 1)
  PROVE  Negated(m) = Wide - m
<1>1. Wide - m \in 0..(Wide - 1) BY Sizes
<1> QED BY <1>1, Sizes, SmallRemainder DEF Negated

\* What every integer that the NIF converts becomes: its two's complement.
LEMMA TwosComplement ==
  ASSUME NEW v \in Int, -Double <= v, v < Wide
  PROVE  /\ PairOf(v) \in Pair
         /\ Join(PairOf(v)) = IF v < 0 THEN v + Wide ELSE v
<1>1. CASE 0 <= v /\ v < Base
  <2>1. v % Base = v BY <1>1, Sizes, SmallRemainder
  <2>2. PairOf(v) = [low |-> v, high |-> 0] BY <1>1, <2>1, Sizes DEF PairOf, SignWord
  <2>3. Base * 0 = 0 BY Sizes, SMTT(30)
  <2> QED BY <1>1, <2>2, <2>3, Sizes DEF Join, Pair, Word
<1>2. CASE -Half <= v /\ v < 0
  <2>1. v + Base \in 0..(Base - 1) /\ (v + Base) - Base = v BY <1>2, Sizes
  <2>2. v % Base = v + Base BY <2>1, Sizes, SmallRemainder
  <2>3. PairOf(v) = [low |-> v + Base, high |-> Base - 1]
    BY <1>2, <2>2, Sizes DEF PairOf, SignWord
  <2>4. Base * (Base - 1) = Wide - Base BY Sizes, SMTT(30)
  <2> QED BY <1>2, <2>1, <2>3, <2>4, Sizes DEF Join, Pair, Word
<1>3. CASE v >= Base
  <2>1. PairOf(v) = Split(v) BY <1>3, Sizes DEF PairOf
  <2> QED BY <1>3, <2>1, SplitJoin, Sizes
<1>4. CASE v < -Half
  <2>1. PairOf(v) = Split(Negated(-v)) BY <1>4, Sizes DEF PairOf
  <2>2. -v \in 1..(Wide - 1) /\ Wide - (-v) = v + Wide /\ v + Wide \in 0..(Wide - 1)
    BY <1>4, Sizes
  <2>3. Negated(-v) = v + Wide BY <2>2, Negation
  <2> QED BY <1>4, <2>1, <2>2, <2>3, SplitJoin, Sizes
<1> QED BY <1>1, <1>2, <1>3, <1>4, Sizes

\* Reading two's complement back, in either interpretation.
LEMMA Reading ==
  ASSUME NEW v \in Int, NEW pair \in Pair,
         -Double <= v, v < Wide, Join(pair) = IF v < 0 THEN v + Wide ELSE v
  PROVE  /\ v >= 0 => NumberOf(pair, FALSE) = v
         /\ v < Double => NumberOf(pair, TRUE) = v
         /\ v < Double => Magnitude(pair) = IF v < 0 THEN -v ELSE v
<1>1. v >= 0 => NumberOf(pair, FALSE) = v BY DEF NumberOf
<1>2. CASE v < 0
  <2>1. Join(pair) \in 1..(Wide - 1) /\ Join(pair) >= Double BY <1>2, Sizes
  <2>2. pair.high >= Half /\ ~(pair.high < Half) BY <2>1, JoinRange, Sizes DEF Pair, Word
  <2>3. Negated(Join(pair)) = -v BY <1>2, <2>1, Negation, Sizes
  <2> QED BY <1>1, <1>2, <2>2, <2>3 DEF NumberOf, Magnitude
<1>3. CASE v >= 0 /\ v < Double
  <2>1. pair.high < Half /\ ~(pair.high >= Half) BY <1>3, JoinRange, Sizes DEF Pair, Word
  <2> QED BY <1>1, <1>3, <2>1 DEF NumberOf, Magnitude
<1>4. CASE ~(v < Double) BY <1>1, <1>4
<1>5. v < 0 \/ (v >= 0 /\ v < Double) \/ ~(v < Double) BY Sizes
<1> QED BY <1>2, <1>3, <1>4, <1>5

\* signed_number succeeds exactly for the integers of one signed word, and returns them.
LEMMA SignedNumber ==
  ASSUME NEW v \in Int, -Double <= v, v < Double
  PROVE  /\ IsSigned(PairOf(v)) <=> -Half <= v /\ v < Half
         /\ IsSigned(PairOf(v)) => SignedWord(PairOf(v).low) = v
<1> DEFINE pair == PairOf(v)
           h == pair.high
           l == pair.low
<1>1. /\ h \in 0..(Base - 1) /\ l \in 0..(Base - 1)
      /\ (Base * h) + l = IF v < 0 THEN v + Wide ELSE v
  BY TwosComplement, Sizes DEF Pair, Word, Join
<1>2. CASE -Half <= v /\ v < Half
  <2>1. CASE v >= 0
    <3>1. v % Base = v BY <1>2, <2>1, Sizes, SmallRemainder
    <3>2. pair = [low |-> v, high |-> 0] BY <1>2, <2>1, <3>1, Sizes DEF PairOf, SignWord
    <3> QED BY <1>2, <2>1, <3>2, Sizes DEF IsSigned, SignedWord, SignWord
  <2>2. CASE v < 0
    <3>1. v + Base \in 0..(Base - 1) /\ (v + Base) - Base = v BY <1>2, <2>2, Sizes
    <3>2. v % Base = v + Base BY <3>1, Sizes, SmallRemainder
    <3>3. pair = [low |-> v + Base, high |-> Base - 1]
      BY <1>2, <2>2, <3>2, Sizes DEF PairOf, SignWord
    <3> QED BY <1>2, <2>2, <3>3, Sizes DEF IsSigned, SignedWord, SignWord
  <2> QED BY <2>1, <2>2
<1>3. ASSUME v < -Half \/ v >= Half, IsSigned(pair) PROVE FALSE
  <2> HIDE DEF pair
  <2>1. SignedWord(l) \in Int /\ (SignedWord(l) < 0 <=> l >= Half)
    BY <1>1, Sizes DEF SignedWord
  <2>2. CASE l < Half
    <3>1. h = 0 BY <1>3, <2>1, <2>2, <1>1, Sizes DEF IsSigned, SignWord
    <3>2. Base * h = 0 BY <3>1, Sizes, SMTT(30)
    <3> QED BY <1>1, <1>3, <2>2, <3>2, Sizes
  <2>3. CASE l >= Half
    <3>1. h = Base - 1 BY <1>3, <2>1, <2>3, <1>1, Sizes DEF IsSigned, SignWord
    <3>2. Base * h = Wide - Base BY <3>1, Sizes, SMTT(30)
    <3> QED BY <1>1, <1>3, <2>3, <3>2, Sizes
  <2> QED BY <1>1, <2>2, <2>3, Sizes
<1> QED BY <1>2, <1>3, Sizes

-----------------------------------------------------------------------------
(* The round trip, by class of type. *)

\* A stored signed word is inspected as the two's complement it came from.
LEMMA SignedInspected ==
  ASSUME NEW v \in Int, -Half <= v, v < Half
  PROVE  NumberOf([low |-> v % Base, high |-> SignWord(v)], TRUE) = v
<1>1. -Double <= v /\ v < Double /\ v < Wide BY Sizes
<1>2. PairOf(v) = [low |-> v % Base, high |-> SignWord(v)] BY DEF PairOf
<1> QED BY <1>1, <1>2, TwosComplement, Reading

LEMMA SignedRoundTrip ==
  ASSUME NEW v \in Int, NEW limit \in 1..Half, -Double <= v, v < Double
  PROVE  /\ InSigned(PairOf(v), limit) <=> -limit <= v /\ v < limit
         /\ InSigned(PairOf(v), limit) =>
              LET n == SignedWord(PairOf(v).low)
              IN n = v /\ NumberOf([low |-> n % Base, high |-> SignWord(n)], TRUE) = v
<1>1. InSigned(PairOf(v), limit) <=> -limit <= v /\ v < limit
  BY SignedNumber, Sizes DEF InSigned
<1>2. ASSUME InSigned(PairOf(v), limit)
      PROVE  SignedWord(PairOf(v).low) = v /\ -Half <= v /\ v < Half
  BY <1>2, SignedNumber, Sizes DEF InSigned
<1> QED BY <1>1, <1>2, SignedInspected

LEMMA UnsignedRoundTrip ==
  ASSUME NEW v \in Int, NEW limit \in 1..Base, 0 <= v, v < Wide
  PROVE  LET pair == PairOf(v)
         IN /\ pair.high = 0 /\ pair.low < limit <=> v < limit
            /\ pair.high = 0 /\ pair.low < limit =>
                 NumberOf([low |-> pair.low, high |-> 0], FALSE) = v
<1> DEFINE pair == PairOf(v)
           h == pair.high
           l == pair.low
<1>1. h \in 0..(Base - 1) /\ l \in 0..(Base - 1) /\ (Base * h) + l = v
  BY TwosComplement, Sizes DEF Pair, Word, Join
<1>2. h = 0 <=> v < Base
  <2> HIDE DEF h, l
  <2>1. CASE h = 0
    <3>1. Base * h = 0 BY <2>1, Sizes, SMTT(30)
    <3> QED BY <1>1, <2>1, <3>1, Sizes
  <2>2. CASE h >= 1
    <3>1. Base * h >= Base BY <1>1, <2>2, Sizes, SMTT(30)
    <3> QED BY <1>1, <2>2, <3>1, Sizes
  <2> QED BY <1>1, <2>1, <2>2
<1>3. h = 0 => l = v
  <2> HIDE DEF h, l
  <2>1. h = 0 => Base * h = 0 BY Sizes, SMTT(30)
  <2> QED BY <1>1, <2>1, Sizes
<1>4. ASSUME h = 0 PROVE NumberOf([low |-> l, high |-> 0], FALSE) = v
  <2>1. Base * 0 = 0 BY Sizes, SMTT(30)
  <2> QED BY <1>1, <1>3, <1>4, <2>1 DEF NumberOf, Join
<1> HIDE DEF h, l
<1>5. h = 0 /\ l < limit => v < limit
  BY <1>3
<1>6. v < limit => h = 0 /\ l < limit
  BY <1>2, <1>3, Sizes
<1> QED BY <1>4, <1>5, <1>6 DEF h, l

\* For every integer type and every word size: an integer is accepted if and only if it is
\* in the range of its declared type, and then exactly this integer comes back, whatever
\* sign extension, narrowing and two's complement did to it on the way (Input.integer,
\* aphid_value_make, aphid_value_inspect, Result.integer).
THEOREM IntegersSurvive ==
  \A t \in IntegerTypes, v \in Int :
    /\ Accepted(t, v) <=> InRange(t, v)
    /\ Accepted(t, v) => Returned(t, Stored(t, PairOf(v))) = v
<1> SUFFICES ASSUME NEW t \in IntegerTypes, NEW v \in Int
             PROVE  /\ Accepted(t, v) <=> InRange(t, v)
                    /\ Accepted(t, v) => Returned(t, Stored(t, PairOf(v))) = v
  OBVIOUS
<1>0. Half * Base = Double BY DEF Double
<1>1. CASE t.class = "signed"
  <2>1. t.limit \in 1..Half BY <1>1 DEF IntegerTypes
  <2>2. InRange(t, v) <=> -t.limit <= v /\ v < t.limit BY <1>1 DEF InRange
  <2>3. Accepted(t, v) <=> -Double <= v /\ v < Double /\ InSigned(PairOf(v), t.limit)
    BY <1>0, <1>1 DEF Accepted, Converts, Makes, TakesUnsigned
  <2>4. Returned(t, Stored(t, PairOf(v))) =
          LET n == SignedWord(PairOf(v).low)
          IN NumberOf([low |-> n % Base, high |-> SignWord(n)], TRUE)
    BY <1>1 DEF Returned, Stored, Inspected, OneSigned, TakesUnsigned
  <2>5. t.limit <= Double BY <2>1, Sizes
  <2>6. -Double <= v /\ v < Double =>
          /\ InSigned(PairOf(v), t.limit) <=> -t.limit <= v /\ v < t.limit
          /\ InSigned(PairOf(v), t.limit) => Returned(t, Stored(t, PairOf(v))) = v
    BY <2>1, <2>4, SignedRoundTrip
  <2>7. -t.limit <= v /\ v < t.limit => -Double <= v /\ v < Double
    BY <2>1, <2>5, Sizes
  <2> QED BY <2>2, <2>3, <2>6, <2>7
<1>2. CASE t.class = "unsigned"
  <2>1. t.limit \in 1..Base BY <1>2 DEF IntegerTypes
  <2>2. InRange(t, v) <=> 0 <= v /\ v < t.limit BY <1>2 DEF InRange
  <2>3. Accepted(t, v) <=> 0 <= v /\ v < Wide /\ PairOf(v).high = 0 /\ PairOf(v).low < t.limit
    BY <1>2 DEF Accepted, Converts, Makes, TakesUnsigned
  <2>4. Returned(t, Stored(t, PairOf(v))) = NumberOf([low |-> PairOf(v).low, high |-> 0], FALSE)
    BY <1>2 DEF Returned, Stored, Inspected, OneSigned, TakesUnsigned
  <2>5. 0 <= v /\ v < Wide =>
          /\ PairOf(v).high = 0 /\ PairOf(v).low < t.limit <=> v < t.limit
          /\ PairOf(v).high = 0 /\ PairOf(v).low < t.limit => Returned(t, Stored(t, PairOf(v))) = v
    BY <2>1, <2>4, UnsignedRoundTrip
  <2>6. v < t.limit => v < Wide
    BY <2>1, Sizes
  <2> QED BY <2>2, <2>3, <2>5, <2>6
<1>3. CASE t.class = "int128"
  <2>1. Accepted(t, v) <=> -Double <= v /\ v < Double
    BY <1>0, <1>3 DEF Accepted, Converts, Makes, TakesUnsigned
  <2>2. InRange(t, v) <=> -Double <= v /\ v < Double BY <1>0, <1>3 DEF InRange
  <2>3. Returned(t, Stored(t, PairOf(v))) = NumberOf(PairOf(v), TRUE)
    BY <1>3 DEF Returned, Stored, Inspected, OneSigned, TakesUnsigned
  <2>4. v < Double => v < Wide BY Sizes
  <2>5. -Double <= v /\ v < Double => NumberOf(PairOf(v), TRUE) = v
    BY <2>4, TwosComplement, Reading
  <2> QED BY <2>1, <2>2, <2>3, <2>5
<1>4. CASE t.class = "uint128"
  <2>1. Accepted(t, v) <=> 0 <= v /\ v < Wide
    BY <1>4 DEF Accepted, Converts, Makes, TakesUnsigned
  <2>2. InRange(t, v) <=> 0 <= v /\ v < Wide BY <1>4 DEF InRange
  <2>3. Returned(t, Stored(t, PairOf(v))) = NumberOf(PairOf(v), FALSE)
    BY <1>4 DEF Returned, Stored, Inspected, OneSigned, TakesUnsigned
  <2>4. 0 <= v => -Double <= v BY Sizes
  <2>5. 0 <= v /\ v < Wide => NumberOf(PairOf(v), FALSE) = v
    BY <2>4, TwosComplement, Reading
  <2> QED BY <2>1, <2>2, <2>3, <2>5
<1>5. CASE t.class = "decimal"
  <2>1. t.limit \in 1..Double /\ (t.store # 0 => t.store \in 1..Half /\ t.limit <= t.store)
    BY <1>0, <1>5, Sizes DEF IntegerTypes
  <2>2. InRange(t, v) <=> -t.limit < v /\ v < t.limit BY <1>5 DEF InRange
  <2>3. Accepted(t, v) <=> /\ -Double <= v /\ v < Double /\ Magnitude(PairOf(v)) < t.limit
                           /\ t.store # 0 => InSigned(PairOf(v), t.store)
    BY <1>0, <1>5 DEF Accepted, Converts, Makes, TakesUnsigned
  <2>4. v < Double => v < Wide BY Sizes
  <2>5. -Double <= v /\ v < Double =>
          /\ Magnitude(PairOf(v)) = IF v < 0 THEN -v ELSE v
          /\ NumberOf(PairOf(v), TRUE) = v
    BY <2>4, TwosComplement, Reading
  <2>6. -t.limit < v /\ v < t.limit => -Double <= v /\ v < Double
    BY <2>1, Sizes
  <2>7. (IF v < 0 THEN -v ELSE v) < t.limit <=> -t.limit < v /\ v < t.limit
    BY <2>1, Sizes
  <2>8. Accepted(t, v) => InRange(t, v)
    BY <2>2, <2>3, <2>5, <2>7
  <2>9. CASE t.store = 0
    <3>1. Returned(t, Stored(t, PairOf(v))) = NumberOf(PairOf(v), TRUE)
      BY <1>5, <2>9 DEF Returned, Stored, Inspected, OneSigned, TakesUnsigned
    <3>2. InRange(t, v) => Accepted(t, v)
      BY <2>2, <2>3, <2>5, <2>6, <2>7, <2>9
    <3> QED BY <2>3, <2>5, <2>8, <3>1, <3>2
  <2>10. CASE t.store # 0
    <3>1. Returned(t, Stored(t, PairOf(v))) =
            LET n == SignedWord(PairOf(v).low)
            IN NumberOf([low |-> n % Base, high |-> SignWord(n)], TRUE)
      BY <1>5, <2>10 DEF Returned, Stored, Inspected, OneSigned, TakesUnsigned
    <3>2. -Double <= v /\ v < Double =>
            /\ InSigned(PairOf(v), t.store) <=> -t.store <= v /\ v < t.store
            /\ InSigned(PairOf(v), t.store) => Returned(t, Stored(t, PairOf(v))) = v
      BY <2>1, <2>10, <3>1, SignedRoundTrip
    <3>3. -t.limit < v /\ v < t.limit => -t.store <= v /\ v < t.store
      BY <2>1, <2>10, Sizes
    <3>4. InRange(t, v) => Accepted(t, v)
      BY <2>2, <2>3, <2>5, <2>6, <2>7, <3>2, <3>3
    <3> QED BY <2>3, <2>8, <2>10, <3>2, <3>4
  <2> QED BY <2>9, <2>10
<1> QED BY <1>1, <1>2, <1>3, <1>4, <1>5 DEF IntegerTypes, Classes

-----------------------------------------------------------------------------
(* Sums over finite sets. *)

\* What MapThenSumSet adds up, for numbers given by a function.
Total(f) == MapThenSumSet(LAMBDA x : f[x], DOMAIN f)

\* g is the recursive function in it.
Chosen(s) == CHOOSE x \in s : TRUE
Adds(f, g) ==
  g = [s \in SUBSET DOMAIN f |-> IF s = {} THEN 0 ELSE f[Chosen(s)] + g[s \ {Chosen(s)}]]

\* Induction over the subsets of a finite set: of the sets that are not as they should be,
\* one is smallest.
LEMMA Smallest ==
  ASSUME NEW S, IsFiniteSet(S), NEW Bad \in SUBSET SUBSET S, Bad # {}
  PROVE  \E s \in Bad : \A x \in s : s \ {x} \notin Bad
<1> DEFINE sizes == {Cardinality(s) : s \in Bad}
<1>1. \A s \in SUBSET S : IsFiniteSet(s) /\ Cardinality(s) \in Nat
  BY FS_Subset, FS_CardinalityType
<1>2. sizes \in SUBSET Nat /\ sizes # {} BY <1>1
<1>3. IsWellFoundedOn(OpToRel(<, Nat), Nat) BY NatLessThanWellFounded
<1> HIDE DEF sizes
<1>4. PICK n \in sizes : \A k \in sizes : <<k, n>> \notin OpToRel(<, Nat)
  BY <1>2, <1>3, WFMin
<1>5. \A k \in sizes : ~(k < n) BY <1>2, <1>4 DEF OpToRel
<1>6. PICK s \in Bad : n = Cardinality(s) BY DEF sizes
<1>7. ASSUME NEW x \in s PROVE s \ {x} \notin Bad
  <2>1. Cardinality(s \ {x}) = n - 1 /\ n \in Nat BY <1>1, <1>6, FS_RemoveElement
  <2>2. s \ {x} \in Bad => n - 1 \in sizes BY <2>1 DEF sizes
  <2> QED BY <1>5, <2>1, <2>2
<1> QED BY <1>7

\* The recursive function exists.
LEMMA AddsExists ==
  ASSUME NEW f, IsFiniteSet(DOMAIN f)
  PROVE  \E g : Adds(f, g)
<1> DEFINE S == DOMAIN f
           Step(g, s) == IF s = {} THEN 0 ELSE f[Chosen(s)] + g[s \ {Chosen(s)}]
           UpTo(n, g) == \A s \in SUBSET S : Cardinality(s) <= n => g[s] = Step(g, s)
           Bad == {n \in Nat : ~ \E g : UpTo(n, g)}
<1>1. \A s \in SUBSET S :
        IsFiniteSet(s) /\ Cardinality(s) \in Nat /\ Cardinality(s) <= Cardinality(S)
  BY FS_Subset, FS_CardinalityType
<1>2. Bad = {}
  <2> SUFFICES ASSUME Bad # {} PROVE FALSE OBVIOUS
  <2>1. IsWellFoundedOn(OpToRel(<, Nat), Nat) BY NatLessThanWellFounded
  <2>2. PICK n \in Bad : \A k \in Bad : <<k, n>> \notin OpToRel(<, Nat)
    <3> HIDE DEF UpTo
    <3>1. Bad \in SUBSET Nat OBVIOUS
    <3> HIDE DEF Bad
    <3> QED BY <2>1, <3>1, WFMin
  <2>3. n \in Nat /\ \A k \in Nat : k < n => \E g : UpTo(k, g)
    <3> HIDE DEF UpTo
    <3> QED BY <2>2 DEF OpToRel
  <2>4. CASE n = 0
    <3> DEFINE g == [s \in SUBSET S |-> 0]
    <3>1. \A s \in SUBSET S : Cardinality(s) <= 0 => s = {}
      BY <1>1, FS_EmptySet
    <3>2. UpTo(0, g) BY <3>1
    <3> QED BY <2>4, <3>2
  <2>5. CASE n # 0
    <3>1. n - 1 \in Nat /\ n - 1 < n BY <2>3, <2>5
    <3>2. PICK g : UpTo(n - 1, g)
      <4> HIDE DEF UpTo
      <4> QED BY <2>3, <3>1
    <3> DEFINE h == [s \in SUBSET S |-> Step(g, s)]
    <3>3. ASSUME NEW s \in SUBSET S, Cardinality(s) <= n PROVE h[s] = Step(h, s)
      <4>1. CASE s = {} BY <4>1
      <4>2. CASE s # {}
        <5>1. Chosen(s) \in s BY <4>2 DEF Chosen
        <5> DEFINE r == s \ {Chosen(s)}
        <5>2. r \in SUBSET S /\ Cardinality(r) <= n - 1
          <6>1. IsFiniteSet(s) /\ Cardinality(s) \in Nat BY <1>1
          <6>2. Cardinality(r) = Cardinality(s) - 1 BY <5>1, <6>1, FS_RemoveElement
          <6> QED BY <2>3, <3>3, <6>1, <6>2
        <5>3. g[r] = Step(g, r) BY <3>2, <5>2
        <5>4. h[r] = g[r] BY <5>2, <5>3
        <5>5. h[s] = Step(g, s) OBVIOUS
        <5> QED BY <4>2, <5>4, <5>5
      <4> QED BY <4>1, <4>2
    <3>4. UpTo(n, h)
      <4> HIDE DEF h
      <4> QED BY <3>3
    <3> QED BY <3>4
  <2> QED BY <2>4, <2>5
<1>3. Cardinality(S) \in Nat BY <1>1
<1>4. PICK g : UpTo(Cardinality(S), g)
  <2> HIDE DEF UpTo
  <2> QED BY <1>2, <1>3
<1>5. \A s \in SUBSET S : g[s] = Step(g, s) BY <1>1, <1>4
<1> DEFINE h == [s \in SUBSET S |-> g[s]]
<1>6. \A s \in SUBSET S : s \ {Chosen(s)} \in SUBSET S OBVIOUS
<1>7. h = [s \in SUBSET S |-> Step(h, s)] BY <1>5, <1>6
<1> QED BY <1>7 DEF Adds

\* Where two functions agree, so do their sums.
LEMMA AddsAgree ==
  ASSUME NEW f, NEW g, NEW f1, NEW g1, IsFiniteSet(DOMAIN f), DOMAIN f = DOMAIN f1,
         Adds(f, g), Adds(f1, g1),
         NEW R \in SUBSET DOMAIN f, \A x \in R : f[x] = f1[x]
  PROVE  g[R] = g1[R]
<1> DEFINE Bad == {s \in SUBSET R : g[s] # g1[s]}
<1>1. SUFFICES ASSUME Bad # {} PROVE FALSE OBVIOUS
<1>2. IsFiniteSet(R) BY FS_Subset
<1>3. PICK s \in Bad : \A x \in s : s \ {x} \notin Bad
  <2>1. Bad \in SUBSET SUBSET R OBVIOUS
  <2> HIDE DEF Bad
  <2> QED BY <1>1, <1>2, <2>1, Smallest
<1>4. s \in SUBSET DOMAIN f /\ s \subseteq R OBVIOUS
<1>5. /\ g[s] = IF s = {} THEN 0 ELSE f[Chosen(s)] + g[s \ {Chosen(s)}]
      /\ g1[s] = IF s = {} THEN 0 ELSE f1[Chosen(s)] + g1[s \ {Chosen(s)}]
  BY <1>4 DEF Adds
<1>6. s # {} => Chosen(s) \in s BY DEF Chosen
<1>7. s # {} => g[s \ {Chosen(s)}] = g1[s \ {Chosen(s)}] BY <1>3, <1>4, <1>6
<1> QED BY <1>4, <1>5, <1>6, <1>7

\* Sums of numbers are numbers.
LEMMA AddsType ==
  ASSUME NEW S, IsFiniteSet(S), NEW f \in [S -> Nat], NEW g, Adds(f, g), NEW s \in SUBSET S
  PROVE  g[s] \in Nat
<1> DEFINE Bad == {r \in SUBSET S : g[r] \notin Nat}
<1>1. SUFFICES ASSUME Bad # {} PROVE FALSE OBVIOUS
<1>2. PICK r \in Bad : \A x \in r : r \ {x} \notin Bad
  <2>1. Bad \in SUBSET SUBSET S OBVIOUS
  <2> HIDE DEF Bad
  <2> QED BY <1>1, <2>1, Smallest
<1>3. r \in SUBSET S /\ g[r] \notin Nat BY <1>2
<1>4. \A x \in r : g[r \ {x}] \in Nat /\ f[x] \in Nat BY <1>2, <1>3
<1>5. g[r] = IF r = {} THEN 0 ELSE f[Chosen(r)] + g[r \ {Chosen(r)}]
  BY <1>3 DEF Adds
<1>6. r # {} => Chosen(r) \in r BY DEF Chosen
<1> HIDE DEF Bad
<1> QED BY <1>3, <1>4, <1>5, <1>6

\* The order does not matter.
LEMMA AddsAny ==
  ASSUME NEW S, IsFiniteSet(S), NEW f \in [S -> Nat], NEW g, Adds(f, g), NEW s \in SUBSET S,
         NEW x \in s
  PROVE  g[s] = f[x] + g[s \ {x}]
<1> DEFINE Bad == {r \in SUBSET S : \E y \in r : g[r] # f[y] + g[r \ {y}]}
<1>1. SUFFICES ASSUME Bad # {} PROVE FALSE OBVIOUS
<1>2. PICK r \in Bad : \A y \in r : r \ {y} \notin Bad
  <2>1. Bad \in SUBSET SUBSET S OBVIOUS
  <2> HIDE DEF Bad
  <2> QED BY <1>1, <2>1, Smallest
<1>3. r \in SUBSET S BY <1>2
<1>4. PICK y \in r : g[r] # f[y] + g[r \ {y}] BY <1>2
<1>5. \A z \in r : \A w \in r \ {z} : g[r \ {z}] = f[w] + g[(r \ {z}) \ {w}]
  BY <1>2, <1>3
<1> HIDE DEF Bad
<1> DEFINE c == Chosen(r)
           rest == (r \ {c}) \ {y}
<1>6. c \in r /\ g[r] = f[c] + g[r \ {c}]
  <2>1. c \in r BY <1>4 DEF Chosen
  <2> QED BY <1>3, <2>1 DEF Adds
<1> HIDE DEF c
<1>7. c # y BY <1>4, <1>6
<1>8. g[r \ {c}] = f[y] + g[rest] BY <1>4, <1>5, <1>6, <1>7
<1>9. g[r \ {y}] = f[c] + g[rest]
  <2>1. (r \ {y}) \ {c} = rest OBVIOUS
  <2> HIDE DEF rest
  <2> QED BY <1>4, <1>5, <1>6, <1>7, <2>1
<1>10. f[y] \in Nat /\ f[c] \in Nat BY <1>3, <1>4, <1>6
<1>11. g[rest] \in Nat BY <1>3, AddsType
<1> HIDE DEF rest
<1> QED BY <1>4, <1>6, <1>8, <1>9, <1>10, <1>11

\* What Total is.
LEMMA TotalAdds ==
  ASSUME NEW f, IsFiniteSet(DOMAIN f)
  PROVE  \E g : Adds(f, g) /\ Total(f) = g[DOMAIN f]
<1> DEFINE g == CHOOSE h : h = [s \in SUBSET DOMAIN f |->
                                  IF s = {} THEN 0 ELSE f[CHOOSE x \in s : TRUE]
                                                        + h[s \ {CHOOSE x \in s : TRUE}]]
<1>1. Total(f) = g[DOMAIN f] BY DEF Total, MapThenSumSet, MapThenFoldSet
<1>2. Adds(f, g) BY AddsExists DEF Adds, Chosen
<1> QED BY <1>1, <1>2

LEMMA TotalType ==
  ASSUME NEW S, IsFiniteSet(S), NEW f \in [S -> Nat]
  PROVE  Total(f) \in Nat
<1>1. PICK g : Adds(f, g) /\ Total(f) = g[DOMAIN f] BY TotalAdds
<1> QED BY <1>1, AddsType

\* If one number changes, the total does by as much.
LEMMA TotalChange ==
  ASSUME NEW S, IsFiniteSet(S), NEW f \in [S -> Nat], NEW f1 \in [S -> Nat], NEW x \in S,
         \A y \in S \ {x} : f1[y] = f[y]
  PROVE  Total(f1) + f[x] = Total(f) + f1[x]
<1>1. PICK g : Adds(f, g) /\ Total(f) = g[DOMAIN f] BY TotalAdds
<1>2. PICK g1 : Adds(f1, g1) /\ Total(f1) = g1[DOMAIN f1] BY TotalAdds
<1>3. DOMAIN f = S /\ DOMAIN f1 = S /\ S \ {x} \in SUBSET S OBVIOUS
<1>4. g[S] = f[x] + g[S \ {x}] /\ g[S \ {x}] \in Nat BY <1>1, <1>3, AddsAny, AddsType
<1>5. g1[S] = f1[x] + g1[S \ {x}] BY <1>2, <1>3, AddsAny
<1>6. g1[S \ {x}] = g[S \ {x}] BY <1>1, <1>2, <1>3, AddsAgree
<1>7. f[x] \in Nat /\ f1[x] \in Nat OBVIOUS
<1> QED BY <1>1, <1>2, <1>3, <1>4, <1>5, <1>6, <1>7

\* A sum is larger than another by what its numbers are larger, at least.
LEMMA TotalGrows ==
  ASSUME NEW S, IsFiniteSet(S), NEW f \in [S -> Nat], NEW f1 \in [S -> Nat],
         NEW R \in SUBSET S, NEW n \in Nat,
         \A x \in S : f[x] <= f1[x], \A x \in R : f[x] + n <= f1[x]
  PROVE  Total(f) + n * Cardinality(R) <= Total(f1)
<1> DEFINE Mix(s) == [x \in S |-> IF x \in s THEN f1[x] ELSE f[x]]
           Bad == {s \in SUBSET S : ~(Total(f) + n * Cardinality(R \cap s) <= Total(Mix(s)))}
<1>1. \A s : Mix(s) \in [S -> Nat] OBVIOUS
<1>2. \A s : IsFiniteSet(R \cap s) /\ Cardinality(R \cap s) \in Nat
  BY FS_Subset, FS_CardinalityType
<1>3. Bad = {}
  <2> SUFFICES ASSUME Bad # {} PROVE FALSE OBVIOUS
  <2>1. PICK s \in Bad : \A x \in s : s \ {x} \notin Bad
    <3>1. Bad \in SUBSET SUBSET S OBVIOUS
    <3> HIDE DEF Bad
    <3> QED BY <3>1, Smallest
  <2>2. s \in SUBSET S /\ ~(Total(f) + n * Cardinality(R \cap s) <= Total(Mix(s)))
    BY <2>1
  <2>3. \A x \in s : Total(f) + n * Cardinality(R \cap (s \ {x})) <= Total(Mix(s \ {x}))
    <3> HIDE DEF Mix
    <3> QED BY <2>1, <2>2
  <2> HIDE DEF Bad
  <2>4. Total(f) \in Nat BY TotalType
  <2>5. CASE s = {}
    <3>1. Mix(s) = f BY <2>5
    <3>2. Cardinality(R \cap s) = 0 BY <2>5, FS_EmptySet
    <3> HIDE DEF Mix
    <3> QED BY <2>2, <2>4, <3>1, <3>2
  <2>6. CASE s # {}
    <3>0. \A k \in Nat : n * k \in Nat OBVIOUS
    <3>1. PICK x \in s : TRUE BY <2>6
    <3> DEFINE r == s \ {x}
    <3>2. x \in S BY <2>2
    <3>3. /\ Mix(s)[x] = f1[x] /\ Mix(r)[x] = f[x]
          /\ \A y \in S \ {x} : Mix(s)[y] = Mix(r)[y]
      BY <3>2
    <3>4. Mix(s) \in [S -> Nat] /\ Mix(r) \in [S -> Nat] BY <1>1
    <3>5. Total(f) + n * Cardinality(R \cap r) <= Total(Mix(r)) BY <2>3
    <3>6. R \cap r = (R \cap s) \ {x} OBVIOUS
    <3> HIDE DEF Mix, r
    <3>7. Total(Mix(s)) + f[x] = Total(Mix(r)) + f1[x] BY <3>2, <3>3, <3>4, TotalChange
    <3>8. Total(Mix(s)) \in Nat /\ Total(Mix(r)) \in Nat /\ f[x] \in Nat /\ f1[x] \in Nat
      BY <3>2, <3>4, TotalType
    <3>9. CASE x \in R
      <4>1. Cardinality(R \cap r) = Cardinality(R \cap s) - 1
        <5>1. IsFiniteSet(R \cap s) /\ x \in R \cap s BY <1>2, <3>1, <3>9
        <5>2. ASSUME NEW T, IsFiniteSet(T), x \in T PROVE Cardinality(T \ {x}) = Cardinality(T) - 1
          BY <5>2, FS_RemoveElement
        <5>3. Cardinality((R \cap s) \ {x}) = Cardinality(R \cap s) - 1 BY <5>1, <5>2, Zenon
        <5> QED BY <3>6, <5>3
      <4>2. n * (Cardinality(R \cap s) - 1) = n * Cardinality(R \cap s) - n
        <5>1. \A k \in Nat : n * (k - 1) = n * k - n OBVIOUS
        <5> QED BY <1>2, <5>1
      <4>3. n * Cardinality(R \cap s) \in Nat BY <1>2, <3>0
      <4>4. f[x] + n <= f1[x] BY <3>9
      <4> QED BY <2>2, <2>4, <3>5, <3>7, <3>8, <4>1, <4>2, <4>3, <4>4
    <3>10. CASE x \notin R
      <4>1. R \cap r = R \cap s BY <3>6, <3>10
      <4>2. n * Cardinality(R \cap s) \in Nat BY <1>2, <3>0
      <4>3. n * Cardinality(R \cap r) = n * Cardinality(R \cap s) BY <4>1
      <4>4. f[x] <= f1[x] BY <3>2
      <4> QED BY <2>2, <2>4, <3>5, <3>7, <3>8, <4>2, <4>3, <4>4
    <3> QED BY <3>9, <3>10
  <2> QED BY <2>5, <2>6
<1>4. S \in SUBSET S /\ R \cap S = R OBVIOUS
<1>5. Mix(S) = f1 OBVIOUS
<1>6. S \notin Bad BY <1>3
<1> HIDE DEF Mix
<1> QED BY <1>4, <1>5, <1>6

\* Nothing adds up to nothing.
LEMMA TotalOfNothing ==
  ASSUME NEW S, IsFiniteSet(S), NEW f, DOMAIN f = S, \A x \in S : f[x] = 0
  PROVE  Total(f) = 0
<1>1. PICK g : Adds(f, g) /\ Total(f) = g[S] BY TotalAdds
<1> DEFINE Bad == {s \in SUBSET S : g[s] # 0}
<1>2. ASSUME Bad # {} PROVE FALSE
  <2>1. PICK s \in Bad : \A x \in s : s \ {x} \notin Bad
    <3>1. Bad \in SUBSET SUBSET S OBVIOUS
    <3> HIDE DEF Bad
    <3> QED BY <1>2, <3>1, Smallest
  <2>2. s \in SUBSET S /\ g[s] # 0 BY <2>1
  <2>3. g[s] = IF s = {} THEN 0 ELSE f[Chosen(s)] + g[s \ {Chosen(s)}]
    BY <1>1, <2>2 DEF Adds
  <2>4. s # {} => Chosen(s) \in s BY DEF Chosen
  <2>5. \A x \in s : f[x] = 0 /\ g[s \ {x}] = 0 BY <2>1, <2>2
  <2> HIDE DEF Bad
  <2> QED BY <2>2, <2>3, <2>4, <2>5
<1>3. S \in SUBSET S OBVIOUS
<1>4. S \notin Bad BY <1>2
<1> QED BY <1>1, <1>3, <1>4

-----------------------------------------------------------------------------
(* The tree of the parameters. *)

Paths == Seq(Nat)

\* p comes before c in the order of the walk, and is not an ancestor of it.
Before(p, c) ==
  \E k \in 1..Len(c) : /\ k <= Len(p) /\ p[k] < c[k]
                       /\ \A i \in 1..(k - 1) : p[i] = c[i]

\* p is q, or an ancestor of it.
Above(p, q) == Len(p) <= Len(q) /\ \A i \in 1..Len(p) : p[i] = q[i]

LEMMA Appending ==
  ASSUME NEW p \in Paths, NEW n \in Nat
  PROVE  /\ Append(p, n) \in Paths /\ Len(Append(p, n)) = Len(p) + 1
         /\ Append(p, n)[Len(p) + 1] = n
         /\ \A i \in 1..Len(p) : Append(p, n)[i] = p[i]
<1> QED BY AppendProperties DEF Paths

LEMMA Cutting ==
  ASSUME NEW p \in Paths, NEW k \in 0..Len(p)
  PROVE  /\ SubSeq(p, 1, k) \in Paths /\ Len(SubSeq(p, 1, k)) = k
         /\ \A i \in 1..k : SubSeq(p, 1, k)[i] = p[i]
<1>1. Len(p) \in Nat /\ k \in Int BY LenProperties DEF Paths
<1>2. \A i \in 1..k : p[i] \in Nat BY <1>1, ElementOfSeq DEF Paths
<1> QED BY <1>1, <1>2, SubSeqProperties DEF Paths

\* Where two paths differ.
LEMMA SamePath ==
  ASSUME NEW p \in Paths, NEW q \in Paths, Len(p) = Len(q), \A i \in 1..Len(p) : p[i] = q[i]
  PROVE  p = q
<1> QED BY SeqEqual DEF Paths

LEMMA PrefixIsAbove ==
  ASSUME NEW p \in Paths, NEW q \in Paths
  PROVE  IsPrefix(p, q) <=> Above(p, q)
<1>1. Len(p) \in Nat /\ Len(q) \in Nat BY LenProperties DEF Paths
<1>2. CASE Len(p) <= Len(q)
  <2>1. /\ SubSeq(q, 1, Len(p)) \in Paths /\ Len(SubSeq(q, 1, Len(p))) = Len(p)
        /\ \A i \in 1..Len(p) : SubSeq(q, 1, Len(p))[i] = q[i]
    BY <1>1, <1>2, Cutting
  <2>2. (\A i \in 1..Len(p) : p[i] = q[i]) => p = SubSeq(q, 1, Len(p)) BY <2>1, SamePath
  <2> QED BY <1>2, <2>1, <2>2 DEF IsPrefix, Above
<1> QED BY <1>1, <1>2 DEF IsPrefix, Above

\* The last step of a path and the rest.
LEMMA LastStep ==
  ASSUME NEW p \in Paths, p # <<>>
  PROVE  /\ Len(p) \in Nat \ {0} /\ Parent(p) \in Paths /\ Len(Parent(p)) = Len(p) - 1
         /\ \A i \in 1..(Len(p) - 1) : Parent(p)[i] = p[i]
         /\ Last(p) \in Nat /\ Last(p) = p[Len(p)] /\ p = Append(Parent(p), Last(p))
<1>1. Len(p) \in Nat \ {0} BY EmptySeq DEF Paths
<1>2. /\ Parent(p) \in Paths /\ Len(Parent(p)) = Len(p) - 1
      /\ \A i \in 1..(Len(p) - 1) : Parent(p)[i] = p[i]
  <2>1. Len(p) - 1 \in 0..Len(p) BY <1>1
  <2> QED BY <2>1, Cutting DEF Parent
<1>3. Last(p) \in Nat /\ Last(p) = p[Len(p)] BY <1>1, ElementOfSeq DEF Last, Paths
<1>4. /\ Append(Parent(p), Last(p)) \in Paths /\ Len(Append(Parent(p), Last(p))) = Len(p)
      /\ Append(Parent(p), Last(p))[Len(p)] = Last(p)
      /\ \A i \in 1..(Len(p) - 1) : Append(Parent(p), Last(p))[i] = p[i]
  BY <1>1, <1>2, <1>3, Appending
<1>5. p = Append(Parent(p), Last(p))
  <2> DEFINE q == Append(Parent(p), Last(p))
  <2>1. \A i \in 1..Len(p) : p[i] = q[i] BY <1>1, <1>3, <1>4
  <2> HIDE DEF q
  <2>2. p = q BY <1>4, <2>1, SamePath DEF q
  <2> QED BY <2>2 DEF q
<1> QED BY <1>1, <1>2, <1>3, <1>5

LEMMA AppendParent ==
  ASSUME NEW p \in Paths, NEW n \in Nat
  PROVE  /\ Append(p, n) # <<>> /\ Parent(Append(p, n)) = p /\ Last(Append(p, n)) = n
<1> DEFINE q == Append(p, n)
<1>1. Len(p) \in Nat BY LenProperties DEF Paths
<1>2. /\ q \in Paths /\ Len(q) = Len(p) + 1 /\ q[Len(p) + 1] = n
      /\ \A i \in 1..Len(p) : q[i] = p[i]
  BY Appending
<1>3. q # <<>> BY <1>1, <1>2, EmptySeq DEF Paths
<1> HIDE DEF q
<1>4. /\ Parent(q) \in Paths /\ Len(Parent(q)) = Len(p)
      /\ \A i \in 1..Len(p) : Parent(q)[i] = p[i]
  <2>1. Len(q) - 1 = Len(p) BY <1>1, <1>2
  <2> QED BY <1>2, <1>3, <2>1, LastStep
<1>5. Parent(q) = p BY <1>4, SamePath
<1> QED BY <1>2, <1>3, <1>5 DEF Last, q

\* What is after an entry comes after what is before the container, and after the entries
\* in front of it.
LEMMA AppendOrder ==
  ASSUME NEW p \in Paths, NEW c \in Paths, NEW n \in Nat
  PROVE  Before(p, Append(c, n)) <=>
           Before(p, c) \/ (Above(c, p) /\ Len(c) < Len(p) /\ p[Len(c) + 1] < n)
<1> DEFINE d == Append(c, n)
<1>1. Len(p) \in Nat /\ Len(c) \in Nat BY LenProperties DEF Paths
<1>2. /\ d \in Paths /\ Len(d) = Len(c) + 1 /\ d[Len(c) + 1] = n
      /\ \A i \in 1..Len(c) : d[i] = c[i]
  BY Appending
<1> HIDE DEF d
<1>3. ASSUME Before(p, c) PROVE Before(p, d)
  <2>1. PICK k \in 1..Len(c) : /\ k <= Len(p) /\ p[k] < c[k]
                               /\ \A i \in 1..(k - 1) : p[i] = c[i]
    BY <1>3 DEF Before
  <2>2. k \in 1..Len(d) /\ d[k] = c[k] /\ \A i \in 1..(k - 1) : d[i] = c[i] BY <1>1, <1>2
  <2> QED BY <2>1, <2>2 DEF Before
<1>4. ASSUME Above(c, p), Len(c) < Len(p), p[Len(c) + 1] < n PROVE Before(p, d)
  <2>1. \A i \in 1..Len(c) : p[i] = d[i] BY <1>2, <1>4 DEF Above
  <2> QED BY <1>1, <1>2, <1>4, <2>1 DEF Before
<1>5. ASSUME Before(p, d)
      PROVE  Before(p, c) \/ (Above(c, p) /\ Len(c) < Len(p) /\ p[Len(c) + 1] < n)
  <2>1. PICK k \in 1..Len(d) : /\ k <= Len(p) /\ p[k] < d[k]
                               /\ \A i \in 1..(k - 1) : p[i] = d[i]
    BY <1>5 DEF Before
  <2>2. CASE k <= Len(c)
    <3>1. k \in 1..Len(c) /\ d[k] = c[k] /\ \A i \in 1..(k - 1) : d[i] = c[i]
      BY <1>1, <1>2, <2>2
    <3> QED BY <2>1, <3>1 DEF Before
  <2>3. CASE k = Len(c) + 1
    <3>1. \A i \in 1..Len(c) : p[i] = c[i] BY <1>1, <1>2, <2>1, <2>3
    <3> QED BY <1>1, <1>2, <2>1, <2>3, <3>1 DEF Above
  <2> QED BY <1>1, <1>2, <2>2, <2>3
<1> QED BY <1>3, <1>4, <1>5 DEF d

LEMMA BeforeRoot ==
  ASSUME NEW p \in Paths
  PROVE  ~Before(p, <<>>) /\ Above(<<>>, p)
<1>1. Len(p) \in Nat /\ Len(<<>>) = 0 BY LenProperties, EmptySeq DEF Paths
<1> QED BY <1>1 DEF Before, Above

\* Everything that is not the value v itself is either done before and after it, or not.
LEMMA AfterValue ==
  ASSUME NEW p \in Paths, NEW v \in Paths, v # <<>>
  PROVE  Before(p, Append(Parent(v), Last(v) + 1)) <=> Before(p, v) \/ Above(v, p)
<1> DEFINE c == Parent(v)
           n == Last(v)
<1>1. /\ Len(v) \in Nat \ {0} /\ c \in Paths /\ Len(c) = Len(v) - 1
      /\ \A i \in 1..(Len(v) - 1) : c[i] = v[i]
      /\ n \in Nat /\ n = v[Len(v)] /\ v = Append(c, n)
  BY LastStep
<1>2. Len(p) \in Nat BY LenProperties DEF Paths
<1> HIDE DEF c, n
<1>3. Before(p, Append(c, n + 1)) <=>
        Before(p, c) \/ (Above(c, p) /\ Len(c) < Len(p) /\ p[Len(c) + 1] < n + 1)
  <2>1. n + 1 \in Nat BY <1>1
  <2> QED BY <1>1, <2>1, AppendOrder
<1>4. Before(p, v) <=> Before(p, c) \/ (Above(c, p) /\ Len(c) < Len(p) /\ p[Len(c) + 1] < n)
  BY <1>1, AppendOrder
<1>5. Above(v, p) <=> Above(c, p) /\ Len(c) < Len(p) /\ p[Len(c) + 1] = n
  <2>1. ASSUME Above(c, p), Len(c) < Len(p), p[Len(c) + 1] = n PROVE Above(v, p)
    <3>1. \A i \in 1..Len(v) : p[i] = v[i] BY <1>1, <2>1 DEF Above
    <3> QED BY <1>1, <1>2, <2>1, <3>1 DEF Above
  <2>2. ASSUME Above(v, p) PROVE Above(c, p) /\ Len(c) < Len(p) /\ p[Len(c) + 1] = n
    BY <1>1, <1>2, <2>2 DEF Above
  <2> QED BY <2>1, <2>2
<1>6. Len(c) < Len(p) => p[Len(c) + 1] \in Nat
  <2>1. Len(c) < Len(p) => Len(c) + 1 \in 1..Len(p) BY <1>1, <1>2
  <2> QED BY <2>1, ElementOfSeq DEF Paths
<1>7. Len(c) < Len(p) => (p[Len(c) + 1] < n + 1 <=> p[Len(c) + 1] < n \/ p[Len(c) + 1] = n)
  BY <1>1, <1>6
<1>8. Before(p, Append(c, n + 1)) <=> Before(p, v) \/ Above(v, p) BY <1>3, <1>4, <1>5, <1>7
<1> QED BY <1>8 DEF c, n

LEMMA NotBeforeItself ==
  ASSUME NEW p \in Paths, NEW c \in Paths, Above(p, c)
  PROVE  ~Before(p, c)
<1>1. SUFFICES ASSUME NEW k \in 1..Len(c), k <= Len(p), p[k] < c[k] PROVE FALSE BY DEF Before
<1>2. Len(p) \in Nat /\ Len(c) \in Nat BY LenProperties DEF Paths
<1>3. k \in 1..Len(p) BY <1>1, <1>2
<1>4. p[k] = c[k] /\ c[k] \in Nat BY <1>3, ElementOfSeq DEF Above, Paths
<1> QED BY <1>1, <1>4

\* The tree that the callers pass.
LEMMA TreeShape ==
  ASSUME tree \in Inputs
  PROVE  /\ DOMAIN tree \subseteq Paths /\ IsFiniteSet(DOMAIN tree)
         /\ <<>> \in DOMAIN tree /\ tree[<<>>].kind = "params"
         /\ \A p \in DOMAIN tree :
              /\ \A k \in 0..Len(p) : SubSeq(p, 1, k) \in DOMAIN tree
              /\ Children(p) \in Nat
              /\ ChildrenOf(p) = {Append(p, i) : i \in 0..(Children(p) - 1)}
              /\ p # <<>> => tree[p].kind \in Containers \cup Leaves
              /\ tree[p].kind \in Leaves => ChildrenOf(p) = {}
              /\ tree[p].kind = "map" => Children(p) % 2 = 0
              /\ tree[p].kind = "number" =>
                   tree[p].type \in IntegerTypes /\ tree[p].value \in Int
              /\ tree[p].kind = "text" => tree[p].size \in Nat
<1> DEFINE B(p) == {q \in DOMAIN tree : q # <<>> /\ Parent(q) = p}
<1>1. IsInput(tree) BY InputsAssumption
<1>2. /\ DOMAIN tree \subseteq Seq(Nat) /\ IsFiniteSet(DOMAIN tree)
      /\ <<>> \in DOMAIN tree /\ tree[<<>>].kind = "params"
      /\ \A p \in DOMAIN tree :
           /\ \A k \in 0..Len(p) : SubSeq(p, 1, k) \in DOMAIN tree
           /\ B(p) = {Append(p, i) : i \in 0..(Cardinality(B(p)) - 1)}
           /\ p # <<>> => tree[p].kind \in Containers \cup Leaves
           /\ tree[p].kind \in Leaves => B(p) = {}
           /\ tree[p].kind = "map" => Cardinality(B(p)) % 2 = 0
           /\ tree[p].kind = "number" => tree[p].type \in IntegerTypes /\ tree[p].value \in Int
           /\ tree[p].kind = "text" => tree[p].size \in Nat
  BY <1>1 DEF IsInput
<1>3. \A p : ChildrenOf(p) = B(p) /\ Children(p) = Cardinality(B(p))
  BY DEF ChildrenOf, Children
<1>4. \A p : B(p) \subseteq DOMAIN tree OBVIOUS
<1> HIDE DEF B
<1>5. \A p : IsFiniteSet(B(p)) /\ Cardinality(B(p)) \in Nat
  BY <1>2, <1>4, FS_Subset, FS_CardinalityType
<1> QED BY <1>2, <1>3, <1>5 DEF Paths

LEMMA ChildExists ==
  ASSUME tree \in Inputs, NEW p \in DOMAIN tree, NEW i \in Nat
  PROVE  Append(p, i) \in DOMAIN tree <=> i < Children(p)
<1>1. /\ p \in Paths /\ Children(p) \in Nat
      /\ ChildrenOf(p) = {Append(p, j) : j \in 0..(Children(p) - 1)}
  BY TreeShape
<1>2. i < Children(p) => Append(p, i) \in DOMAIN tree
  <2>1. i < Children(p) => Append(p, i) \in ChildrenOf(p) BY <1>1
  <2> QED BY <2>1 DEF ChildrenOf
<1>3. ASSUME Append(p, i) \in DOMAIN tree PROVE i < Children(p)
  <2>1. Append(p, i) # <<>> /\ Parent(Append(p, i)) = p /\ Last(Append(p, i)) = i
    BY <1>1, AppendParent
  <2>2. Append(p, i) \in ChildrenOf(p) BY <1>3, <2>1 DEF ChildrenOf
  <2>3. PICK j \in 0..(Children(p) - 1) : Append(p, i) = Append(p, j) BY <1>1, <2>2
  <2>4. Last(Append(p, j)) = j BY <1>1, AppendParent
  <2>5. i = j BY <2>1, <2>3, <2>4
  <2> QED BY <1>1, <2>5
<1> QED BY <1>2, <1>3

LEMMA ParentExists ==
  ASSUME tree \in Inputs, NEW p \in DOMAIN tree, p # <<>>
  PROVE  /\ Parent(p) \in DOMAIN tree /\ p \in ChildrenOf(Parent(p))
         /\ Last(p) < Children(Parent(p))
         /\ tree[Parent(p)].kind \notin Leaves
         /\ Parent(p) # <<>> => tree[Parent(p)].kind \in Containers
<1>1. p \in Paths BY TreeShape
<1>2. /\ Len(p) \in Nat \ {0} /\ Parent(p) \in Paths /\ Last(p) \in Nat
      /\ p = Append(Parent(p), Last(p))
  BY <1>1, LastStep
<1>3. Parent(p) \in DOMAIN tree
  <2>1. Len(p) - 1 \in 0..Len(p) BY <1>2
  <2> QED BY <2>1, TreeShape DEF Parent
<1>4. p \in ChildrenOf(Parent(p)) BY DEF ChildrenOf
<1>5. Last(p) < Children(Parent(p)) BY <1>2, <1>3, ChildExists
<1> QED BY <1>3, <1>4, <1>5, TreeShape

\* Inside a value: in one of its children.
LEMMA Inside ==
  ASSUME tree \in Inputs, NEW p \in DOMAIN tree, NEW v \in DOMAIN tree, Above(v, p), p # v
  PROVE  /\ Len(v) < Len(p) /\ p[Len(v) + 1] \in Nat /\ p[Len(v) + 1] < Children(v)
         /\ tree[v].kind \notin Leaves
<1> DEFINE k == Len(v) + 1
           q == SubSeq(p, 1, k)
<1>1. p \in Paths /\ v \in Paths BY TreeShape
<1>2. Len(p) \in Nat /\ Len(v) \in Nat BY <1>1, LenProperties DEF Paths
<1>3. Len(v) < Len(p)
  <2>1. Len(v) # Len(p) BY <1>1, <1>2, SamePath DEF Above
  <2> QED BY <1>2, <2>1 DEF Above
<1>4. k \in 0..Len(p) /\ k \in 1..Len(p) BY <1>2, <1>3
<1>5. q \in DOMAIN tree BY <1>4, TreeShape
<1>6. q \in Paths /\ Len(q) = k /\ \A i \in 1..k : q[i] = p[i] BY <1>1, <1>4, Cutting
<1> HIDE DEF q
<1>7. q # <<>> BY <1>2, <1>6, EmptySeq
<1>8. /\ Parent(q) \in Paths /\ Len(Parent(q)) = k - 1
      /\ \A i \in 1..(k - 1) : Parent(q)[i] = q[i]
      /\ Last(q) = q[k]
  BY <1>6, <1>7, LastStep
<1>9. Parent(q) = v
  <2>1. \A i \in 1..Len(v) : Parent(q)[i] = v[i] BY <1>2, <1>6, <1>8 DEF Above
  <2> QED BY <1>1, <1>2, <1>8, <2>1, SamePath
<1>10. Last(q) < Children(v) /\ tree[v].kind \notin Leaves BY <1>5, <1>7, <1>9, ParentExists
<1>11. q[k] = p[k] /\ p[k] \in Nat BY <1>1, <1>2, <1>4, <1>6, ElementOfSeq DEF Paths
<1> QED BY <1>3, <1>8, <1>10, <1>11

-----------------------------------------------------------------------------
(* The inductive invariant. *)

\* No step of the converter follows but giving up.
Stopped == {"unwind", "failed"}

\* The value that is converted next, or the end of the container.
Cursor == IF pc = "enter" THEN at ELSE Append(at, next)
Done(p) == Before(p, Cursor)
Values == DOMAIN tree \ {<<>>}
Numbers == {p \in DOMAIN tree : tree[p].kind = "number"}

\* Where the converter is, for each of its steps.
WalkInv ==
  /\ fault # "none" <=> pc \in Stopped
  /\ pc \notin Stopped \cup {"enter", "child"} => at = <<>> /\ next <= Children(<<>>)
  /\ pc \in {"enter", "child"} => at # <<>>
  /\ pc = "child" =>
       tree[at].kind \in Containers /\ Depth <= MaxDepth /\ next <= Children(at)
  /\ pc = "add" => next > 0
  /\ pc \in {"accepted", "done"} => next = Children(<<>>)
  /\ pc \in {"convert", "add", "accepted"} => dir = "in"
  /\ pc \in {"column", "done"} => dir = "out"
  /\ pc # "row"

\* A number that is done is stored as it was given, and comes back so.
Settled(p) == /\ InRange(tree[p].type, tree[p].value) /\ p \in DOMAIN stored
              /\ stored[p] = Stored(tree[p].type, PairOf(tree[p].value))
NumberInv ==
  /\ fault = "integer" => ~InRange(tree[at].type, tree[at].value)
  /\ dir = "in" /\ pc \notin Stopped => \A p \in Numbers : Done(p) => Settled(p)
  /\ dir = "out" => \A p \in Numbers : Settled(p)
  /\ dir = "out" /\ pc \notin Stopped =>
       \A p \in Numbers : Done(p) => p \in DOMAIN got /\ got[p] = tree[p].value

\* Who owns the native value of p: a frame of the converter, until its container is
\* complete; the parameters, once they are added.
Owner(p) ==
  IF ~Done(p) THEN "none"
  ELSE IF Len(p) = 1 THEN IF pc = "add" /\ p = <<next - 1>> THEN "slot" ELSE "params"
  ELSE IF Done(Parent(p)) THEN "inside" ELSE "slot"

\* What Unwind frees, and that it reaches everything that is not freed yet.
ToFree == {p \in Values : home[p] = "params" \/ (home[p] = "slot" /\ IsPrefix(Parent(p), at))}
Reached(p) ==
  /\ home[p] # "twice"
  /\ home[p] \in {"slot", "params"} => p \in ToFree
  /\ home[p] = "inside" => \E q \in ToFree : q # p /\ IsPrefix(q, p)

HomeInv ==
  /\ dir = "in" /\ pc \notin Stopped => \A p \in Values : home[p] = Owner(p)
  /\ dir = "in" /\ pc = "unwind" => \A p \in Values : Reached(p)
  /\ dir = "in" /\ pc = "failed" => \A p \in Values : home[p] \in {"none", "freed"}
  /\ dir = "out" => \A p \in Values : home[p] = IF Len(p) = 1 THEN "params" ELSE "inside"

\* q is the value that the path of an error would name now.
Named(q) == q \in Values /\ q[1] = at[1] /\ Location(q) = Reported
Located == NamesIt /\ (IsPrefix(Location(at), Reported) \/ IsPrefix(Reported, Location(at)))

\* The path leads to the value that is converted next, or is that of a value inside the
\* container that is being converted: inside its key, if the value of a pair comes next.
PathInv ==
  /\ dir = "in" /\ pc \in {"enter", "child"} =>
       \A k \in 1..(Len(at) - 1) : path[k - 1] = Location(at)[k]
  /\ dir = "in" /\ pc = "enter" => NamesIt /\ Above(Location(at), Reported)
  /\ dir = "in" /\ pc = "child" =>
       \E q \in Values : /\ Named(q) /\ Above(at, q)
                         /\ ~StartsEntry(at, next) => Above(Append(at, next - 1), q)
  /\ dir = "in" /\ pc \in Stopped /\ at # <<>> => Located

\* On output the path leads to the value that is converted next, and to the key before it,
\* though its length may be that of any value before; so an error is near its value.
Trail(p) == \A k \in 1..(Len(p) - 1) : path[k - 1] = Location(p)[k]
Near == IsPrefix(Location(at), Reported) \/ IsPrefix(Reported, Location(at))
OutPathInv ==
  dir = "out" =>
    /\ pc \in {"enter", "child"} => Trail(at)
    /\ pc = "child" /\ ~StartsEntry(at, next) => Trail(Append(at, next - 1))
    /\ pc \in Stopped /\ at # <<>> => Near

\* What the value p and n of its children that have been begun are charged.
Top(p) == IF Len(p) = 1 THEN NameCost + DescriptorCost ELSE 0
EntriesIn(p, n) == IF tree[p].kind = "map" THEN (n + 1) \div 2 ELSE n
Charged(p, n) == ValueCost + (EntriesIn(p, n) * EntryCost(tree[p])) + Top(p)

\* What has been charged for p: all of it when it is done, some of it while it is open.
Open(p) == p # <<>> /\ Above(p, at) /\ (p # at \/ pc = "child")
Begun(p) == IF p = at THEN next ELSE at[Len(p) + 1] + 1
Paid(p) == IF Done(p) THEN CostOf(p)
           ELSE IF Open(p) THEN Charged(p, Begun(p))
           ELSE IF p = at THEN Top(p) ELSE 0

\* What is gone from the budget is what has been charged, value by value; and where the
\* converter gave up at the limit, all the values together cost more than the budget.
Bill == [p \in Values |-> Paid(p)]
Prices == [p \in Values |-> CostOf(p)]
BudgetInv ==
  /\ dir = "in" /\ pc \notin Stopped => remaining + Total(Bill) = budget
  /\ dir = "in" /\ fault = "limit" => Total(Prices) > budget

Invariant == TypeOK /\ WalkInv /\ NumberInv /\ HomeInv /\ PathInv /\ OutPathInv /\ BudgetInv

-----------------------------------------------------------------------------
(* Types, and where the converter is. *)

Costs == {ValueCost, RowCost, DescriptorCost, NameCost, NameCost + DescriptorCost}

LEMMA CostsAreNumbers ==
  ASSUME TypeOK
  PROVE  /\ Costs \subseteq Nat /\ EntryCost(tree[at]) \in Nat /\ LeafCost \in Nat
<1>1. tree[at].kind = "text" => tree[at].size \in Nat BY TreeShape DEF TypeOK
<1>2. ScalarCost(tree[at]) \in Nat BY <1>1 DEF ScalarCost, NumberCost
<1> QED BY <1>2 DEF Costs, ValueCost, RowCost, DescriptorCost, NameCost, EntryCost, LeafCost, Node

LEMMA Charging ==
  ASSUME TypeOK, NEW amount \in Nat, UNCHANGED budget
  PROVE  /\ Charge(amount) => remaining' \in 0..budget'
         /\ ChargeFails(amount) =>
              /\ remaining' \in 0..budget' /\ pc' = "unwind" /\ fault' \in {"limit", "other"}
<1> QED BY DEF TypeOK, Charge, ChargeFails, Fail

\* A step that fails leaves the converter where it was.
LEMMA FailKeepsTypes ==
  ASSUME TypeOK, WalkInv, UNCHANGED <<tree, dir, walk, budget, stored, got>>,
         pc' = "unwind", fault' \in Faults \ {"none"}, remaining' \in 0..budget',
         path' \in [0..MaxDepth -> Nat], pathLen' \in 0..(MaxDepth + 1),
         home' \in [DOMAIN tree -> Homes]
  PROVE  TypeOK' /\ WalkInv'
<1>1. TypeOK' BY DEF TypeOK, Steps, walk
<1>2. WalkInv' BY DEF WalkInv, Stopped, walk, Faults
<1> QED BY <1>1, <1>2

LEMMA SameTree ==
  ASSUME UNCHANGED tree
  PROVE  \A p : Children(p)' = Children(p) /\ ChildrenOf(p)' = ChildrenOf(p)
<1> QED BY DEF Children, ChildrenOf

LEMMA Completed ==
  ASSUME TypeOK, WalkInv, Complete, pc \in {"enter", "child"}, UNCHANGED <<tree, dir>>,
         tree[at].kind \in Leaves \/ pc = "child", Depth <= MaxDepth
  PROVE  /\ at' \in DOMAIN tree' /\ next' \in Nat /\ pc' \in Steps \ Stopped
         /\ pc' # "enter"
         /\ UNCHANGED fault => WalkInv'
<1>1. at \in DOMAIN tree /\ at # <<>> /\ at \in Paths BY TreeShape DEF TypeOK, WalkInv
<1>2. /\ Len(at) \in Nat \ {0} /\ Parent(at) \in Paths /\ Len(Parent(at)) = Len(at) - 1
      /\ Last(at) \in Nat /\ at = Append(Parent(at), Last(at))
  BY <1>1, LastStep
<1>3. /\ Parent(at) \in DOMAIN tree /\ Last(at) < Children(Parent(at))
      /\ Children(Parent(at)) \in Nat
      /\ Parent(at) # <<>> => tree[Parent(at)].kind \in Containers
  BY <1>1, ParentExists, TreeShape DEF TypeOK
<1>4. Len(at) > 1 => Parent(at) # <<>> BY <1>2, EmptySeq
<1>5. Len(at) <= 1 => Parent(at) = <<>> BY <1>2, EmptySeq DEF Paths
<1>6. at' = Parent(at) /\ next' = Last(at) + 1 BY DEF Complete
<1>7. pc' = IF Len(at) > 1 THEN "child" ELSE IF dir = "in" THEN "add" ELSE "column"
  BY DEF Complete
<1>8. at' \in DOMAIN tree' /\ next' \in Nat /\ next' <= Children(at)' /\ next' > 0
  BY <1>2, <1>3, <1>6, SameTree
<1>9. pc' \in Steps \ Stopped /\ pc' # "enter" BY <1>7 DEF Steps, Stopped
<1>10. ASSUME UNCHANGED fault PROVE WalkInv'
  <2>1. fault' = "none" BY <1>10 DEF WalkInv, Stopped
  <2>2. Depth' = Depth - 1 /\ Depth \in Int BY <1>2, <1>6 DEF Depth
  <2>3. MaxDepth \in Nat BY DepthAssumption
  <2>4. dir \in {"in", "out"} BY DEF TypeOK
  <2>5. CASE Len(at) > 1
    <3>1. pc' = "child" BY <1>7, <2>5
    <3> QED BY <1>3, <1>4, <1>6, <1>8, <2>1, <2>2, <2>3, <2>5, <3>1 DEF WalkInv, Stopped
  <2>6. CASE Len(at) <= 1
    <3>1. at' = <<>> /\ pc' \in {"add", "column"} BY <1>5, <1>6, <1>7, <2>6
    <3>2. pc' = "add" => dir' = "in" BY <1>7, <2>6
    <3>3. pc' = "column" => dir' = "out" BY <1>7, <2>4, <2>6
    <3> QED BY <1>8, <2>1, <3>1, <3>2, <3>3 DEF WalkInv, Stopped
  <2> QED BY <1>2, <2>5, <2>6
<1> QED BY <1>8, <1>9, <1>10

LEMMA FreedTypes ==
  ASSUME TypeOK, NEW S
  PROVE  Freed(S) \in [DOMAIN tree -> Homes]
<1> QED BY DEF Freed, Homes, TypeOK

LEMMA CompleteKeepsTypes ==
  ASSUME TypeOK, WalkInv, Complete, pc \in {"enter", "child"}, Depth <= MaxDepth,
         tree[at].kind \in Leaves \/ pc = "child",
         UNCHANGED <<tree, dir, budget, fault>>, remaining' \in 0..budget',
         path' \in [0..MaxDepth -> Nat], pathLen' \in 0..(MaxDepth + 1),
         home' \in [DOMAIN tree -> Homes],
         DOMAIN stored' \subseteq DOMAIN tree, DOMAIN got' \subseteq DOMAIN tree
  PROVE  TypeOK' /\ WalkInv'
<1>1. /\ at' \in DOMAIN tree' /\ next' \in Nat /\ pc' \in Steps \ Stopped /\ WalkInv'
  BY Completed
<1> QED BY <1>1 DEF TypeOK

LEMMA InitTypes == Init => TypeOK /\ WalkInv
<1> SUFFICES ASSUME Init PROVE TypeOK /\ WalkInv OBVIOUS
<1>1. MaxDepth \in Nat /\ Budgets \subseteq Nat BY DepthAssumption
<1>2. <<>> \in DOMAIN tree /\ Children(<<>>) \in Nat BY TreeShape DEF Init
<1>3. DOMAIN <<>> = {} OBVIOUS
<1>4. TypeOK BY <1>1, <1>2, <1>3 DEF Init, TypeOK, Steps, Faults, Homes
<1>5. WalkInv BY <1>2 DEF Init, WalkInv, Stopped
<1> QED BY <1>4, <1>5

LEMMA TypesKept ==
  ASSUME TypeOK, WalkInv, [Next]_vars
  PROVE  TypeOK' /\ WalkInv'
<1> USE DEF Steps, Faults
<1>1. MaxDepth \in Nat /\ Budgets \subseteq Nat BY DepthAssumption
<1>2. /\ <<>> \in DOMAIN tree /\ at \in DOMAIN tree /\ at \in Paths
      /\ \A p \in DOMAIN tree : Children(p) \in Nat
  BY TreeShape DEF TypeOK
<1>3. ASSUME UNCHANGED tree
      PROVE  \A p : Children(p)' = Children(p) /\ ChildrenOf(p)' = ChildrenOf(p)
  BY <1>3, SameTree
<1>4. ASSUME TooManyParameters PROVE TypeOK' /\ WalkInv'
  <2>1. /\ UNCHANGED <<tree, dir, walk, budget, stored, got, remaining, where, home>>
        /\ pc' = "unwind" /\ fault' = "limit"
    BY <1>4 DEF TooManyParameters, Fail
  <2>2. /\ remaining' \in 0..budget' /\ path' \in [0..MaxDepth -> Nat]
        /\ pathLen' \in 0..(MaxDepth + 1) /\ home' \in [DOMAIN tree -> Homes]
    BY <2>1 DEF TypeOK, where
  <2> QED BY <2>1, <2>2, FailKeepsTypes
<1>5. ASSUME Parameter PROVE TypeOK' /\ WalkInv'
  <2>1. /\ pc = "convert" /\ dir = "in" /\ next < Children(<<>>)
        /\ pathLen' = 0 /\ UNCHANGED <<tree, dir, path, budget, home, stored, got>>
    BY <1>5 DEF Parameter
  <2>2. /\ path' \in [0..MaxDepth -> Nat] /\ pathLen' \in 0..(MaxDepth + 1)
        /\ home' \in [DOMAIN tree -> Homes]
    BY <1>1, <2>1 DEF TypeOK
  <2>3. NameCost + DescriptorCost \in Nat BY DEF NameCost, DescriptorCost
  <2>4. ASSUME Charge(NameCost + DescriptorCost), at' = <<next>>, next' = 0, pc' = "enter",
               UNCHANGED fault
        PROVE  TypeOK' /\ WalkInv'
    <3>1. remaining' \in 0..budget' BY <2>1, <2>3, <2>4, Charging
    <3>2. at' \in DOMAIN tree /\ at' # <<>>
      <4>1. <<>> \in Paths /\ <<next>> = Append(<<>>, next) /\ next \in Nat
        BY EmptySeq DEF TypeOK, Paths
      <4> QED BY <1>2, <2>1, <2>4, <4>1, ChildExists DEF TypeOK
    <3>3. TypeOK' BY <2>1, <2>2, <2>4, <3>1, <3>2 DEF TypeOK
    <3>4. WalkInv' BY <2>1, <2>4, <3>2 DEF WalkInv, Stopped
    <3> QED BY <3>3, <3>4
  <2>5. ASSUME UNCHANGED walk, pc' = "unwind", fault' \in Faults \ {"none"},
               remaining' \in 0..budget'
        PROVE  TypeOK' /\ WalkInv'
    BY <2>1, <2>2, <2>5, FailKeepsTypes
  <2>6. ASSUME ChargeFails(NameCost + DescriptorCost), UNCHANGED walk
        PROVE  TypeOK' /\ WalkInv'
    <3>1. /\ remaining' \in 0..budget' /\ pc' = "unwind" /\ fault' \in Faults \ {"none"}
      BY <2>1, <2>3, <2>6, Charging
    <3> QED BY <2>5, <2>6, <3>1
  <2>7. ASSUME Fail("conversion") \/ Fail("limit"), UNCHANGED <<walk, remaining>>
        PROVE  TypeOK' /\ WalkInv'
    <3>1. remaining' \in 0..budget' BY <2>1, <2>7 DEF TypeOK
    <3>2. pc' = "unwind" /\ fault' \in Faults \ {"none"} BY <2>7 DEF Fail
    <3> QED BY <2>5, <2>7, <3>1, <3>2
  <2> QED BY <1>5, <2>4, <2>6, <2>7 DEF Parameter
<1>6. ASSUME ParameterAdded PROVE TypeOK' /\ WalkInv'
  <2>1. /\ pc = "add" /\ UNCHANGED <<tree, dir, walk, where, budget, remaining, stored, got>>
    BY <1>6 DEF ParameterAdded
  <2>2. /\ remaining' \in 0..budget' /\ path' \in [0..MaxDepth -> Nat]
        /\ pathLen' \in 0..(MaxDepth + 1)
    BY <2>1 DEF TypeOK, where
  <2>3. ASSUME home' = [home EXCEPT ![<<next - 1>>] = "params"], pc' = "convert", UNCHANGED fault
        PROVE  TypeOK' /\ WalkInv'
    <3>1. home' \in [DOMAIN tree -> Homes] BY <2>3 DEF TypeOK, Homes
    <3>2. TypeOK' BY <2>1, <2>2, <2>3, <3>1 DEF TypeOK, walk
    <3>3. WalkInv' BY <1>3, <2>1, <2>3 DEF WalkInv, Stopped, walk
    <3> QED BY <3>2, <3>3
  <2>4. ASSUME home' = Freed({<<next - 1>>}), Fail("refused") PROVE TypeOK' /\ WalkInv'
    <3>1. home' \in [DOMAIN tree -> Homes] BY <2>4, FreedTypes
    <3>2. pc' = "unwind" /\ fault' \in Faults \ {"none"} BY <2>4 DEF Fail
    <3> QED BY <2>1, <2>2, <3>1, <3>2, FailKeepsTypes
  <2> QED BY <1>6, <2>3, <2>4 DEF ParameterAdded
<1>7. ASSUME Converted PROVE TypeOK' /\ WalkInv'
  <2>1. /\ pc = "convert" /\ next = Children(<<>>) /\ pc' = "accepted"
        /\ UNCHANGED <<tree, dir, walk, where, budget, remaining, home, stored, got, fault>>
    BY <1>7 DEF Converted
  <2>2. TypeOK' BY <2>1 DEF TypeOK, walk, where
  <2>3. WalkInv' BY <1>3, <2>1 DEF WalkInv, Stopped, walk
  <2> QED BY <2>2, <2>3
<1>8. ASSUME TooDeep PROVE TypeOK' /\ WalkInv'
  <2>1. /\ UNCHANGED <<tree, dir, walk, budget, stored, got, remaining, where, home>>
        /\ pc' = "unwind" /\ fault' = "depth"
    BY <1>8 DEF TooDeep, Fail
  <2>2. /\ remaining' \in 0..budget' /\ path' \in [0..MaxDepth -> Nat]
        /\ pathLen' \in 0..(MaxDepth + 1) /\ home' \in [DOMAIN tree -> Homes]
    BY <2>1 DEF TypeOK, where
  <2> QED BY <2>1, <2>2, FailKeepsTypes
<1>9. ASSUME Entered, UNCHANGED tree
      PROVE  /\ path' \in [0..MaxDepth -> Nat] /\ pathLen' \in 0..(MaxDepth + 1)
             /\ Depth <= MaxDepth /\ pc = "enter" /\ at # <<>>
  <2>1. Len(at) \in Nat \ {0}
    BY <1>2, <1>9, LastStep DEF Entered, WalkInv
  <2> QED BY <1>1, <1>9, <2>1 DEF TypeOK, Entered, Depth, WalkInv
<1>10. ASSUME EnterContainer PROVE TypeOK' /\ WalkInv'
  <2>1. /\ tree[at].kind \in Containers /\ UNCHANGED <<tree, dir, at, budget, home, stored, got>>
        /\ Entered
    BY <1>10 DEF EnterContainer, Node
  <2>2. /\ path' \in [0..MaxDepth -> Nat] /\ pathLen' \in 0..(MaxDepth + 1)
        /\ home' \in [DOMAIN tree -> Homes] /\ Depth <= MaxDepth /\ at # <<>>
    BY <1>9, <2>1 DEF TypeOK
  <2>3. ValueCost \in Nat BY DEF ValueCost
  <2>4. ASSUME Charge(ValueCost), next' = 0, pc' = "child", UNCHANGED fault
        PROVE  TypeOK' /\ WalkInv'
    <3>1. remaining' \in 0..budget' BY <2>1, <2>3, <2>4, Charging
    <3>2. TypeOK' BY <2>1, <2>2, <2>4, <3>1 DEF TypeOK
    <3>3. Depth' = Depth /\ Children(at)' \in Nat BY <1>2, <1>3, <2>1 DEF Depth
    <3>4. WalkInv' BY <1>9, <2>1, <2>2, <2>4, <3>3 DEF WalkInv, Stopped
    <3> QED BY <3>2, <3>4
  <2>5. ASSUME remaining' \in 0..budget', pc' = "unwind", fault' \in Faults \ {"none"},
               UNCHANGED next
        PROVE  TypeOK' /\ WalkInv'
    BY <2>1, <2>2, <2>5, FailKeepsTypes DEF walk
  <2>6. ASSUME Charge(ValueCost), Fail("limit"), UNCHANGED next PROVE TypeOK' /\ WalkInv'
    BY <2>1, <2>3, <2>5, <2>6, Charging DEF Fail
  <2>7. ASSUME ChargeFails(ValueCost), UNCHANGED next PROVE TypeOK' /\ WalkInv'
    BY <2>1, <2>3, <2>5, <2>7, Charging
  <2> QED BY <1>10, <2>4, <2>6, <2>7 DEF EnterContainer
<1>11. ASSUME Entered, UNCHANGED <<tree, dir, budget>>, tree[at].kind \in Leaves,
              Charge(LeafCost) \/ ChargeFails(LeafCost)
       PROVE  /\ remaining' \in 0..budget'
              /\ ChargeFails(LeafCost) => pc' = "unwind" /\ fault' \in Faults \ {"none"}
  BY <1>11, CostsAreNumbers, Charging
<1>12. ASSUME Entered, UNCHANGED <<tree, dir, budget, walk, home, stored, got>>,
              remaining' \in 0..budget', pc' = "unwind", fault' \in Faults \ {"none"}
       PROVE  TypeOK' /\ WalkInv'
  BY <1>9, <1>12, FailKeepsTypes DEF TypeOK
<1>13. ASSUME NumberIn PROVE TypeOK' /\ WalkInv'
  <2>1. Entered /\ UNCHANGED <<tree, dir, budget>> /\ tree[at].kind \in Leaves
    BY <1>13 DEF NumberIn, Node, Leaves
  <2>2. /\ path' \in [0..MaxDepth -> Nat] /\ pathLen' \in 0..(MaxDepth + 1)
        /\ Depth <= MaxDepth /\ pc = "enter"
    BY <1>9, <2>1
  <2>3. ASSUME Charge(LeafCost), home' = [home EXCEPT ![at] = "slot"],
               DOMAIN stored' = DOMAIN stored \cup {at},
               Complete, UNCHANGED <<got, fault>>
        PROVE  TypeOK' /\ WalkInv'
    <3>1. remaining' \in 0..budget' BY <1>11, <2>1, <2>3
    <3>2. /\ home' \in [DOMAIN tree -> Homes] /\ DOMAIN stored' \subseteq DOMAIN tree
          /\ DOMAIN got' \subseteq DOMAIN tree
      BY <1>2, <2>3 DEF TypeOK, Homes
    <3> QED BY <2>1, <2>2, <2>3, <3>1, <3>2, CompleteKeepsTypes
  <2>4. ASSUME Charge(LeafCost), Fail("integer"), UNCHANGED <<walk, home, stored, got>>
        PROVE  TypeOK' /\ WalkInv'
    BY <1>11, <1>12, <2>1, <2>4 DEF Fail
  <2>5. ASSUME ChargeFails(LeafCost), UNCHANGED <<walk, home, stored, got>>
        PROVE  TypeOK' /\ WalkInv'
    BY <1>11, <1>12, <2>1, <2>5
  <2> QED BY <1>13, <2>3, <2>4, <2>5 DEF NumberIn, LeafCharged
<1>14. ASSUME LeafIn PROVE TypeOK' /\ WalkInv'
  <2>1. Entered /\ UNCHANGED <<tree, dir, budget>> /\ tree[at].kind \in Leaves
    BY <1>14 DEF LeafIn, Node
  <2>2. /\ path' \in [0..MaxDepth -> Nat] /\ pathLen' \in 0..(MaxDepth + 1)
        /\ Depth <= MaxDepth /\ pc = "enter"
    BY <1>9, <2>1
  <2>3. ASSUME Charge(LeafCost), home' = [home EXCEPT ![at] = "slot"], Complete,
               UNCHANGED <<stored, got, fault>>
        PROVE  TypeOK' /\ WalkInv'
    <3>1. remaining' \in 0..budget' BY <1>11, <2>1, <2>3
    <3>2. /\ home' \in [DOMAIN tree -> Homes] /\ DOMAIN stored' \subseteq DOMAIN tree
          /\ DOMAIN got' \subseteq DOMAIN tree
      BY <2>3 DEF TypeOK, Homes
    <3> QED BY <2>1, <2>2, <2>3, <3>1, <3>2, CompleteKeepsTypes
  <2>4. ASSUME Charge(LeafCost), Fail("conversion"), UNCHANGED <<walk, home, stored, got>>
        PROVE  TypeOK' /\ WalkInv'
    BY <1>11, <1>12, <2>1, <2>4 DEF Fail
  <2>5. ASSUME ChargeFails(LeafCost), UNCHANGED <<walk, home, stored, got>>
        PROVE  TypeOK' /\ WalkInv'
    BY <1>11, <1>12, <2>1, <2>5
  <2> QED BY <1>14, <2>3, <2>4, <2>5 DEF LeafIn, LeafCharged
<1>15. ASSUME LeafOut PROVE TypeOK' /\ WalkInv'
  <2>1. Entered /\ UNCHANGED <<tree, dir, budget>> /\ tree[at].kind \in Leaves
    BY <1>15 DEF LeafOut, Node
  <2>2. /\ path' \in [0..MaxDepth -> Nat] /\ pathLen' \in 0..(MaxDepth + 1)
        /\ Depth <= MaxDepth /\ pc = "enter"
    BY <1>9, <2>1
  <2>3. ASSUME Charge(LeafCost), DOMAIN got' \subseteq DOMAIN got \cup {at}, Complete,
               UNCHANGED <<home, stored, fault>>
        PROVE  TypeOK' /\ WalkInv'
    <3>1. remaining' \in 0..budget' BY <1>11, <2>1, <2>3
    <3>2. /\ home' \in [DOMAIN tree -> Homes] /\ DOMAIN stored' \subseteq DOMAIN tree
          /\ DOMAIN got' \subseteq DOMAIN tree
      BY <1>2, <2>3 DEF TypeOK
    <3> QED BY <2>1, <2>2, <2>3, <3>1, <3>2, CompleteKeepsTypes
  <2>4. ASSUME ChargeFails(LeafCost), UNCHANGED <<walk, home, stored, got>>
        PROVE  TypeOK' /\ WalkInv'
    BY <1>11, <1>12, <2>1, <2>4
  <2> QED BY <1>15, <2>3, <2>4 DEF LeafOut, LeafCharged
<1>16. ASSUME ChildOf PROVE TypeOK' /\ WalkInv'
  <2> DEFINE cost == IF StartsEntry(at, next) THEN EntryCost(Node) ELSE 0
  <2>1. /\ pc = "child" /\ next < Children(at) /\ path' = EntryPath
        /\ UNCHANGED <<tree, dir, budget, home, stored, got>>
        /\ pathLen' = IF dir = "in" /\ StartsEntry(at, next) THEN Depth + 1 ELSE pathLen
        /\ \/ Charge(cost) /\ at' = Append(at, next) /\ next' = 0 /\ pc' = "enter"
                /\ UNCHANGED fault
           \/ ChargeFails(cost) /\ UNCHANGED walk
    BY <1>16 DEF ChildOf
  <2>2. Len(at) \in Nat \ {0} /\ Depth \in Nat /\ Depth <= MaxDepth
    BY <1>2, <2>1, LastStep DEF WalkInv, Depth
  <2>3. next \in Nat /\ EntryOf(at, next) \in Nat BY DEF TypeOK, EntryOf
  <2>4. path' \in [0..MaxDepth -> Nat] BY <2>1, <2>2, <2>3 DEF EntryPath, TypeOK
  <2>5. /\ pathLen' \in 0..(MaxDepth + 1) /\ home' \in [DOMAIN tree -> Homes]
    BY <1>1, <2>1, <2>2 DEF TypeOK
  <2>6. cost \in Nat BY CostsAreNumbers DEF Node
  <2> HIDE DEF cost
  <2>7. ASSUME Charge(cost), at' = Append(at, next), next' = 0, pc' = "enter", UNCHANGED fault
        PROVE  TypeOK' /\ WalkInv'
    <3>1. remaining' \in 0..budget' BY <2>1, <2>6, <2>7, Charging
    <3>2. at' \in DOMAIN tree /\ at' # <<>>
      BY <1>2, <2>1, <2>3, <2>7, ChildExists, AppendParent DEF TypeOK
    <3>3. TypeOK' BY <2>1, <2>4, <2>5, <2>7, <3>1, <3>2 DEF TypeOK
    <3>4. WalkInv' BY <2>1, <2>7, <3>2 DEF WalkInv, Stopped
    <3> QED BY <3>3, <3>4
  <2>8. ASSUME ChargeFails(cost), UNCHANGED walk PROVE TypeOK' /\ WalkInv'
    <3>1. remaining' \in 0..budget' /\ pc' = "unwind" /\ fault' \in Faults \ {"none"}
      BY <2>1, <2>6, <2>8, Charging
    <3> QED BY <2>1, <2>4, <2>5, <2>8, <3>1, FailKeepsTypes
  <2> QED BY <2>1, <2>7, <2>8
<1>17. ASSUME ContainerOut PROVE TypeOK' /\ WalkInv'
  <2>1. /\ pc = "child" /\ Complete
        /\ UNCHANGED <<tree, dir, where, budget, remaining, home, stored, got, fault>>
    BY <1>17 DEF ContainerOut
  <2>2. Depth <= MaxDepth BY <2>1 DEF WalkInv
  <2>3. /\ remaining' \in 0..budget' /\ path' \in [0..MaxDepth -> Nat]
        /\ pathLen' \in 0..(MaxDepth + 1) /\ home' \in [DOMAIN tree -> Homes]
        /\ DOMAIN stored' \subseteq DOMAIN tree /\ DOMAIN got' \subseteq DOMAIN tree
    BY <2>1 DEF TypeOK, where
  <2> QED BY <2>1, <2>2, <2>3, CompleteKeepsTypes
<1>18. ASSUME ContainerIn PROVE TypeOK' /\ WalkInv'
  <2>1. /\ pc = "child" /\ Complete
        /\ home' = [p \in DOMAIN tree |-> IF p = at THEN "slot"
                                          ELSE IF p \in ChildrenOf(at) THEN "inside" ELSE home[p]]
        /\ UNCHANGED <<tree, dir, where, budget, remaining, stored, got, fault>>
    BY <1>18 DEF ContainerIn
  <2>2. Depth <= MaxDepth BY <2>1 DEF WalkInv
  <2>3. home' \in [DOMAIN tree -> Homes] BY <2>1 DEF TypeOK, Homes
  <2>4. /\ remaining' \in 0..budget' /\ path' \in [0..MaxDepth -> Nat]
        /\ pathLen' \in 0..(MaxDepth + 1)
        /\ DOMAIN stored' \subseteq DOMAIN tree /\ DOMAIN got' \subseteq DOMAIN tree
    BY <2>1 DEF TypeOK, where
  <2> QED BY <2>1, <2>2, <2>3, <2>4, CompleteKeepsTypes
<1>19. ASSUME ContainerFails PROVE TypeOK' /\ WalkInv'
  <2>1. /\ home' = Freed(Slots(at)) /\ pc' = "unwind" /\ fault' \in {"other", "key"}
        /\ UNCHANGED <<tree, dir, walk, where, budget, remaining, stored, got>>
    BY <1>19 DEF ContainerFails, Fail
  <2>2. home' \in [DOMAIN tree -> Homes] BY <2>1, FreedTypes
  <2>3. /\ remaining' \in 0..budget' /\ path' \in [0..MaxDepth -> Nat]
        /\ pathLen' \in 0..(MaxDepth + 1)
    BY <2>1 DEF TypeOK, where
  <2> QED BY <2>1, <2>2, <2>3, FailKeepsTypes
<1>20. ASSUME Unwind \/ OutputFails PROVE TypeOK' /\ WalkInv'
  <2>1. /\ pc = "unwind" /\ pc' = "failed"
        /\ UNCHANGED <<tree, dir, walk, where, budget, remaining, stored, got, fault>>
    BY <1>20 DEF Unwind, OutputFails
  <2>2. home' \in [DOMAIN tree -> Homes]
    BY <1>20, FreedTypes DEF Unwind, OutputFails, TypeOK
  <2>3. TypeOK' BY <2>1, <2>2 DEF TypeOK, walk, where
  <2>4. WalkInv' BY <2>1 DEF WalkInv, Stopped, walk
  <2> QED BY <2>3, <2>4
<1>21. ASSUME Row PROVE TypeOK' /\ WalkInv'
  <2>1. /\ pc = "accepted" /\ dir' = "out" /\ next' = 0 /\ pathLen' = 0 /\ budget' \in Nat
        /\ \/ /\ budget' >= RowCost /\ remaining' = budget' - RowCost
              /\ pc' = "column" /\ UNCHANGED fault
           \/ remaining' = budget' /\ pc' = "unwind" /\ fault' \in {"limit", "other"}
        /\ UNCHANGED <<tree, at, path, home, stored, got>>
    BY <1>1, <1>21 DEF Row, Fail
  <2>2. TypeOK' BY <1>1, <2>1 DEF TypeOK, RowCost
  <2>3. Children(<<>>)' \in Nat BY <1>2, <1>3, <2>1
  <2>4. WalkInv' BY <2>1, <2>3 DEF WalkInv, Stopped
  <2> QED BY <2>2, <2>4
<1>22. ASSUME Column PROVE TypeOK' /\ WalkInv'
  <2>1. /\ pc = "column" /\ dir = "out" /\ at = <<>> /\ next <= Children(<<>>)
        /\ fault = "none" /\ next \in Nat
        /\ \/ next < Children(<<>>) /\ at' = <<next>> /\ next' = 0 /\ pc' = "enter"
           \/ next = Children(<<>>) /\ pc' = "done" /\ UNCHANGED walk
        /\ UNCHANGED <<tree, dir, where, budget, remaining, home, stored, got, fault>>
    BY <1>2, <1>22 DEF Column, WalkInv, Stopped, TypeOK
  <2>2. CASE next < Children(<<>>) /\ at' = <<next>> /\ next' = 0 /\ pc' = "enter"
    <3>1. at' \in DOMAIN tree /\ at' # <<>>
      <4>1. <<>> \in Paths /\ <<next>> = Append(<<>>, next) /\ next \in Nat
        BY <2>1, EmptySeq DEF Paths
      <4> QED BY <1>2, <2>1, <2>2, <4>1, ChildExists DEF TypeOK
    <3>2. TypeOK' BY <2>1, <2>2, <3>1 DEF TypeOK, where
    <3>3. WalkInv' BY <2>1, <2>2, <3>1 DEF WalkInv, Stopped
    <3> QED BY <3>2, <3>3
  <2>3. CASE next = Children(<<>>) /\ pc' = "done" /\ UNCHANGED walk
    <3>1. TypeOK' BY <2>1, <2>3 DEF TypeOK, where, walk
    <3>2. WalkInv' BY <1>3, <2>1, <2>3 DEF WalkInv, Stopped, walk
    <3> QED BY <3>1, <3>2
  <2> QED BY <2>1, <2>2, <2>3
<1>23. ASSUME UNCHANGED vars PROVE TypeOK' /\ WalkInv'
  <2>1. /\ UNCHANGED <<tree, dir, pc, at, next, path, pathLen, budget, remaining, home>>
        /\ UNCHANGED <<stored, got, fault>>
    BY <1>23 DEF vars, walk, where
  <2>2. TypeOK' BY <2>1 DEF TypeOK
  <2>3. Depth' = Depth BY <2>1 DEF Depth
  <2>4. WalkInv' BY <1>3, <2>1, <2>3 DEF WalkInv
  <2> QED BY <2>2, <2>4
<1> QED BY <1>4, <1>5, <1>6, <1>7, <1>8, <1>10, <1>13, <1>14, <1>15, <1>16, <1>17, <1>18,
           <1>19, <1>20, <1>21, <1>22, <1>23 DEF Next

-----------------------------------------------------------------------------
(* The order of the walk: exactly the value that is complete becomes done. *)

LEMMA CursorIsPath ==
  ASSUME TypeOK
  PROVE  at \in Paths /\ next \in Nat /\ Cursor \in Paths
<1>1. at \in Paths /\ next \in Nat BY TreeShape DEF TypeOK
<1> QED BY <1>1, Appending DEF Cursor

LEMMA ValueCompletes ==
  ASSUME TypeOK, WalkInv, Complete, UNCHANGED <<tree, dir>>,
         \/ pc = "enter" /\ tree[at].kind \in Leaves
         \/ pc = "child" /\ next = Children(at)
  PROVE  /\ \A p \in DOMAIN tree : Done(p)' <=> Done(p) \/ p = at
         /\ \A p \in DOMAIN tree : Above(at, p) => Done(p)'
         /\ ~Done(at) /\ ~Done(Parent(at))
<1>1. at \in DOMAIN tree /\ at # <<>> /\ at \in Paths /\ next \in Nat
  BY CursorIsPath DEF TypeOK, WalkInv
<1>2. pc' # "enter" /\ at' = Parent(at) /\ next' = Last(at) + 1 BY DEF Complete
<1>3. Cursor' = Append(Parent(at), Last(at) + 1) BY <1>2 DEF Cursor
<1>4. Above(at, at) /\ Len(at) \in Nat BY <1>1, LenProperties DEF Above, Paths
<1>5. ~Done(at) /\ ~Done(Parent(at))
  <2>1. /\ Parent(at) \in Paths /\ Len(Parent(at)) = Len(at) - 1
        /\ \A i \in 1..(Len(at) - 1) : Parent(at)[i] = at[i]
    BY <1>1, LastStep
  <2>2. Above(Parent(at), at) BY <1>4, <2>1 DEF Above
  <2>3. Above(at, Append(at, next)) /\ Append(at, next) \in Paths
    BY <1>1, <1>4, Appending DEF Above
  <2>4. Above(Parent(at), Append(at, next))
    BY <1>1, <1>4, <2>1, <2>2, Appending DEF Above
  <2>5. /\ ~Before(at, at) /\ ~Before(Parent(at), at)
        /\ ~Before(at, Append(at, next)) /\ ~Before(Parent(at), Append(at, next))
    BY <1>1, <1>4, <2>1, <2>2, <2>3, <2>4, NotBeforeItself
  <2> QED BY <2>5 DEF Done, Cursor
<1>6. ASSUME NEW p \in DOMAIN tree
      PROVE  (Done(p)' <=> Done(p) \/ p = at) /\ (Above(at, p) => Done(p)')
  <2>1. p \in Paths BY TreeShape DEF TypeOK
  <2>2. Done(p)' <=> Before(p, at) \/ Above(at, p)
    <3>1. Before(p, Append(Parent(at), Last(at) + 1)) <=> Before(p, at) \/ Above(at, p)
      BY <1>1, <2>1, AfterValue
    <3> QED BY <1>3, <3>1 DEF Done, Before
  <2>3. Above(at, p) /\ p # at =>
          /\ Len(at) < Len(p) /\ p[Len(at) + 1] < Children(at) /\ tree[at].kind \notin Leaves
    BY <1>1, Inside DEF TypeOK
  <2>4. CASE pc = "enter"
    <3>1. Done(p) <=> Before(p, at) BY <2>4 DEF Done, Cursor
    <3> QED BY <1>4, <2>2, <2>3, <2>4, <3>1
  <2>5. CASE pc = "child"
    <3>1. Before(p, Append(at, next)) <=>
            Before(p, at) \/ (Above(at, p) /\ Len(at) < Len(p) /\ p[Len(at) + 1] < next)
      BY <1>1, <2>1, AppendOrder
    <3>2. Done(p) <=>
            Before(p, at) \/ (Above(at, p) /\ Len(at) < Len(p) /\ p[Len(at) + 1] < next)
      BY <2>5, <3>1 DEF Done, Cursor
    <3> QED BY <1>4, <2>2, <2>3, <2>5, <3>2
  <2> QED BY <2>4, <2>5
<1> QED BY <1>5, <1>6

LEMMA ContainerEntered ==
  ASSUME TypeOK, pc = "enter", pc' = "child", next' = 0, UNCHANGED <<tree, at>>
  PROVE  \A p \in DOMAIN tree : Done(p)' <=> Done(p)
<1> TAKE p \in DOMAIN tree
<1>1. p \in Paths /\ at \in Paths BY TreeShape DEF TypeOK
<1>2. Cursor = at /\ Cursor' = Append(at, 0) BY DEF Cursor
<1>3. Len(at) < Len(p) => p[Len(at) + 1] \in Nat
  <2>1. Len(p) \in Nat /\ Len(at) \in Nat BY <1>1, LenProperties DEF Paths
  <2>2. Len(at) < Len(p) => Len(at) + 1 \in 1..Len(p) BY <2>1
  <2> QED BY <1>1, <2>2, ElementOfSeq DEF Paths
<1>4. Before(p, Append(at, 0)) <=> Before(p, at)
  <2>1. 0 \in Nat OBVIOUS
  <2>2. Before(p, Append(at, 0)) <=>
          Before(p, at) \/ (Above(at, p) /\ Len(at) < Len(p) /\ p[Len(at) + 1] < 0)
    BY <1>1, <2>1, AppendOrder
  <2> QED BY <1>3, <2>2
<1> QED BY <1>2, <1>4 DEF Done, Before

\* The end of the parameters, or of the columns: everything is done.
LEMMA AllDone ==
  ASSUME TypeOK, at = <<>>, pc # "enter", next = Children(<<>>)
  PROVE  \A p \in Values : Done(p)
<1> TAKE p \in Values
<1>1. p \in Paths /\ <<>> \in DOMAIN tree /\ p \in DOMAIN tree BY TreeShape DEF TypeOK, Values
<1>2. Above(<<>>, p) /\ p # <<>> BY <1>1, BeforeRoot DEF Values
<1>3. Len(<<>>) < Len(p) /\ p[Len(<<>>) + 1] < Children(<<>>)
  BY <1>1, <1>2, Inside DEF TypeOK
<1>4. <<>> \in Paths /\ next \in Nat BY <1>1, TreeShape DEF TypeOK
<1>5. Before(p, Append(<<>>, next)) BY <1>1, <1>2, <1>3, <1>4, AppendOrder
<1> QED BY <1>5 DEF Done, Cursor

\* The beginning: nothing is.
LEMMA NoneDone ==
  ASSUME TypeOK, at = <<>>, pc # "enter", next = 0
  PROVE  \A p \in DOMAIN tree : ~Done(p)
<1> TAKE p \in DOMAIN tree
<1>1. p \in Paths /\ <<>> \in Paths /\ next \in Nat BY TreeShape DEF TypeOK
<1>2. ~Before(p, <<>>) BY <1>1, BeforeRoot
<1>3. Len(<<>>) < Len(p) => p[Len(<<>>) + 1] \in Nat
  <2>1. Len(p) \in Nat /\ Len(<<>>) \in Nat BY <1>1, LenProperties DEF Paths
  <2>2. Len(<<>>) < Len(p) => Len(<<>>) + 1 \in 1..Len(p) BY <2>1
  <2> QED BY <1>1, <2>2, ElementOfSeq DEF Paths
<1>4. ~Before(p, Append(<<>>, next))
  <2>1. Before(p, Append(<<>>, next)) <=>
          Before(p, <<>>) \/ (Above(<<>>, p) /\ Len(<<>>) < Len(p) /\ p[Len(<<>>) + 1] < next)
    BY <1>1, AppendOrder
  <2> QED BY <1>2, <1>3, <2>1
<1> QED BY <1>4 DEF Done, Cursor

-----------------------------------------------------------------------------
(* Numbers. *)

LEMMA NumbersStopped ==
  ASSUME NumberInv, UNCHANGED <<tree, dir, stored, got>>, pc' \in Stopped,
         fault' = "integer" => ~InRange(tree[at'].type, tree[at'].value)
  PROVE  NumberInv'
<1> QED BY DEF NumberInv, Numbers, Settled, Stopped

LEMMA NumbersCarried ==
  ASSUME NumberInv, UNCHANGED <<tree, dir, stored, got>>, pc \notin Stopped, fault' # "integer",
         \A p \in DOMAIN tree : Done(p)' <=> Done(p)
  PROVE  NumberInv'
<1> QED BY DEF NumberInv, Numbers, Settled, Stopped

\* Values without a number are complete without a change.
LEMMA NumbersComplete ==
  ASSUME TypeOK, WalkInv, NumberInv, Complete, UNCHANGED <<tree, dir, stored, got, fault>>,
         \/ pc = "enter" /\ tree[at].kind \in Leaves \ {"number"}
         \/ pc = "child" /\ next = Children(at)
  PROVE  NumberInv'
<1>1. \A p \in DOMAIN tree : Done(p)' <=> Done(p) \/ p = at BY ValueCompletes
<1>2. at \notin Numbers BY DEF WalkInv, Numbers, Containers
<1>3. fault' = "none" BY DEF WalkInv, Stopped
<1> QED BY <1>1, <1>2, <1>3 DEF NumberInv, Numbers, Settled, WalkInv, Stopped

LEMMA NumberTypes ==
  ASSUME TypeOK, NEW p \in Numbers
  PROVE  /\ p \in DOMAIN tree /\ tree[p].type \in IntegerTypes /\ tree[p].value \in Int
         /\ Accepted(tree[p].type, tree[p].value) <=> InRange(tree[p].type, tree[p].value)
         /\ Settled(p) => Returned(tree[p].type, stored[p]) = tree[p].value
<1>1. p \in DOMAIN tree /\ tree[p].type \in IntegerTypes /\ tree[p].value \in Int
  BY TreeShape DEF TypeOK, Numbers
<1> QED BY <1>1, IntegersSurvive DEF Settled

LEMMA NumbersKept ==
  ASSUME TypeOK, WalkInv, NumberInv, [Next]_vars
  PROVE  NumberInv'
<1>0. TypeOK' /\ WalkInv' BY TypesKept
<1>1. at \in DOMAIN tree BY DEF TypeOK
<1>2. ASSUME TooManyParameters \/ TooDeep PROVE NumberInv'
  BY <1>2, NumbersStopped DEF TooManyParameters, TooDeep, Fail, Stopped
<1>3. ASSUME Parameter PROVE NumberInv'
  <2>1. UNCHANGED <<tree, dir, stored, got>> /\ pc = "convert" /\ at = <<>> /\ fault = "none"
    BY <1>3 DEF Parameter, WalkInv, Stopped
  <2>2. CASE pc' = "unwind" /\ fault' # "integer" BY <2>1, <2>2, NumbersStopped DEF Stopped
  <2>3. CASE at' = <<next>> /\ pc' = "enter" /\ UNCHANGED fault
    <3>1. Cursor' = Cursor
      <4>1. <<next>> = Append(<<>>, next) OBVIOUS
      <4> QED BY <2>1, <2>3, <4>1 DEF Cursor
    <3>2. \A p \in DOMAIN tree : Done(p)' <=> Done(p) BY <3>1 DEF Done, Before
    <3> QED BY <2>1, <2>3, <3>2, NumbersCarried DEF Stopped
  <2> QED BY <1>3, <2>2, <2>3 DEF Parameter, ChargeFails, Fail
<1>4. ASSUME ParameterAdded PROVE NumberInv'
  <2>1. UNCHANGED <<tree, dir, at, next, stored, got>> /\ pc = "add" /\ fault = "none"
    BY <1>4 DEF ParameterAdded, walk, WalkInv, Stopped
  <2>2. CASE pc' = "unwind" /\ fault' # "integer" BY <2>1, <2>2, NumbersStopped DEF Stopped
  <2>3. CASE pc' = "convert" /\ UNCHANGED fault
    <3>1. Cursor' = Cursor BY <2>1, <2>3 DEF Cursor
    <3>2. \A p \in DOMAIN tree : Done(p)' <=> Done(p) BY <3>1 DEF Done, Before
    <3> QED BY <2>1, <2>3, <3>2, NumbersCarried DEF Stopped
  <2> QED BY <1>4, <2>2, <2>3 DEF ParameterAdded, Fail
<1>5. ASSUME Converted PROVE NumberInv'
  <2>1. /\ UNCHANGED <<tree, dir, at, next, stored, got, fault>> /\ pc = "convert"
        /\ fault = "none" /\ pc' = "accepted"
    BY <1>5 DEF Converted, walk, WalkInv, Stopped
  <2>2. Cursor' = Cursor BY <2>1 DEF Cursor
  <2>3. \A p \in DOMAIN tree : Done(p)' <=> Done(p) BY <2>2 DEF Done, Before
  <2> QED BY <2>1, <2>3, NumbersCarried DEF Stopped
<1>6. ASSUME EnterContainer PROVE NumberInv'
  <2>1. /\ UNCHANGED <<tree, dir, at, stored, got>> /\ pc = "enter" /\ fault = "none"
    BY <1>6 DEF EnterContainer, Entered, WalkInv, Stopped
  <2>2. CASE pc' = "unwind" /\ fault' # "integer" BY <2>1, <2>2, NumbersStopped DEF Stopped
  <2>3. CASE pc' = "child" /\ next' = 0 /\ UNCHANGED fault
    <3>1. \A p \in DOMAIN tree : Done(p)' <=> Done(p) BY <2>1, <2>3, ContainerEntered
    <3> QED BY <2>1, <2>3, <3>1, NumbersCarried DEF Stopped
  <2> QED BY <1>6, <2>2, <2>3 DEF EnterContainer, ChargeFails, Fail
<1>7. ASSUME NumberIn PROVE NumberInv'
  <2>1. /\ pc = "enter" /\ dir = "in" /\ tree[at].kind = "number" /\ at \in Numbers
        /\ UNCHANGED <<tree, dir>> /\ fault = "none"
    BY <1>1, <1>7 DEF NumberIn, Entered, Node, Numbers, WalkInv, Stopped
  <2>2. Accepted(tree[at].type, tree[at].value) <=> InRange(tree[at].type, tree[at].value)
    BY <2>1, NumberTypes
  <2>3. CASE /\ ~Accepted(tree[at].type, tree[at].value) /\ Fail("integer")
             /\ UNCHANGED <<walk, stored, got>>
    BY <2>1, <2>2, <2>3, NumbersStopped DEF Fail, Stopped, walk
  <2>4. CASE ChargeFails(LeafCost) /\ UNCHANGED <<stored, got>>
    BY <2>1, <2>4, NumbersStopped DEF ChargeFails, Fail, Stopped
  <2>5. CASE /\ Accepted(tree[at].type, tree[at].value) /\ Complete /\ UNCHANGED <<got, fault>>
             /\ stored' = [p \in DOMAIN stored \cup {at} |->
                            IF p = at THEN Stored(tree[at].type, PairOf(tree[at].value))
                            ELSE stored[p]]
    <3>1. \A p \in DOMAIN tree : Done(p)' <=> Done(p) \/ p = at
      BY <2>1, <2>5, ValueCompletes DEF Leaves
    <3>2. /\ DOMAIN stored' = DOMAIN stored \cup {at}
          /\ stored'[at] = Stored(tree[at].type, PairOf(tree[at].value))
          /\ \A p \in DOMAIN stored : p # at => stored'[p] = stored[p]
      BY <2>5
    <3>3. ASSUME NEW p \in Numbers, p = at PROVE Settled(p)'
      BY <2>1, <2>2, <2>5, <3>2, <3>3 DEF Settled
    <3>4. ASSUME NEW p \in Numbers, p # at, Settled(p) PROVE Settled(p)'
      BY <2>1, <3>2, <3>4 DEF Settled
    <3>5. /\ fault' = "none" /\ dir' = "in" /\ UNCHANGED tree /\ Numbers' = Numbers
      BY <2>1, <2>5 DEF Numbers
    <3>6. \A p \in Numbers : Done(p)' => Settled(p)'
      BY <2>1, <3>1, <3>3, <3>4 DEF NumberInv, Numbers, Stopped
    <3> QED BY <3>5, <3>6 DEF NumberInv
  <2> QED BY <1>7, <2>3, <2>4, <2>5 DEF NumberIn, LeafCharged, Node
<1>8. ASSUME LeafIn PROVE NumberInv'
  <2>1. /\ pc = "enter" /\ tree[at].kind \in Leaves \ {"number"} /\ UNCHANGED <<tree, dir>>
    BY <1>8 DEF LeafIn, Entered, Node
  <2>2. CASE Complete /\ UNCHANGED <<stored, got, fault>>
    BY <2>1, <2>2, NumbersComplete
  <2>3. CASE pc' = "unwind" /\ fault' # "integer" /\ UNCHANGED <<stored, got>>
    BY <2>1, <2>3, NumbersStopped DEF Stopped
  <2> QED BY <1>8, <2>2, <2>3 DEF LeafIn, LeafCharged, ChargeFails, Fail
<1>9. ASSUME LeafOut PROVE NumberInv'
  <2>1. /\ pc = "enter" /\ dir = "out" /\ tree[at].kind \in Leaves /\ UNCHANGED <<tree, dir>>
        /\ fault = "none"
    BY <1>9 DEF LeafOut, Entered, Node, WalkInv, Stopped
  <2>2. CASE pc' = "unwind" /\ fault' # "integer" /\ UNCHANGED <<stored, got>>
    BY <2>1, <2>2, NumbersStopped DEF Stopped
  <2>3. CASE /\ Complete /\ UNCHANGED <<stored, fault>>
             /\ got' = IF tree[at].kind = "number"
                       THEN [p \in DOMAIN got \cup {at} |->
                               IF p = at THEN Returned(tree[at].type, stored[at]) ELSE got[p]]
                       ELSE got
    <3>1. CASE tree[at].kind # "number"
      BY <2>1, <2>3, <3>1, NumbersComplete
    <3>2. CASE tree[at].kind = "number"
      <4>1. at \in Numbers /\ Settled(at) BY <1>1, <2>1, <3>2 DEF Numbers, NumberInv
      <4>2. Returned(tree[at].type, stored[at]) = tree[at].value BY <4>1, NumberTypes
      <4>3. /\ DOMAIN got' = DOMAIN got \cup {at} /\ got'[at] = tree[at].value
            /\ \A p \in DOMAIN got : p # at => got'[p] = got[p]
        BY <2>3, <3>2, <4>2
      <4>4. \A p \in DOMAIN tree : Done(p)' <=> Done(p) \/ p = at
        BY <2>1, <2>3, ValueCompletes
      <4>5. /\ fault' = "none" /\ dir' = "out" /\ UNCHANGED tree /\ Numbers' = Numbers
        BY <2>1, <2>3 DEF Numbers
      <4>6. \A p \in Numbers : Settled(p)' BY <2>1, <2>3 DEF NumberInv, Settled
      <4>7. \A p \in Numbers : Done(p)' => p \in DOMAIN got' /\ got'[p] = tree'[p].value
        BY <2>1, <4>3, <4>4 DEF NumberInv, Numbers, Stopped
      <4> QED BY <4>5, <4>6, <4>7 DEF NumberInv
    <3> QED BY <3>1, <3>2
  <2> QED BY <1>9, <2>2, <2>3 DEF LeafOut, LeafCharged, ChargeFails, Fail, Node
<1>10. ASSUME ChildOf PROVE NumberInv'
  <2>1. pc = "child" /\ fault = "none" /\ UNCHANGED <<tree, dir, stored, got>>
    BY <1>10 DEF ChildOf, WalkInv, Stopped
  <2>2. CASE pc' = "unwind" /\ fault' # "integer" BY <2>1, <2>2, NumbersStopped DEF Stopped
  <2>3. CASE at' = Append(at, next) /\ pc' = "enter" /\ UNCHANGED fault
    <3>1. Cursor' = Cursor BY <2>1, <2>3 DEF Cursor
    <3>2. \A p \in DOMAIN tree : Done(p)' <=> Done(p) BY <3>1 DEF Done, Before
    <3> QED BY <2>1, <2>3, <3>2, NumbersCarried DEF Stopped
  <2> QED BY <1>10, <2>2, <2>3 DEF ChildOf, ChargeFails, Fail
<1>11. ASSUME ContainerOut \/ ContainerIn PROVE NumberInv'
  BY <1>11, NumbersComplete DEF ContainerOut, ContainerIn
<1>12. ASSUME ContainerFails PROVE NumberInv'
  BY <1>12, NumbersStopped DEF ContainerFails, Fail, Stopped
<1>13. ASSUME Unwind \/ OutputFails PROVE NumberInv'
  <2>1. /\ UNCHANGED <<tree, dir, at, stored, got, fault>> /\ pc' = "failed"
    BY <1>13 DEF Unwind, OutputFails, walk
  <2> QED BY <2>1, NumbersStopped DEF NumberInv, Stopped
<1>14. ASSUME Row PROVE NumberInv'
  <2>1. /\ pc = "accepted" /\ dir = "in" /\ dir' = "out" /\ next' = 0 /\ at = <<>>
        /\ next = Children(<<>>) /\ fault = "none"
        /\ \/ pc' = "column" /\ UNCHANGED fault
           \/ pc' = "unwind" /\ fault' \in {"limit", "other"}
        /\ UNCHANGED <<tree, at, stored, got>>
    BY <1>14 DEF Row, Fail, WalkInv, Stopped
  <2>2. \A p \in Numbers : p \in Values
    BY TreeShape DEF TypeOK, Numbers, Values
  <2>3. \A p \in Numbers : Settled(p) BY <2>1, <2>2, AllDone DEF NumberInv, Stopped
  <2>4. \A p \in Numbers : Settled(p)' BY <2>1, <2>3 DEF Settled
  <2>5. Numbers' = Numbers BY <2>1 DEF Numbers
  <2>6. pc' = "column" => \A p \in Numbers : ~Done(p)'
    <3>1. (TypeOK /\ at = <<>> /\ pc # "enter" /\ next = 0 => \A p \in DOMAIN tree : ~Done(p))'
      BY NoneDone, PTL
    <3> QED BY <1>0, <2>1, <3>1 DEF Numbers
  <2> QED BY <2>1, <2>4, <2>5, <2>6 DEF NumberInv, Stopped
<1>15. ASSUME Column PROVE NumberInv'
  <2>1. pc = "column" /\ at = <<>> /\ fault = "none"
        /\ UNCHANGED <<tree, dir, stored, got, fault>>
    BY <1>15 DEF Column, WalkInv, Stopped
  <2>2. Cursor' = Cursor
    <3>1. <<next>> = Append(<<>>, next) OBVIOUS
    <3> QED BY <1>15, <2>1, <3>1 DEF Cursor, Column, walk
  <2>3. \A p \in DOMAIN tree : Done(p)' <=> Done(p) BY <2>2 DEF Done, Before
  <2> QED BY <2>1, <2>3, NumbersCarried DEF Stopped
<1>16. ASSUME UNCHANGED vars PROVE NumberInv'
  <2>1. UNCHANGED <<tree, dir, pc, at, next, stored, got, fault>> BY <1>16 DEF vars, walk
  <2>2. Cursor' = Cursor BY <2>1 DEF Cursor
  <2>3. \A p \in DOMAIN tree : Done(p)' <=> Done(p) BY <2>2 DEF Done, Before
  <2> QED BY <2>1, <2>3 DEF NumberInv, Numbers, Settled
<1> QED BY <1>2, <1>3, <1>4, <1>5, <1>6, <1>7, <1>8, <1>9, <1>10, <1>11, <1>12, <1>13,
           <1>14, <1>15, <1>16 DEF Next

-----------------------------------------------------------------------------
(* Native values. *)

\* A value that is done is, or is inside, a value whose owner is not complete: a frame of
\* the converter or the parameters.
LEMMA Frontier ==
  ASSUME TypeOK, NEW p \in Values, Done(p)
  PROVE  \E q \in Values : /\ Done(q) /\ ~Done(Parent(q)) /\ IsPrefix(q, p)
                           /\ IsPrefix(Parent(q), at)
                           /\ q # p => Done(Parent(p))
<1> DEFINE c == Cursor
<1>1. c \in Paths /\ at \in Paths /\ next \in Nat BY CursorIsPath
<1>2. p \in Paths /\ p \in DOMAIN tree /\ p # <<>> BY TreeShape DEF TypeOK, Values
<1>3. Len(p) \in Nat \ {0} /\ Len(c) \in Nat /\ Len(at) \in Nat
  BY <1>1, <1>2, LastStep, LenProperties DEF Paths
<1>4. /\ Len(c) <= Len(at) + 1 /\ \A i \in 1..Len(at) : i <= Len(c) => c[i] = at[i]
  BY <1>1, <1>3, Appending DEF Cursor
<1>5. Len(c) <= Len(at) \/ Len(c) = Len(at) + 1 BY <1>1, <1>3, Appending DEF Cursor
<1> HIDE DEF c
<1>6. PICK k \in 1..Len(c) : k <= Len(p) /\ p[k] < c[k] /\ \A i \in 1..(k - 1) : p[i] = c[i]
  BY DEF Done, Before, c
<1> DEFINE q == SubSeq(p, 1, k)
<1>7. k \in 0..Len(p) /\ k >= 1 BY <1>3, <1>6
<1>8. q \in DOMAIN tree BY <1>2, <1>7, TreeShape DEF TypeOK
<1>9. q \in Paths /\ Len(q) = k /\ \A i \in 1..k : q[i] = p[i] BY <1>2, <1>7, Cutting
<1> HIDE DEF q
<1>10. q # <<>> BY <1>7, <1>9, EmptySeq
<1>11. /\ Parent(q) \in Paths /\ Len(Parent(q)) = k - 1
       /\ \A i \in 1..(k - 1) : Parent(q)[i] = q[i]
  BY <1>9, <1>10, LastStep
<1>12. Done(q)
  <2>1. q[k] < c[k] /\ k <= Len(q) /\ \A i \in 1..(k - 1) : q[i] = c[i] BY <1>3, <1>6, <1>9
  <2> QED BY <2>1 DEF Done, Before, c
<1>13. Above(Parent(q), c) BY <1>3, <1>6, <1>9, <1>11 DEF Above
<1>14. ~Done(Parent(q)) BY <1>1, <1>11, <1>13, NotBeforeItself DEF Done, c
<1>15. Above(Parent(q), at)
  <2>1. k - 1 <= Len(at) BY <1>3, <1>4, <1>6
  <2>2. \A i \in 1..(k - 1) : Parent(q)[i] = at[i]
    <3> TAKE i \in 1..(k - 1)
    <3>1. i \in 1..Len(at) /\ i <= Len(c) BY <1>3, <2>1
    <3>2. Parent(q)[i] = c[i] BY <1>11, <1>13 DEF Above
    <3> QED BY <1>4, <3>1, <3>2
  <2> QED BY <1>11, <2>1, <2>2 DEF Above
<1>16. Above(q, p) BY <1>7, <1>9 DEF Above
<1>17. ASSUME q # p PROVE Done(Parent(p))
  <2>1. k # Len(p) BY <1>2, <1>9, <1>17, SamePath
  <2>2. /\ Parent(p) \in Paths /\ Len(Parent(p)) = Len(p) - 1
        /\ \A i \in 1..(Len(p) - 1) : Parent(p)[i] = p[i]
    BY <1>2, LastStep
  <2>3. k <= Len(Parent(p)) /\ \A i \in 1..k : Parent(p)[i] = p[i] BY <1>3, <1>7, <2>1, <2>2
  <2>4. Parent(p)[k] < c[k] /\ \A i \in 1..(k - 1) : Parent(p)[i] = c[i]
    BY <1>3, <1>6, <1>7, <2>3
  <2> QED BY <2>3, <2>4 DEF Done, Before, c
<1>18. IsPrefix(q, p) /\ IsPrefix(Parent(q), at)
  BY <1>1, <1>2, <1>9, <1>11, <1>15, <1>16, PrefixIsAbove
<1> QED BY <1>8, <1>10, <1>12, <1>14, <1>17, <1>18 DEF Values

\* What is owned as it should be is reached when the conversion fails.
LEMMA OwnedIsReached ==
  ASSUME TypeOK, \A p \in Values : home[p] = Owner(p)
  PROVE  \A p \in Values : Reached(p)
<1>1. ASSUME NEW p \in Values, home[p] = "slot" PROVE p \in ToFree
  <2>1. Done(p) /\ (Len(p) = 1 \/ ~Done(Parent(p))) BY <1>1 DEF Owner
  <2>2. CASE ~Done(Parent(p)) BY <1>1, <2>1, <2>2, Frontier DEF ToFree
  <2>3. CASE Len(p) = 1
    <3>1. p \in Paths /\ p # <<>> /\ at \in Paths /\ <<>> \in Paths
      BY CursorIsPath, TreeShape DEF TypeOK, Values
    <3>2. Parent(p) \in Paths /\ Len(Parent(p)) = 0 BY <2>3, <3>1, LastStep
    <3>3. Parent(p) = <<>> BY <3>2, EmptySeq DEF Paths
    <3>4. IsPrefix(<<>>, at) BY <3>1, BeforeRoot, PrefixIsAbove
    <3> QED BY <1>1, <3>3, <3>4 DEF ToFree
  <2> QED BY <2>1, <2>2, <2>3
<1>2. ASSUME NEW p \in Values, home[p] = "params" PROVE p \in ToFree
  BY <1>2 DEF ToFree
<1>3. ASSUME NEW p \in Values, home[p] = "inside"
      PROVE  \E q \in ToFree : q # p /\ IsPrefix(q, p)
  <2>1. Done(p) BY <1>3 DEF Owner
  <2>2. PICK q \in Values : Done(q) /\ ~Done(Parent(q)) /\ IsPrefix(q, p) BY <2>1, Frontier
  <2>3. Owner(q) \in {"slot", "params"} BY <2>2 DEF Owner
  <2>4. q \in ToFree BY <1>1, <1>2, <2>3
  <2>5. q # p BY <1>3, <2>3
  <2> QED BY <2>2, <2>4, <2>5
<1>4. \A p \in Values : home[p] # "twice" BY DEF Owner
<1> QED BY <1>1, <1>2, <1>3, <1>4 DEF Reached

\* Freeing some of what is owned from outside keeps the rest in reach.
LEMMA FreedIsReached ==
  ASSUME TypeOK, \A p \in Values : Reached(p), UNCHANGED <<tree, at>>,
         NEW S \in SUBSET Values, \A q \in S : home[q] \in {"slot", "params"},
         home' = Freed(S)
  PROVE  \A p \in Values : Reached(p)'
<1> TAKE p \in Values
<1>1. \A q \in DOMAIN tree : home'[q] =
        IF q \in S \/ (home[q] = "inside" /\ \E r \in S : r # q /\ IsPrefix(r, q))
        THEN IF home[q] = "freed" THEN "twice" ELSE "freed"
        ELSE home[q]
  BY DEF Freed
<1>2. p \in DOMAIN tree /\ Reached(p) /\ Values \subseteq DOMAIN tree BY DEF Values
<1>3. CASE p \in S \/ (home[p] = "inside" /\ \E r \in S : r # p /\ IsPrefix(r, p))
  <2>1. home[p] # "freed" BY <1>3
  <2>2. home'[p] = "freed" BY <1>1, <1>2, <1>3, <2>1
  <2> QED BY <2>2 DEF Reached
<1>4. CASE ~(p \in S \/ (home[p] = "inside" /\ \E r \in S : r # p /\ IsPrefix(r, p)))
  <2>1. home'[p] = home[p] BY <1>1, <1>2, <1>4
  <2>2. ASSUME NEW q \in ToFree, q \notin S PROVE q \in ToFree'
    <3>1. q \in DOMAIN tree /\ home[q] # "inside" BY DEF ToFree, Values
    <3>2. home'[q] = home[q] BY <1>1, <2>2, <3>1
    <3> QED BY <3>2 DEF ToFree, Values
  <2>3. home'[p] \in {"slot", "params"} => p \in ToFree' BY <1>2, <1>4, <2>1, <2>2 DEF Reached
  <2>4. home'[p] = "inside" => \E q \in ToFree' : q # p /\ IsPrefix(q, p)
    BY <1>2, <1>4, <2>1, <2>2 DEF Reached
  <2>5. home'[p] # "twice" BY <1>2, <2>1 DEF Reached
  <2> QED BY <2>3, <2>4, <2>5 DEF Reached
<1> QED BY <1>3, <1>4

LEMMA UnwindFrees ==
  ASSUME TypeOK, \A p \in Values : Reached(p), Unwind
  PROVE  \A p \in Values : home'[p] \in {"none", "freed"}
<1> TAKE p \in Values
<1> DEFINE S == {q \in DOMAIN tree : home[q] = "params"}
                \cup UNION {Slots(q) : q \in {r \in DOMAIN tree : IsPrefix(r, at)}}
<1>1. home' = Freed(S) BY DEF Unwind
<1>2. \A q \in S : home[q] \in {"slot", "params"} BY DEF Slots
<1>3. ASSUME NEW q \in ToFree PROVE q \in S
  <2>1. q \in DOMAIN tree /\ q # <<>> BY DEF ToFree, Values
  <2>2. CASE home[q] = "params" BY <2>1, <2>2
  <2>3. CASE home[q] = "slot" /\ IsPrefix(Parent(q), at)
    <3>1. Parent(q) \in DOMAIN tree /\ q \in ChildrenOf(Parent(q))
      BY <2>1, ParentExists DEF TypeOK
    <3>2. q \in Slots(Parent(q)) BY <2>3, <3>1 DEF Slots
    <3> QED BY <2>3, <3>1, <3>2
  <2> QED BY <2>2, <2>3 DEF ToFree
<1> HIDE DEF S
<1>4. home'[p] = IF p \in S \/ (home[p] = "inside" /\ \E r \in S : r # p /\ IsPrefix(r, p))
                 THEN IF home[p] = "freed" THEN "twice" ELSE "freed"
                 ELSE home[p]
  BY <1>1 DEF Freed, Values
<1>5. Reached(p) /\ home[p] \in Homes BY DEF TypeOK, Values
<1>6. CASE home[p] \in {"slot", "params", "inside"} BY <1>3, <1>4, <1>5, <1>6 DEF Reached
<1>7. CASE home[p] \in {"none", "freed"} BY <1>2, <1>4, <1>7
<1> QED BY <1>5, <1>6, <1>7 DEF Reached, Homes

LEMMA HomesComplete ==
  ASSUME TypeOK, WalkInv, HomeInv, Complete, dir = "in", UNCHANGED <<tree, dir>>,
         \/ pc = "enter" /\ tree[at].kind \in Leaves
         \/ pc = "child" /\ next = Children(at),
         \A p \in Values : home'[p] = IF p = at THEN "slot"
                                      ELSE IF p \in ChildrenOf(at) THEN "inside" ELSE home[p]
  PROVE  HomeInv'
<1>1. /\ at \in DOMAIN tree /\ at # <<>> /\ at \in Paths BY CursorIsPath DEF TypeOK, WalkInv
<1>2. /\ Len(at) \in Nat \ {0} /\ Parent(at) \in Paths /\ Len(Parent(at)) = Len(at) - 1
      /\ Last(at) \in Nat /\ at = Append(Parent(at), Last(at)) /\ Parent(at) \in DOMAIN tree
  BY <1>1, LastStep, ParentExists DEF TypeOK
<1>3. /\ \A p \in DOMAIN tree : Done(p)' <=> Done(p) \/ p = at
      /\ \A p \in DOMAIN tree : Above(at, p) => Done(p)'
      /\ ~Done(at) /\ ~Done(Parent(at))
  BY ValueCompletes
<1>4. /\ next' = Last(at) + 1 /\ pc' = IF Len(at) > 1 THEN "child" ELSE "add"
  BY DEF Complete
<1>5. \A p \in Values : home[p] = Owner(p) BY DEF HomeInv, WalkInv, Stopped
<1>6. pc # "add" OBVIOUS
<1>7. Len(at) = 1 => at = <<next' - 1>>
  <2>1. ASSUME Len(at) = 1 PROVE at = <<next' - 1>>
    <3>1. Parent(at) = <<>> BY <1>2, <2>1, EmptySeq DEF Paths
    <3>2. next' - 1 = Last(at) BY <1>2, <1>4
    <3>3. at = Append(<<>>, next' - 1) BY <1>2, <3>1, <3>2
    <3> QED BY <3>3
  <2> QED BY <2>1
<1>8. ASSUME NEW p \in Values PROVE home'[p] = Owner(p)'
  <2>1. p \in DOMAIN tree /\ p # <<>> /\ p \in Paths BY TreeShape DEF TypeOK, Values
  <2>2. /\ Len(p) \in Nat \ {0} /\ Len(Parent(p)) = Len(p) - 1
        /\ Parent(p) \in DOMAIN tree /\ tree[Parent(p)].kind \notin Leaves
    BY <2>1, LastStep, ParentExists DEF TypeOK
  <2>3. CASE p = at
    <3>1. Done(p)' /\ home'[p] = "slot" BY <1>1, <1>3, <2>3
    <3>2. Parent(p) # at BY <1>2, <2>3
    <3>3. ~Done(Parent(p))' BY <1>2, <1>3, <2>2, <2>3, <3>2
    <3> QED BY <1>2, <1>4, <1>7, <2>3, <3>1, <3>3 DEF Owner
  <2>4. CASE p # at /\ Parent(p) = at
    <3>1. p \in ChildrenOf(at) BY <2>1, <2>4 DEF ChildrenOf
    <3>2. home'[p] = "inside" BY <2>4, <3>1
    <3>3. IsPrefix(at, p)
      <4>1. at = SubSeq(p, 1, Len(at)) BY <2>2, <2>4 DEF Parent
      <4> QED BY <2>2, <2>4, <4>1 DEF IsPrefix
    <3>4. Done(p)' /\ Done(Parent(p))' BY <1>1, <1>3, <2>1, <2>4, <3>3, PrefixIsAbove
    <3>5. Len(p) # 1 BY <1>2, <2>2, <2>4
    <3> QED BY <3>2, <3>4, <3>5 DEF Owner
  <2>5. CASE p # at /\ Parent(p) # at
    <3>1. home'[p] = home[p]
      <4>1. p \notin ChildrenOf(at) BY <2>5 DEF ChildrenOf
      <4> QED BY <2>5, <4>1
    <3>2. (Done(p)' <=> Done(p)) /\ (Done(Parent(p))' <=> Done(Parent(p))) BY <1>3, <2>1, <2>2, <2>5
    <3>3. ~(pc' = "add" /\ p = <<next' - 1>>) BY <1>2, <1>4, <1>7, <2>5
    <3>4. Owner(p)' = Owner(p) BY <1>6, <3>2, <3>3 DEF Owner
    <3> QED BY <1>5, <3>1, <3>4
  <2> QED BY <2>3, <2>4, <2>5
<1>9. pc' \notin Stopped /\ dir' = "in" /\ Values' = Values BY <1>4 DEF Stopped, Values
<1> QED BY <1>8, <1>9 DEF HomeInv, Stopped

\* Giving up with nothing freed yet.
LEMMA HomesStopped ==
  ASSUME TypeOK, HomeInv, pc \notin Stopped, pc' = "unwind",
         UNCHANGED <<tree, dir, at, home>>
  PROVE  HomeInv'
<1>1. dir = "in" => \A p \in Values : Reached(p) BY OwnedIsReached DEF HomeInv
<1>2. Values' = Values /\ ToFree' = ToFree BY DEF Values, ToFree
<1>3. dir = "in" => \A p \in Values : Reached(p)' BY <1>1, <1>2 DEF Reached
<1> QED BY <1>2, <1>3 DEF HomeInv, Stopped

LEMMA HomesFreed ==
  ASSUME TypeOK, HomeInv, dir = "in", pc \notin Stopped, pc' = "unwind",
         UNCHANGED <<tree, dir, at>>,
         NEW S \in SUBSET Values, \A q \in S : home[q] \in {"slot", "params"}, home' = Freed(S)
  PROVE  HomeInv'
<1>1. \A p \in Values : Reached(p) BY OwnedIsReached DEF HomeInv
<1>2. \A p \in Values : Reached(p)' BY <1>1, FreedIsReached
<1>3. Values' = Values BY DEF Values
<1> QED BY <1>2, <1>3 DEF HomeInv, Stopped

\* Nobody takes over a value, and none is completed.
LEMMA HomesCarried ==
  ASSUME HomeInv, UNCHANGED <<tree, dir, home>>, pc \notin Stopped, pc' \notin Stopped,
         pc # "add", pc' # "add", \A p \in DOMAIN tree : Done(p)' <=> Done(p), TypeOK
  PROVE  HomeInv'
<1>1. Values' = Values BY DEF Values
<1>2. ASSUME NEW p \in Values PROVE Owner(p)' = Owner(p)
  <2>1. p \in DOMAIN tree /\ p # <<>> BY DEF Values
  <2>2. Parent(p) \in DOMAIN tree BY <2>1, ParentExists DEF TypeOK
  <2>3. (Done(p)' <=> Done(p)) /\ (Done(Parent(p))' <=> Done(Parent(p))) BY <2>1, <2>2
  <2> QED BY <2>3 DEF Owner
<1> QED BY <1>1, <1>2 DEF HomeInv, Stopped

LEMMA HomesKept ==
  ASSUME TypeOK, WalkInv, HomeInv, [Next]_vars
  PROVE  HomeInv'
<1>1. at \in DOMAIN tree BY DEF TypeOK
<1>2. ASSUME dir = "out", dir' = "out", UNCHANGED <<tree, home>> PROVE HomeInv'
  BY <1>2 DEF HomeInv, Values
<1>3. dir \in {"in", "out"} /\ (fault = "none" => pc \notin Stopped) BY DEF TypeOK, WalkInv
<1>4. ASSUME TooManyParameters \/ TooDeep PROVE HomeInv'
  BY <1>4, HomesStopped DEF TooManyParameters, TooDeep, Fail, Stopped, walk
<1>5. ASSUME Parameter PROVE HomeInv'
  <2>1. UNCHANGED <<tree, dir, home>> /\ pc = "convert" /\ at = <<>>
    BY <1>5 DEF Parameter, WalkInv, Stopped
  <2>2. CASE pc' = "unwind" /\ UNCHANGED at BY <2>1, <2>2, HomesStopped DEF Stopped
  <2>3. CASE at' = <<next>> /\ pc' = "enter"
    <3>1. Cursor' = Cursor
      <4>1. <<next>> = Append(<<>>, next) OBVIOUS
      <4> QED BY <2>1, <2>3, <4>1 DEF Cursor
    <3>2. \A p \in DOMAIN tree : Done(p)' <=> Done(p) BY <3>1 DEF Done, Before
    <3> QED BY <2>1, <2>3, <3>2, HomesCarried DEF Stopped
  <2> QED BY <1>5, <2>2, <2>3 DEF Parameter, ChargeFails, Fail, walk
<1>6. ASSUME ParameterAdded PROVE HomeInv'
  <2> DEFINE v == <<next - 1>>
  <2>1. /\ UNCHANGED <<tree, dir, at, next>> /\ pc = "add" /\ at = <<>> /\ dir = "in"
        /\ next \in Nat /\ next > 0 /\ next <= Children(<<>>)
    BY <1>6 DEF ParameterAdded, walk, WalkInv, Stopped, TypeOK
  <2>2. v = Append(<<>>, next - 1) /\ Len(v) = 1 /\ v[1] = next - 1 /\ v # <<>> BY <2>1
  <2>3. v \in Values
    <3>1. <<>> \in DOMAIN tree /\ Children(<<>>) \in Nat BY TreeShape DEF TypeOK
    <3>2. next - 1 \in Nat /\ next - 1 < Children(<<>>) BY <2>1, <3>1
    <3>3. Append(<<>>, next - 1) \in DOMAIN tree BY <3>1, <3>2, ChildExists DEF TypeOK
    <3> QED BY <2>2, <3>3 DEF Values
  <2>4. Done(v)
    <3>1. v \in Paths /\ <<>> \in Paths /\ Len(<<>>) = 0
      BY <2>3, TreeShape, EmptySeq DEF TypeOK, Values
    <3>2. Above(<<>>, v) BY <3>1, BeforeRoot
    <3>3. Len(<<>>) < Len(v) /\ v[Len(<<>>) + 1] < next BY <2>1, <2>2, <3>1
    <3> HIDE DEF v
    <3>4. Before(v, Append(<<>>, next)) BY <2>1, <3>1, <3>2, <3>3, AppendOrder
    <3> QED BY <2>1, <3>4 DEF Done, Cursor
  <2>5. \A p \in Values : home[p] = Owner(p) BY <2>1 DEF HomeInv, Stopped
  <2>6. home[v] = "slot" BY <2>1, <2>2, <2>3, <2>4, <2>5 DEF Owner
  <2>7. CASE home' = Freed({v}) /\ pc' = "unwind"
    <3>1. {v} \in SUBSET Values /\ \A q \in {v} : home[q] \in {"slot", "params"}
      BY <2>3, <2>6
    <3> QED BY <2>1, <2>7, <3>1, HomesFreed DEF Stopped
  <2>8. CASE home' = [home EXCEPT ![v] = "params"] /\ pc' = "convert"
    <3>1. Cursor' = Cursor BY <2>1, <2>8 DEF Cursor
    <3>2. \A p : Done(p)' <=> Done(p) BY <3>1 DEF Done, Before
    <3>3. ASSUME NEW p \in Values PROVE home'[p] = Owner(p)'
      <4>1. home'[p] = IF p = v THEN "params" ELSE home[p] BY <2>8 DEF TypeOK, Values
      <4>2. home[p] = Owner(p) BY <2>5
      <4>3. CASE p = v BY <2>2, <2>4, <2>8, <3>2, <4>1, <4>3 DEF Owner
      <4>4. CASE p # v
        <5>1. Owner(p)' = Owner(p) BY <2>1, <2>8, <3>2, <4>4 DEF Owner
        <5> QED BY <4>1, <4>2, <4>4, <5>1
      <4> QED BY <4>3, <4>4
    <3>4. Values' = Values BY <2>1 DEF Values
    <3> QED BY <2>1, <2>8, <3>3, <3>4 DEF HomeInv, Stopped
  <2> QED BY <1>6, <2>7, <2>8 DEF ParameterAdded, Fail
<1>7. ASSUME Converted PROVE HomeInv'
  <2>1. UNCHANGED <<tree, dir, at, next, home>> /\ pc = "convert" /\ pc' = "accepted"
    BY <1>7 DEF Converted, walk
  <2>2. Cursor' = Cursor BY <2>1 DEF Cursor
  <2>3. \A p \in DOMAIN tree : Done(p)' <=> Done(p) BY <2>2 DEF Done, Before
  <2> QED BY <2>1, <2>3, HomesCarried DEF Stopped
<1>8. ASSUME EnterContainer PROVE HomeInv'
  <2>1. UNCHANGED <<tree, dir, at, home>> /\ pc = "enter" BY <1>8 DEF EnterContainer, Entered
  <2>2. CASE pc' = "unwind" BY <2>1, <2>2, HomesStopped DEF Stopped
  <2>3. CASE pc' = "child" /\ next' = 0
    <3>1. \A p \in DOMAIN tree : Done(p)' <=> Done(p) BY <2>1, <2>3, ContainerEntered
    <3> QED BY <2>1, <2>3, <3>1, HomesCarried DEF Stopped
  <2> QED BY <1>8, <2>2, <2>3 DEF EnterContainer, ChargeFails, Fail
<1>9. ASSUME NumberIn \/ LeafIn PROVE HomeInv'
  <2>1. /\ pc = "enter" /\ dir = "in" /\ tree[at].kind \in Leaves /\ UNCHANGED <<tree, dir>>
    BY <1>9 DEF NumberIn, LeafIn, Entered, Node, Leaves
  <2>2. CASE pc' = "unwind" /\ UNCHANGED <<walk, home>>
    BY <2>1, <2>2, HomesStopped DEF Stopped, walk
  <2>3. CASE home' = [home EXCEPT ![at] = "slot"] /\ Complete
    <3>1. ChildrenOf(at) = {} BY <1>1, <2>1, TreeShape DEF TypeOK
    <3>2. \A p \in Values : home'[p] = IF p = at THEN "slot"
                                       ELSE IF p \in ChildrenOf(at) THEN "inside" ELSE home[p]
      BY <2>3, <3>1 DEF TypeOK, Values
    <3> QED BY <2>1, <2>3, <3>2, HomesComplete
  <2> QED BY <1>9, <2>2, <2>3 DEF NumberIn, LeafIn, LeafCharged, ChargeFails, Fail
<1>10. ASSUME ChildOf PROVE HomeInv'
  <2>1. pc = "child" /\ UNCHANGED <<tree, dir, home>> BY <1>10 DEF ChildOf
  <2>2. CASE pc' = "unwind" /\ UNCHANGED at BY <2>1, <2>2, HomesStopped DEF Stopped
  <2>3. CASE at' = Append(at, next) /\ pc' = "enter"
    <3>1. Cursor' = Cursor BY <2>1, <2>3 DEF Cursor
    <3>2. \A p \in DOMAIN tree : Done(p)' <=> Done(p) BY <3>1 DEF Done, Before
    <3> QED BY <2>1, <2>3, <3>2, HomesCarried DEF Stopped
  <2> QED BY <1>10, <2>2, <2>3 DEF ChildOf, ChargeFails, Fail, walk
<1>11. ASSUME ContainerIn PROVE HomeInv'
  <2>1. /\ pc = "child" /\ dir = "in" /\ next = Children(at) /\ Complete
        /\ home' = [p \in DOMAIN tree |-> IF p = at THEN "slot"
                                          ELSE IF p \in ChildrenOf(at) THEN "inside" ELSE home[p]]
        /\ UNCHANGED <<tree, dir>>
    BY <1>11 DEF ContainerIn
  <2>2. \A p \in Values : home'[p] = IF p = at THEN "slot"
                                     ELSE IF p \in ChildrenOf(at) THEN "inside" ELSE home[p]
    BY <2>1 DEF Values
  <2> QED BY <2>1, <2>2, HomesComplete
<1>12. ASSUME ContainerFails PROVE HomeInv'
  <2>1. /\ pc = "child" /\ dir = "in" /\ home' = Freed(Slots(at)) /\ pc' = "unwind"
        /\ UNCHANGED <<tree, dir, at>>
    BY <1>12 DEF ContainerFails, Fail, walk
  <2>2. Slots(at) \in SUBSET Values /\ \A q \in Slots(at) : home[q] \in {"slot", "params"}
    BY DEF Slots, ChildrenOf, Values
  <2> QED BY <2>1, <2>2, HomesFreed DEF Stopped
<1>13. ASSUME Unwind PROVE HomeInv'
  <2>1. pc = "unwind" /\ dir = "in" /\ pc' = "failed" /\ UNCHANGED <<tree, dir>>
    BY <1>13 DEF Unwind
  <2>2. \A p \in Values : home'[p] \in {"none", "freed"}
    BY <1>13, <2>1, UnwindFrees DEF HomeInv
  <2> QED BY <2>1, <2>2 DEF HomeInv, Stopped, Values
<1>14. ASSUME Row PROVE HomeInv'
  <2>1. /\ pc = "accepted" /\ dir = "in" /\ dir' = "out" /\ at = <<>>
        /\ next = Children(<<>>) /\ UNCHANGED <<tree, home>>
    BY <1>14 DEF Row, WalkInv, Stopped
  <2>2. \A p \in Values : Done(p) BY <2>1, AllDone
  <2>3. ASSUME NEW p \in Values PROVE home'[p] = IF Len(p) = 1 THEN "params" ELSE "inside"
    <3>1. p \in DOMAIN tree /\ p # <<>> /\ p \in Paths BY TreeShape DEF TypeOK, Values
    <3>2. Len(p) \in Nat \ {0} /\ Len(Parent(p)) = Len(p) - 1 /\ Parent(p) \in DOMAIN tree
      BY <3>1, LastStep, ParentExists DEF TypeOK
    <3>3. Len(p) # 1 => Parent(p) # <<>> BY <3>2, EmptySeq
    <3>4. home[p] = Owner(p) BY <2>1 DEF HomeInv, Stopped
    <3> QED BY <2>1, <2>2, <3>2, <3>3, <3>4 DEF Owner, Values
  <2> QED BY <2>1, <2>3 DEF HomeInv, Values
<1>15. ASSUME LeafOut \/ ContainerOut \/ OutputFails \/ Column PROVE HomeInv'
  <2>1. UNCHANGED <<tree, dir, home>>
    BY <1>15 DEF LeafOut, LeafCharged, ContainerOut, OutputFails, Column
  <2>2. dir = "out" BY <1>15 DEF LeafOut, ContainerOut, OutputFails, Column, WalkInv
  <2> QED BY <1>2, <2>1, <2>2
<1>16. ASSUME UNCHANGED vars PROVE HomeInv'
  <2>1. UNCHANGED <<tree, dir, pc, at, next, home>> BY <1>16 DEF vars, walk
  <2>2. Cursor' = Cursor BY <2>1 DEF Cursor
  <2>3. \A p : Done(p)' <=> Done(p) BY <2>2 DEF Done, Before
  <2>4. \A p : Owner(p)' = Owner(p) BY <2>1, <2>3 DEF Owner
  <2>5. Values' = Values /\ ToFree' = ToFree BY <2>1 DEF Values, ToFree
  <2>6. \A p : Reached(p)' <=> Reached(p) BY <2>1, <2>5 DEF Reached
  <2> QED BY <2>1, <2>4, <2>5, <2>6 DEF HomeInv
<1> QED BY <1>4, <1>5, <1>6, <1>7, <1>8, <1>9, <1>10, <1>11, <1>12, <1>13, <1>14, <1>15,
           <1>16 DEF Next

-----------------------------------------------------------------------------
(* The path of an error. *)

LEMMA EntryShape ==
  ASSUME NEW p, NEW i \in Nat
  PROVE  /\ EntryOf(p, i) \in Nat
         /\ StartsEntry(p, 0)
         /\ ~StartsEntry(p, i) => i - 1 \in Nat /\ EntryOf(p, i - 1) = EntryOf(p, i)
<1>1. i \div 2 \in Nat /\ i % 2 \in 0..1 /\ i = (2 * (i \div 2)) + (i % 2) BY SMTT(30)
<1>2. 0 % 2 = 0 BY SMTT(30)
<1>3. ASSUME i % 2 # 0 PROVE i - 1 \in Nat /\ (i - 1) \div 2 = i \div 2
  <2>1. i = (2 * (i \div 2)) + 1 BY <1>1, <1>3
  <2>2. i - 1 \in Nat BY <1>1, <2>1
  <2>3. (i - 1) \div 2 \in Int /\ (i - 1) % 2 \in 0..1
        /\ i - 1 = (2 * ((i - 1) \div 2)) + ((i - 1) % 2)
    BY <2>2, SMTT(30)
  <2> QED BY <1>1, <2>1, <2>2, <2>3
<1> QED BY <1>1, <1>2, <1>3 DEF EntryOf, StartsEntry

LEMMA LocationShape ==
  ASSUME NEW p \in Paths, p # <<>>
  PROVE  /\ Location(p) \in Paths /\ Len(Location(p)) = Len(p) - 1
         /\ \A k \in 1..(Len(p) - 1) : Location(p)[k] = EntryOf(SubSeq(p, 1, k), p[k + 1])
<1>1. Len(p) \in Nat \ {0} BY LastStep
<1>2. \A k \in 1..(Len(p) - 1) : EntryOf(SubSeq(p, 1, k), p[k + 1]) \in Nat
  <2> TAKE k \in 1..(Len(p) - 1)
  <2>1. k + 1 \in 1..Len(p) BY <1>1
  <2>2. p[k + 1] \in Nat BY <2>1, ElementOfSeq DEF Paths
  <2> QED BY <2>2, EntryShape
<1> DEFINE n == Len(p) - 1
<1>3. n \in Nat BY <1>1
<1>4. Location(p) = [k \in 1..n |-> EntryOf(SubSeq(p, 1, k), p[k + 1])] BY DEF Location
<1>5. Location(p) \in [1..n -> Nat] BY <1>2, <1>4
<1> HIDE DEF n
<1>6. Location(p) \in Seq(Nat) /\ Len(Location(p)) = n BY <1>3, <1>5
<1> QED BY <1>4, <1>6 DEF Paths, n

LEMMA LocationAbove ==
  ASSUME NEW p \in Paths, NEW q \in Paths, p # <<>>, q # <<>>, Above(p, q)
  PROVE  Above(Location(p), Location(q))
<1>1. /\ Len(p) \in Nat \ {0} /\ Len(q) \in Nat \ {0} /\ Len(p) <= Len(q)
      /\ Len(Location(p)) = Len(p) - 1 /\ Len(Location(q)) = Len(q) - 1
  BY LastStep, LocationShape DEF Above
<1>2. ASSUME NEW k \in 1..(Len(p) - 1) PROVE Location(p)[k] = Location(q)[k]
  <2>1. k \in 0..Len(p) /\ k \in 0..Len(q) /\ k + 1 \in 1..Len(p) /\ k \in 1..(Len(q) - 1)
    BY <1>1
  <2>2. /\ SubSeq(p, 1, k) \in Paths /\ SubSeq(q, 1, k) \in Paths
        /\ Len(SubSeq(p, 1, k)) = k /\ Len(SubSeq(q, 1, k)) = k
        /\ \A i \in 1..k : SubSeq(p, 1, k)[i] = p[i] /\ SubSeq(q, 1, k)[i] = q[i]
    BY <2>1, Cutting
  <2>3. \A i \in 1..k : p[i] = q[i] BY <1>1, <2>1 DEF Above
  <2>4. SubSeq(p, 1, k) = SubSeq(q, 1, k) BY <2>2, <2>3, SamePath
  <2>5. p[k + 1] = q[k + 1] BY <2>1 DEF Above
  <2>6. Location(p)[k] = EntryOf(SubSeq(p, 1, k), p[k + 1]) BY LocationShape
  <2>7. Location(q)[k] = EntryOf(SubSeq(q, 1, k), q[k + 1]) BY <2>1, LocationShape
  <2> QED BY <2>4, <2>5, <2>6, <2>7
<1> QED BY <1>1, <1>2 DEF Above

LEMMA LocationOfChild ==
  ASSUME NEW p \in Paths, p # <<>>, NEW i \in Nat
  PROVE  LET q == Append(p, i)
         IN /\ q \in Paths /\ q # <<>> /\ Len(Location(q)) = Len(p)
            /\ \A k \in 1..(Len(p) - 1) : Location(q)[k] = Location(p)[k]
            /\ Location(q)[Len(p)] = EntryOf(p, i)
<1> DEFINE q == Append(p, i)
<1>1. /\ q \in Paths /\ Len(q) = Len(p) + 1 /\ q[Len(p) + 1] = i /\ q # <<>>
      /\ Len(p) \in Nat \ {0} /\ \A k \in 1..Len(p) : q[k] = p[k]
  BY Appending, AppendParent, LastStep
<1> HIDE DEF q
<1>2. Above(p, q) BY <1>1 DEF Above
<1>3. /\ Above(Location(p), Location(q)) /\ Len(Location(p)) = Len(p) - 1
      /\ Len(Location(q)) = Len(q) - 1
  BY <1>1, <1>2, LocationAbove, LocationShape
<1>4. \A k \in 1..(Len(p) - 1) : Location(q)[k] = Location(p)[k] BY <1>3 DEF Above
<1>5. SubSeq(q, 1, Len(p)) = p
  <2>1. Len(p) \in 0..Len(q) BY <1>1
  <2>2. /\ SubSeq(q, 1, Len(p)) \in Paths /\ Len(SubSeq(q, 1, Len(p))) = Len(p)
        /\ \A k \in 1..Len(p) : SubSeq(q, 1, Len(p))[k] = q[k]
    BY <1>1, <2>1, Cutting
  <2> QED BY <1>1, <2>2, SamePath
<1>6. Location(q)[Len(p)] = EntryOf(p, i)
  <2>1. Len(p) \in 1..(Len(q) - 1) BY <1>1
  <2>2. Location(q)[Len(p)] = EntryOf(SubSeq(q, 1, Len(p)), q[Len(p) + 1])
    BY <1>1, <2>1, LocationShape
  <2> QED BY <1>1, <1>5, <2>2
<1>7. Len(Location(q)) = Len(p) BY <1>1, <1>3
<1> QED BY <1>1, <1>4, <1>6, <1>7 DEF q

LEMMA ReportedShape ==
  ASSUME TypeOK
  PROVE  /\ Reported \in Paths /\ Len(Reported) = pathLen
         /\ \A k \in 1..pathLen : Reported[k] = path[k - 1]
<1>1. MaxDepth \in Nat /\ pathLen \in Nat /\ pathLen <= MaxDepth + 1 BY DepthAssumption DEF TypeOK
<1>2. \A k \in 1..pathLen : k - 1 \in 0..MaxDepth BY <1>1
<1>3. Reported \in [1..pathLen -> Nat] BY <1>2 DEF Reported, TypeOK
<1>4. Reported \in Seq(Nat) /\ Len(Reported) = pathLen BY <1>1, <1>3
<1> QED BY <1>4 DEF Reported, Paths

LEMMA SameLocations ==
  ASSUME UNCHANGED tree
  PROVE  \A p : Location(p)' = Location(p)
<1> QED BY DEF Location, EntryOf

\* What a value of a state says of the next one.
LEMMA NamedLocates ==
  ASSUME TypeOK, NEW q \in Values, Named(q), at # <<>>, Above(Location(at), Reported)
  PROVE  NamesIt /\ Located
<1>1. q \in Paths /\ q \in DOMAIN tree /\ q # <<>> BY TreeShape DEF TypeOK, Values
<1>2. Len(q) > 0 BY <1>1, LastStep
<1>3. NamesIt BY <1>1, <1>2 DEF NamesIt, Named
<1>4. Location(at) \in Paths /\ Reported \in Paths BY CursorIsPath, LocationShape, ReportedShape
<1>5. IsPrefix(Location(at), Reported) BY <1>4, PrefixIsAbove
<1> QED BY <1>3, <1>5 DEF Located

\* A path as long as the depth of the value is the location of the value.
LEMMA ReportedHere ==
  ASSUME TypeOK, NEW p \in Paths, p # <<>>, pathLen = Len(p) - 1,
         \A k \in 1..(Len(p) - 1) : path[k - 1] = Location(p)[k]
  PROVE  Reported = Location(p)
<1>1. /\ Reported \in Paths /\ Len(Reported) = pathLen
      /\ \A k \in 1..pathLen : Reported[k] = path[k - 1]
  BY ReportedShape
<1>2. Location(p) \in Paths /\ Len(Location(p)) = Len(p) - 1 BY LocationShape
<1>3. \A k \in 1..Len(Reported) : Reported[k] = Location(p)[k] BY <1>1
<1> QED BY <1>1, <1>2, <1>3, SamePath

LEMMA PathStopped ==
  ASSUME TypeOK, WalkInv, PathInv, UNCHANGED <<tree, dir, at, path, pathLen>>, pc' \in Stopped
  PROVE  PathInv'
<1>1. Location(at)' = Location(at) /\ Reported' = Reported BY DEF Location, EntryOf, Reported
<1>2. NamesIt' <=> NamesIt BY <1>1, SameLocations DEF NamesIt
<1>3. Located' <=> Located BY <1>1, <1>2 DEF Located
<1>4. ASSUME dir = "in", at # <<>>, pc \in {"enter", "child"} PROVE Located
  <2>1. at \in Paths BY CursorIsPath
  <2>2. CASE pc = "enter"
    <3>1. NamesIt /\ Above(Location(at), Reported) BY <1>4, <2>2 DEF PathInv
    <3>2. IsPrefix(Location(at), Reported)
      BY <1>4, <2>1, <3>1, LocationShape, ReportedShape, PrefixIsAbove
    <3> QED BY <3>1, <3>2 DEF Located
  <2>3. CASE pc = "child"
    <3>1. PICK q \in Values : Named(q) /\ Above(at, q) BY <1>4, <2>3 DEF PathInv
    <3>2. q \in Paths /\ q # <<>> BY TreeShape DEF TypeOK, Values
    <3>3. Above(Location(at), Reported) BY <1>4, <2>1, <3>1, <3>2, LocationAbove DEF Named
    <3> QED BY <1>4, <3>1, <3>3, NamedLocates
  <2> QED BY <1>4, <2>2, <2>3
<1>5. dir = "in" /\ at # <<>> => Located BY <1>4 DEF WalkInv, PathInv
<1> QED BY <1>3, <1>5 DEF PathInv, Stopped

\* The same facts without assumptions, which hold of the next state too.
LEMMA NamedIsLocated ==
  \A v : TypeOK /\ v \in Values /\ Named(v) /\ at # <<>> /\ Above(Location(at), Reported)
        => NamesIt /\ Located
<1> QED BY NamedLocates

LEMMA HereIsReported ==
  \A v \in Paths : TypeOK /\ v # <<>> /\ pathLen = Len(v) - 1
    /\ (\A k \in 1..(Len(v) - 1) : path[k - 1] = Location(v)[k])
    => Reported = Location(v)
<1> QED BY ReportedHere

LEMMA NextLocates ==
  ASSUME TypeOK', UNCHANGED tree, NEW q \in Values, Named(q)', at' # <<>>,
         Above(Location(at), Reported)'
  PROVE  NamesIt' /\ Located'
<1>1. (\A v : TypeOK /\ v \in Values /\ Named(v) /\ at # <<>> /\ Above(Location(at), Reported)
               => NamesIt /\ Located)'
  BY NamedIsLocated, PTL
<1>2. Values' = Values BY DEF Values
<1> QED BY <1>1, <1>2

LEMMA NextHere ==
  ASSUME TypeOK', UNCHANGED tree, NEW p \in Paths, p # <<>>, pathLen' = Len(p) - 1,
         \A k \in 1..(Len(p) - 1) : path'[k - 1] = Location(p)[k]
  PROVE  Reported' = Location(p)
<1>1. (\A v \in Paths : TypeOK /\ v # <<>> /\ pathLen = Len(v) - 1
         /\ (\A k \in 1..(Len(v) - 1) : path[k - 1] = Location(v)[k])
         => Reported = Location(v))'
  BY HereIsReported, PTL
<1>2. Location(p)' = Location(p) BY SameLocations
<1> QED BY <1>1, <1>2

\* A value that is entered is where the path says.
LEMMA EnteredHere ==
  ASSUME TypeOK, WalkInv, PathInv, TypeOK', Entered, dir = "in", UNCHANGED <<tree, dir>>
  PROVE  /\ at \in Values /\ at \in Paths /\ Reported' = Location(at)
         /\ \A k \in 1..(Len(at) - 1) : path'[k - 1] = Location(at)[k]
<1>1. at \in Paths /\ at \in Values BY CursorIsPath DEF TypeOK, WalkInv, Entered, Values
<1>2. at # <<>> /\ pathLen' = Len(at) - 1 BY <1>1 DEF Entered, Depth, Values
<1>3. \A k \in 1..(Len(at) - 1) : path'[k - 1] = Location(at)[k] BY DEF Entered, PathInv
<1> QED BY <1>1, <1>2, <1>3, NextHere

LEMMA AboveItself ==
  ASSUME NEW p \in Paths
  PROVE  Above(p, p)
<1> QED BY LenProperties DEF Above, Paths

\* Refused while it is entered.
LEMMA PathRefused ==
  ASSUME TypeOK, WalkInv, PathInv, TypeOK', Entered, UNCHANGED <<tree, dir, at>>,
         pc' \in Stopped
  PROVE  PathInv'
<1>1. CASE dir = "in"
  <2>1. /\ at \in Values /\ at \in Paths /\ Reported' = Location(at) BY <1>1, EnteredHere
  <2>2. at # <<>> /\ Location(at) \in Paths BY <2>1, LocationShape DEF Values
  <2>3. Location(at)' = Location(at) BY DEF Location, EntryOf
  <2>4. Named(at)' BY <2>1, <2>3 DEF Named, Values
  <2>5. Above(Location(at), Reported)' BY <2>1, <2>2, <2>3, AboveItself DEF Above
  <2>6. \A q \in Values : q = at => Named(q)' BY <2>4 DEF Named
  <2>7. Located' BY <2>1, <2>2, <2>5, <2>6, NextLocates
  <2> QED BY <2>7 DEF PathInv, Stopped
<1>2. CASE dir # "in" BY <1>2 DEF PathInv
<1> QED BY <1>1, <1>2

\* A value is complete, and the path names it or something inside it.
LEMMA PathComplete ==
  ASSUME TypeOK, WalkInv, PathInv, Complete, pc \in {"enter", "child"},
         UNCHANGED <<tree, dir, path>>, dir = "in",
         NEW q \in Values, q[1] = at[1], Location(q) = Reported', Above(at, q)
  PROVE  PathInv'
<1>1. at \in DOMAIN tree /\ at # <<>> /\ at \in Paths BY CursorIsPath DEF TypeOK, WalkInv
<1>2. /\ Len(at) \in Nat \ {0} /\ Parent(at) \in Paths /\ Len(Parent(at)) = Len(at) - 1
      /\ Last(at) \in Nat /\ at = Append(Parent(at), Last(at))
      /\ \A i \in 1..(Len(at) - 1) : Parent(at)[i] = at[i]
  BY <1>1, LastStep
<1>3. at' = Parent(at) /\ next' = Last(at) + 1 /\ next' - 1 = Last(at) BY <1>2 DEF Complete
<1>4. CASE Len(at) > 1
  <2>1. pc' = "child" /\ Parent(at) # <<>> /\ at'[1] = at[1]
    <3>1. Parent(at) # <<>> BY <1>2, <1>4, EmptySeq
    <3> QED BY <1>2, <1>3, <1>4, <3>1 DEF Complete
  <2>2. Above(Parent(at), at) BY <1>2 DEF Above
  <2>3. Above(Parent(at), q) BY <1>2, <2>2 DEF Above
  <2>4. Above(Location(Parent(at)), Location(at)) /\ Len(Location(Parent(at))) = Len(at) - 2
    BY <1>1, <1>2, <2>1, <2>2, LocationAbove, LocationShape
  <2>5. \A k \in 1..(Len(at) - 2) : path[k - 1] = Location(Parent(at))[k]
    <3> TAKE k \in 1..(Len(at) - 2)
    <3>1. k \in 1..(Len(at) - 1) BY <1>2
    <3>2. path[k - 1] = Location(at)[k] BY <3>1 DEF PathInv
    <3> QED BY <2>4, <3>2 DEF Above
  <2>6. Location(at)' = Location(Parent(at)) /\ Location(q)' = Location(q)
    BY <1>3, SameLocations
  <2>7. Named(q)' BY <2>1, <2>6 DEF Named, Values
  <2>8. Above(Append(at, next - 1), q)' BY <1>2, <1>3 DEF Above
  <2>9. Len(at') - 1 = Len(at) - 2 BY <1>2, <1>3
  <2>10. \A k \in 1..(Len(at') - 1) : path'[k - 1] = Location(at)'[k] BY <2>5, <2>6, <2>9
  <2>11. Values' = Values BY DEF Values
  <2>12. Above(at, q)' BY <1>3, <2>3 DEF Above
  <2> QED BY <2>1, <2>7, <2>8, <2>10, <2>11, <2>12 DEF PathInv, Stopped
<1>5. CASE Len(at) = 1
  <2>1. pc' = "add" BY <1>5 DEF Complete
  <2> QED BY <2>1 DEF PathInv, Stopped
<1> QED BY <1>2, <1>4, <1>5

\* The next child of a container: the path leads to it.
LEMMA PathDown ==
  ASSUME TypeOK, WalkInv, PathInv, TypeOK', dir = "in", pc = "child", next < Children(at),
         path' = EntryPath, UNCHANGED <<tree, dir>>,
         pathLen' = IF StartsEntry(at, next) THEN Depth + 1 ELSE pathLen,
         \/ at' = Append(at, next) /\ pc' = "enter"
         \/ StartsEntry(at, next) /\ at' = at /\ pc' \in Stopped
  PROVE  PathInv'
<1> DEFINE s == Append(at, next)
           n == Len(at)
<1>1. /\ at \in DOMAIN tree /\ at # <<>> /\ at \in Paths /\ next \in Nat
  BY CursorIsPath DEF TypeOK, WalkInv
<1>2. n \in Nat \ {0} BY <1>1, LastStep
<1>3. /\ s \in Paths /\ s # <<>> /\ Len(s) = n + 1 /\ Len(Location(s)) = n
      /\ \A k \in 1..(n - 1) : Location(s)[k] = Location(at)[k]
      /\ Location(s)[n] = EntryOf(at, next)
      /\ \A k \in 1..n : s[k] = at[k]
      /\ Location(s) \in Paths
  BY <1>1, LocationOfChild, LocationShape, Appending
<1>4. s \in Values BY <1>1, <1>3, ChildExists DEF TypeOK, Values
<1>5. s[1] = at[1] /\ Above(at, s) BY <1>2, <1>3 DEF Above
<1> HIDE DEF s, n
<1>6. Depth = n - 1 /\ Depth \in 0..MaxDepth BY <1>2, DepthAssumption DEF WalkInv, Depth, n
<1>7. \A k \in 1..(n - 1) : path[k - 1] = Location(s)[k] BY <1>3 DEF PathInv, n
<1>8. /\ \A k \in 1..n : path'[k - 1] = Location(s)[k]
      /\ Above(Location(s), Reported')
      /\ \E q \in Values : q[1] = at[1] /\ Location(q) = Reported'
  <2>1. CASE StartsEntry(at, next)
    <3>1. \A k \in 0..MaxDepth : path'[k] = IF k = n - 1 THEN EntryOf(at, next) ELSE path[k]
      BY <1>6, <2>1 DEF EntryPath, TypeOK
    <3>2. \A k \in 1..n : path'[k - 1] = Location(s)[k]
      <4> TAKE k \in 1..n
      <4>1. k - 1 \in 0..MaxDepth BY <1>2, <1>6, DepthAssumption
      <4>2. CASE k = n BY <1>3, <3>1, <4>1, <4>2
      <4>3. CASE k # n
        <5>1. k \in 1..(n - 1) /\ k - 1 # n - 1 BY <1>2, <4>3
        <5> QED BY <1>7, <3>1, <4>1, <5>1
      <4> QED BY <4>2, <4>3
    <3>3. pathLen' = Len(s) - 1 /\ Len(s) - 1 = n BY <1>2, <1>3, <1>6, <2>1
    <3>4. Reported' = Location(s) BY <1>3, <3>2, <3>3, NextHere
    <3> QED BY <1>3, <1>4, <1>5, <3>2, <3>4, AboveItself
  <2>2. CASE ~StartsEntry(at, next)
    <3> DEFINE r == Append(at, next - 1)
    <3>1. PICK q \in Values : Named(q) /\ Above(at, q) /\ Above(r, q) BY <2>2 DEF PathInv
    <3>2. next - 1 \in Nat /\ EntryOf(at, next - 1) = EntryOf(at, next)
      BY <1>1, <2>2, EntryShape
    <3>3. /\ r \in Paths /\ r # <<>> /\ Len(Location(r)) = n
          /\ \A k \in 1..(n - 1) : Location(r)[k] = Location(at)[k]
          /\ Location(r)[n] = EntryOf(at, next)
          /\ Location(r) \in Paths
      BY <1>1, <3>2, LocationOfChild, LocationShape DEF n
    <3> HIDE DEF r
    <3>4. \A k \in 1..n : Location(r)[k] = Location(s)[k] BY <1>2, <1>3, <3>3
    <3>5. Location(r) = Location(s) BY <1>3, <3>3, <3>4, SamePath
    <3>6. q \in Paths /\ q # <<>> BY TreeShape DEF TypeOK, Values
    <3>7. Above(Location(s), Reported) BY <3>1, <3>3, <3>5, <3>6, LocationAbove DEF Named
    <3>8. path' = path /\ pathLen' = pathLen BY <2>2 DEF EntryPath
    <3>9. Reported' = Reported BY <3>8 DEF Reported
    <3>10. \A k \in 1..n : path'[k - 1] = Location(s)[k]
      <4>1. /\ Len(Reported) = pathLen /\ \A k \in 1..pathLen : Reported[k] = path[k - 1]
        BY ReportedShape
      <4>2. pathLen \in Nat /\ n <= pathLen BY <1>3, <3>7, <4>1 DEF Above, TypeOK
      <4>3. \A k \in 1..n : Reported[k] = path[k - 1] BY <1>2, <4>1, <4>2
      <4>4. \A k \in 1..n : Location(s)[k] = Reported[k] BY <1>3, <3>7 DEF Above
      <4> QED BY <3>8, <4>3, <4>4
    <3> QED BY <3>1, <3>7, <3>9, <3>10 DEF Named
  <2> QED BY <2>1, <2>2
<1>9. PICK q \in Values : q[1] = at[1] /\ Location(q) = Reported' BY <1>8
<1>10. \A p : Location(p)' = Location(p) BY SameLocations
<1>11. Values' = Values BY DEF Values
<1>12. CASE at' = s /\ pc' = "enter"
  <2>1. Named(q)' BY <1>5, <1>9, <1>10, <1>11, <1>12 DEF Named
  <2>2. Location(at)' = Location(s) BY <1>10, <1>12
  <2>3. Above(Location(at), Reported)' BY <1>8, <2>2 DEF Above
  <2>4. NamesIt' BY <1>3, <1>12, <2>1, <2>3, NextLocates
  <2>5. \A k \in 1..(Len(at') - 1) : path'[k - 1] = Location(at)'[k]
    BY <1>2, <1>3, <1>8, <1>12, <2>2
  <2> QED BY <1>12, <2>3, <2>4, <2>5 DEF PathInv, Stopped
<1>13. CASE at' = at /\ pc' \in Stopped
  <2>1. Named(q)' BY <1>9, <1>10, <1>11, <1>13 DEF Named
  <2>2. Location(at)' = Location(at) BY <1>10, <1>13
  <2>3. /\ Above(Location(at), Location(s)) BY <1>1, <1>3, <1>5, LocationAbove
  <2>4. /\ Location(at) \in Paths /\ Len(Location(at)) = n - 1 BY <1>1, LocationShape DEF n
  <2>5. Above(Location(at), Reported') BY <1>2, <1>3, <1>8, <2>3, <2>4 DEF Above
  <2>6. Above(Location(at), Reported)' BY <2>2, <2>5 DEF Above
  <2>7. Located' BY <1>1, <1>13, <2>1, <2>6, NextLocates
  <2> QED BY <1>13, <2>7 DEF PathInv, Stopped
<1> QED BY <1>12, <1>13 DEF s

LEMMA PathKept ==
  ASSUME TypeOK, WalkInv, PathInv, [Next]_vars
  PROVE  PathInv'
<1>0. TypeOK' /\ WalkInv' BY TypesKept
<1>1. ASSUME dir' # "in" PROVE PathInv' BY <1>1 DEF PathInv
<1>2. ASSUME pc' \notin Stopped \cup {"enter", "child"} PROVE PathInv'
  BY <1>2 DEF PathInv, Stopped
<1>3. ASSUME at' = <<>>, pc' \in Stopped PROVE PathInv'
  BY <1>3 DEF PathInv, Stopped
<1>4. ASSUME TooManyParameters \/ TooDeep \/ Unwind \/ ContainerFails PROVE PathInv'
  <2>1. UNCHANGED <<tree, dir, at, path, pathLen>> /\ pc' \in Stopped
    BY <1>4 DEF TooManyParameters, TooDeep, Unwind, ContainerFails, Fail, walk, where, Stopped
  <2> QED BY <2>1, PathStopped
<1>5. ASSUME Parameter PROVE PathInv'
  <2>1. pc = "convert" /\ at = <<>> /\ dir = "in" /\ UNCHANGED <<tree, dir, path>>
        /\ next \in Nat /\ pathLen' = 0
    BY <1>5 DEF Parameter, WalkInv, Stopped, TypeOK
  <2>2. CASE at' = at /\ pc' = "unwind" BY <1>3, <2>1, <2>2 DEF Stopped
  <2>3. CASE at' = <<next>> /\ pc' = "enter"
    <3>0. PICK v : v = <<next>> OBVIOUS
    <3>1. /\ v \in Paths /\ v # <<>> /\ Len(v) = 1 BY <2>1, <3>0 DEF Paths
    <3>2. v \in Values
      <4>1. at' \in DOMAIN tree' BY <1>0 DEF TypeOK
      <4> QED BY <2>1, <2>3, <3>0, <3>1, <4>1 DEF Values
    <3>3. Reported' = Location(v)
      <4>1. pathLen' = Len(v) - 1 BY <2>1, <3>1
      <4>2. \A k \in 1..(Len(v) - 1) : path'[k - 1] = Location(v)[k] BY <3>1
      <4> QED BY <1>0, <2>1, <3>1, <4>1, <4>2, NextHere
    <3>4. \A p : Location(p)' = Location(p) BY <2>1, SameLocations
    <3>5. at' = v BY <2>3, <3>0
    <3>6. Named(v)' BY <2>1, <3>2, <3>3, <3>4, <3>5 DEF Named, Values
    <3>7. Above(Location(at), Reported)'
      <4>1. Above(Location(v), Location(v)) BY <3>1, LocationShape, AboveItself
      <4> QED BY <3>3, <3>4, <3>5, <4>1 DEF Above
    <3>8. NamesIt' BY <1>0, <2>1, <3>1, <3>2, <3>5, <3>6, <3>7, NextLocates
    <3>9. Len(at') - 1 = 0 BY <3>1, <3>5
    <3> QED BY <2>3, <3>7, <3>8, <3>9 DEF PathInv, Stopped
  <2> QED BY <1>5, <2>2, <2>3 DEF Parameter, ChargeFails, Fail, walk
<1>6. ASSUME ParameterAdded PROVE PathInv'
  <2>1. at' = <<>> /\ pc' \in {"convert", "unwind"}
    BY <1>6 DEF ParameterAdded, Fail, walk, WalkInv, Stopped
  <2> QED BY <1>2, <1>3, <2>1 DEF Stopped
<1>7. ASSUME EnterContainer PROVE PathInv'
  <2>1. Entered /\ UNCHANGED <<tree, dir, at>> BY <1>7 DEF EnterContainer
  <2>2. CASE pc' = "unwind" BY <1>0, <2>1, <2>2, PathRefused DEF Stopped
  <2>3. CASE pc' = "child" /\ next' = 0 /\ dir = "in"
    <3>1. /\ at \in Values /\ at \in Paths /\ Reported' = Location(at)
          /\ \A k \in 1..(Len(at) - 1) : path'[k - 1] = Location(at)[k]
      BY <1>0, <2>1, <2>3, EnteredHere
    <3>2. Location(at)' = Location(at) BY <2>1 DEF Location, EntryOf
    <3>3. Named(at)' BY <2>1, <3>1, <3>2 DEF Named, Values
    <3>4. StartsEntry(at, next)'
      <4>1. 0 % 2 = 0 BY SMTT(30)
      <4> QED BY <2>3, <4>1 DEF StartsEntry
    <3>5. Above(at, at)' BY <2>1, <3>1, AboveItself DEF Above
    <3>6. at' \in Values' BY <2>1, <3>1 DEF Values
    <3> QED BY <2>1, <2>3, <3>1, <3>2, <3>3, <3>4, <3>5, <3>6 DEF PathInv, Stopped
  <2>4. CASE dir # "in" BY <1>1, <2>1, <2>4
  <2> QED BY <1>7, <2>2, <2>3, <2>4 DEF EnterContainer, ChargeFails, Fail
<1>8. ASSUME NumberIn \/ LeafIn PROVE PathInv'
  <2>1. Entered /\ UNCHANGED <<tree, dir>> /\ dir = "in" BY <1>8 DEF NumberIn, LeafIn
  <2>2. CASE pc' = "unwind" /\ UNCHANGED walk
    BY <1>0, <2>1, <2>2, PathRefused DEF Stopped, walk
  <2>3. CASE Complete
    <3>1. at \in Values /\ at \in Paths /\ Reported' = Location(at) BY <1>0, <2>1, EnteredHere
    <3>2. Above(at, at) BY <3>1, AboveItself
    <3> QED BY <2>1, <2>3, <3>1, <3>2, PathComplete DEF Entered
  <2> QED BY <1>8, <2>2, <2>3 DEF NumberIn, LeafIn, LeafCharged, ChargeFails, Fail
<1>9. ASSUME ChildOf PROVE PathInv'
  <2>1. /\ pc = "child" /\ next < Children(at) /\ path' = EntryPath /\ UNCHANGED <<tree, dir>>
        /\ pathLen' = IF dir = "in" /\ StartsEntry(at, next) THEN Depth + 1 ELSE pathLen
        /\ \/ at' = Append(at, next) /\ pc' = "enter"
           \/ StartsEntry(at, next) /\ at' = at /\ pc' \in Stopped
    BY <1>9 DEF ChildOf, ChargeFails, Fail, walk, Stopped
  <2>2. CASE dir = "in" BY <1>0, <2>1, <2>2, PathDown
  <2>3. CASE dir # "in" BY <1>1, <2>1, <2>3
  <2> QED BY <2>2, <2>3
<1>10. ASSUME ContainerIn PROVE PathInv'
  <2>1. /\ pc = "child" /\ dir = "in" /\ Complete /\ UNCHANGED <<tree, dir, path, pathLen>>
    BY <1>10 DEF ContainerIn, where
  <2>2. PICK q \in Values : Named(q) /\ Above(at, q) BY <2>1 DEF PathInv
  <2>3. Reported' = Reported BY <2>1 DEF Reported
  <2> QED BY <2>1, <2>2, <2>3, PathComplete DEF Named
<1>11. ASSUME LeafOut \/ ContainerOut \/ OutputFails \/ Row \/ Column PROVE PathInv'
  <2>1. dir' = "out"
    BY <1>11 DEF LeafOut, ContainerOut, OutputFails, Row, Column, WalkInv
  <2> QED BY <1>1, <2>1
<1>12. ASSUME Converted PROVE PathInv'
  BY <1>2, <1>12 DEF Converted, Stopped
<1>13. ASSUME UNCHANGED vars PROVE PathInv'
  <2>1. UNCHANGED <<tree, dir, pc, at, next, path, pathLen>> BY <1>13 DEF vars, walk, where
  <2>2. /\ \A p : Location(p)' = Location(p) /\ Reported' = Reported /\ Values' = Values
    BY <2>1 DEF Location, EntryOf, Reported, Values
  <2>3. Location(at)' = Location(at) BY <2>1, <2>2
  <2>4. \A q : Named(q)' <=> Named(q) BY <2>1, <2>2 DEF Named
  <2>5. NamesIt' <=> NamesIt BY <2>1, <2>2 DEF NamesIt
  <2>6. Located' <=> Located BY <2>2, <2>3, <2>5 DEF Located
  <2>7. /\ Above(Location(at), Reported)' <=> Above(Location(at), Reported)
        /\ StartsEntry(at, next)' <=> StartsEntry(at, next)
    BY <2>1, <2>2, <2>3 DEF Above, StartsEntry
  <2>8. \A q : /\ Above(at, q)' <=> Above(at, q)
               /\ Above(Append(at, next - 1), q)' <=> Above(Append(at, next - 1), q)
    BY <2>1 DEF Above
  <2> QED BY <2>1, <2>2, <2>3, <2>4, <2>5, <2>6, <2>7, <2>8 DEF PathInv
<1> QED BY <1>4, <1>5, <1>6, <1>7, <1>8, <1>9, <1>10, <1>11, <1>12, <1>13 DEF Next

-----------------------------------------------------------------------------
(* The path of an error on output. *)

\* A path that leads to the value is, up to the shorter one's length, its location.
LEMMA TrailIsNear == TypeOK /\ at # <<>> /\ Trail(at) => Near
<1> SUFFICES ASSUME TypeOK, at # <<>>, Trail(at) PROVE Near OBVIOUS
<1>1. at \in Paths /\ Len(at) \in Nat \ {0} BY CursorIsPath, LastStep
<1>2. /\ Location(at) \in Paths /\ Len(Location(at)) = Len(at) - 1
  BY <1>1, LocationShape
<1>3. /\ Reported \in Paths /\ Len(Reported) = pathLen /\ pathLen \in Nat
      /\ \A k \in 1..pathLen : Reported[k] = path[k - 1]
  BY ReportedShape, DepthAssumption DEF TypeOK
<1>4. CASE Len(at) - 1 <= pathLen
  <2>1. \A k \in 1..(Len(at) - 1) : Location(at)[k] = Reported[k]
    <3> TAKE k \in 1..(Len(at) - 1)
    <3>1. k \in 1..pathLen BY <1>1, <1>3, <1>4
    <3>2. Location(at)[k] = path[k - 1] BY DEF Trail
    <3> QED BY <1>3, <3>1, <3>2
  <2>2. Above(Location(at), Reported) BY <1>2, <1>3, <1>4, <2>1 DEF Above
  <2> QED BY <1>2, <1>3, <2>2, PrefixIsAbove DEF Near
<1>5. CASE pathLen <= Len(at) - 1
  <2>1. \A k \in 1..pathLen : Reported[k] = Location(at)[k]
    BY <1>1, <1>3, <1>5 DEF Trail
  <2>2. Above(Reported, Location(at)) BY <1>2, <1>3, <1>5, <2>1 DEF Above
  <2> QED BY <1>2, <1>3, <2>2, PrefixIsAbove DEF Near
<1> QED BY <1>1, <1>3, <1>4, <1>5

\* Refused where the path leads.
LEMMA OutPathRefused ==
  ASSUME TypeOK, WalkInv, TypeOK', UNCHANGED <<tree, at>>, pc \in {"enter", "child"},
         pc' \in Stopped, \A k \in 1..(Len(at) - 1) : path'[k - 1] = Location(at)[k]
  PROVE  OutPathInv'
<1>1. at' # <<>> BY DEF WalkInv
<1>2. Location(at)' = Location(at) BY SameLocations
<1>3. Trail(at)' BY <1>2 DEF Trail
<1>4. (TypeOK /\ at # <<>> /\ Trail(at) => Near)' BY TrailIsNear, PTL
<1> QED BY <1>1, <1>3, <1>4 DEF OutPathInv, Stopped

\* A value is complete: the path leads to it and to its container.
LEMMA OutPathComplete ==
  ASSUME TypeOK, WalkInv, Trail(at), Complete, pc \in {"enter", "child"}, dir = "out",
         UNCHANGED <<tree, dir, path>>
  PROVE  OutPathInv'
<1>1. at # <<>> /\ at \in Paths BY CursorIsPath DEF WalkInv
<1>2. /\ Len(at) \in Nat \ {0} /\ Parent(at) \in Paths /\ Len(Parent(at)) = Len(at) - 1
      /\ Last(at) \in Nat /\ at = Append(Parent(at), Last(at))
      /\ \A i \in 1..(Len(at) - 1) : Parent(at)[i] = at[i]
  BY <1>1, LastStep
<1>3. at' = Parent(at) /\ next' = Last(at) + 1 /\ next' - 1 = Last(at) BY <1>2 DEF Complete
<1>4. CASE Len(at) > 1
  <2>1. pc' = "child" /\ Parent(at) # <<>> BY <1>2, <1>4, EmptySeq DEF Complete
  <2>2. Above(Parent(at), at) BY <1>2 DEF Above
  <2>3. Above(Location(Parent(at)), Location(at)) /\ Len(Location(Parent(at))) = Len(at) - 2
    BY <1>1, <1>2, <2>1, <2>2, LocationAbove, LocationShape
  <2>4. \A k \in 1..(Len(at) - 2) : path[k - 1] = Location(Parent(at))[k]
    <3> TAKE k \in 1..(Len(at) - 2)
    <3>1. k \in 1..(Len(at) - 1) BY <1>2
    <3>2. path[k - 1] = Location(at)[k] BY <3>1 DEF Trail
    <3> QED BY <2>3, <3>2 DEF Above
  <2>5. Location(at)' = Location(Parent(at)) /\ Len(at') - 1 = Len(at) - 2
    BY <1>2, <1>3, SameLocations
  <2>6. Trail(at)' BY <2>4, <2>5 DEF Trail
  <2>7. Append(at, next - 1)' = at BY <1>2, <1>3
  <2>8. Location(Append(at, next - 1))' = Location(at) BY <2>7, SameLocations
  <2>9. Trail(Append(at, next - 1))' BY <2>7, <2>8 DEF Trail
  <2> QED BY <2>1, <2>6, <2>9 DEF OutPathInv, Stopped
<1>5. CASE Len(at) = 1
  <2>1. pc' = "column" BY <1>5 DEF Complete
  <2> QED BY <2>1 DEF OutPathInv, Stopped
<1> QED BY <1>2, <1>4, <1>5

\* The next child of a container: the path leads to it, by its own index or by that of the
\* key before it; it still leads to the container, if the child cannot be paid for.
LEMMA OutPathDown ==
  ASSUME TypeOK, WalkInv, OutPathInv, dir = "out", pc = "child", path' = EntryPath
  PROVE  LET s == Append(at, next)
         IN /\ \A k \in 1..(Len(s) - 1) : path'[k - 1] = Location(s)[k]
            /\ \A k \in 1..(Len(at) - 1) : path'[k - 1] = Location(at)[k]
<1> DEFINE s == Append(at, next)
           n == Len(at)
<1>1. /\ at # <<>> /\ at \in Paths /\ next \in Nat /\ n \in Nat \ {0}
  BY CursorIsPath, LastStep DEF WalkInv
<1>2. /\ Len(s) = n + 1
      /\ \A k \in 1..(n - 1) : Location(s)[k] = Location(at)[k]
      /\ Location(s)[n] = EntryOf(at, next)
  BY <1>1, LocationOfChild, Appending
<1> HIDE DEF s, n
<1>3. \A k \in 1..(n - 1) : path[k - 1] = Location(at)[k] BY DEF OutPathInv, Trail, n
<1>4. Depth = n - 1 /\ n <= MaxDepth + 1 /\ MaxDepth \in Nat
  BY <1>1, DepthAssumption DEF WalkInv, Depth, n
<1>5. /\ path'[n - 1] = EntryOf(at, next)
      /\ \A k \in 1..(n - 1) : path'[k - 1] = path[k - 1]
  <2>1. CASE StartsEntry(at, next)
    <3>1. \A k \in 0..MaxDepth : path'[k] = IF k = n - 1 THEN EntryOf(at, next) ELSE path[k]
      BY <1>4, <2>1 DEF EntryPath, TypeOK
    <3>2. n - 1 \in 0..MaxDepth BY <1>1, <1>4
    <3>3. \A k \in 1..(n - 1) : k - 1 \in 0..MaxDepth /\ k - 1 # n - 1 BY <1>1, <1>4
    <3> QED BY <3>1, <3>2, <3>3
  <2>2. CASE ~StartsEntry(at, next)
    <3> DEFINE r == Append(at, next - 1)
    <3>1. next - 1 \in Nat /\ EntryOf(at, next - 1) = EntryOf(at, next)
      BY <1>1, <2>2, EntryShape
    <3>2. Len(r) = n + 1 /\ Location(r)[n] = EntryOf(at, next)
      BY <1>1, <3>1, LocationOfChild, Appending DEF n
    <3>3. Trail(r) BY <2>2 DEF OutPathInv
    <3> HIDE DEF r
    <3>4. path[n - 1] = Location(r)[n] BY <1>1, <3>2, <3>3 DEF Trail
    <3>5. path' = path BY <2>2 DEF EntryPath
    <3> QED BY <3>2, <3>4, <3>5
  <2> QED BY <2>1, <2>2
<1>6. \A k \in 1..(n - 1) : path'[k - 1] = Location(at)[k] BY <1>3, <1>5
<1>7. ASSUME NEW k \in 1..n PROVE path'[k - 1] = Location(s)[k]
  <2>1. CASE k = n BY <1>2, <1>5, <2>1
  <2>2. CASE k # n
    <3>1. k \in 1..(n - 1) BY <1>1, <2>2
    <3> QED BY <1>2, <1>6, <3>1
  <2> QED BY <2>1, <2>2
<1>8. Len(s) - 1 = n BY <1>1, <1>2
<1> QED BY <1>6, <1>7, <1>8 DEF s, n

LEMMA OutPathKept ==
  ASSUME TypeOK, WalkInv, OutPathInv, [Next]_vars
  PROVE  OutPathInv'
<1>0. TypeOK' /\ WalkInv' BY TypesKept
<1>1. ASSUME dir' # "out" PROVE OutPathInv' BY <1>1 DEF OutPathInv
<1>2. ASSUME pc' \notin Stopped \cup {"enter", "child"} PROVE OutPathInv'
  BY <1>2 DEF OutPathInv, Stopped
<1>3. CASE \/ TooManyParameters \/ Parameter \/ ParameterAdded \/ Converted
           \/ NumberIn \/ LeafIn \/ ContainerIn \/ ContainerFails \/ Unwind
  <2>1. dir' # "out"
    BY <1>3 DEF TooManyParameters, Parameter, ParameterAdded, Converted, NumberIn, LeafIn,
       ContainerIn, ContainerFails, Unwind, WalkInv
  <2> QED BY <1>1, <2>1
<1>4. ASSUME TooDeep, dir = "out" PROVE OutPathInv'
  <2>1. UNCHANGED <<tree, at, path>> /\ pc = "enter" /\ pc' \in Stopped
    BY <1>4 DEF TooDeep, Fail, walk, where, Stopped
  <2> QED BY <1>0, <1>4, <2>1, OutPathRefused DEF OutPathInv, Trail
<1>5. ASSUME EnterContainer, dir = "out" PROVE OutPathInv'
  <2>1. UNCHANGED <<tree, dir, at, path>> /\ pc = "enter"
    BY <1>5 DEF EnterContainer, Entered
  <2>2. CASE pc' = "unwind"
    BY <1>0, <1>5, <2>1, <2>2, OutPathRefused DEF OutPathInv, Trail, Stopped
  <2>3. CASE pc' = "child" /\ next' = 0
    <3>1. Location(at)' = Location(at) BY <2>1, SameLocations
    <3>2. Trail(at)' BY <1>5, <2>1, <3>1 DEF OutPathInv, Trail
    <3>3. StartsEntry(at, next)'
      <4>1. 0 % 2 = 0 BY SMTT(30)
      <4> QED BY <2>3, <4>1 DEF StartsEntry
    <3> QED BY <2>3, <3>2, <3>3 DEF OutPathInv, Stopped
  <2> QED BY <1>5, <2>2, <2>3 DEF EnterContainer, ChargeFails, Fail
<1>6. CASE LeafOut
  <2>1. UNCHANGED <<tree, dir, path>> /\ pc = "enter" /\ dir = "out" /\ Trail(at)
    BY <1>6 DEF LeafOut, Entered, OutPathInv
  <2>2. CASE pc' = "unwind" /\ UNCHANGED walk
    BY <1>0, <2>1, <2>2, OutPathRefused DEF Trail, Stopped, walk
  <2>3. CASE Complete BY <2>1, <2>3, OutPathComplete
  <2> QED BY <1>6, <2>2, <2>3 DEF LeafOut, LeafCharged, ChargeFails, Fail
<1>7. ASSUME ChildOf, dir = "out" PROVE OutPathInv'
  <2>1. /\ pc = "child" /\ path' = EntryPath /\ UNCHANGED <<tree, dir>>
        /\ \/ at' = Append(at, next) /\ pc' = "enter"
           \/ at' = at /\ pc' \in Stopped
    BY <1>7 DEF ChildOf, ChargeFails, Fail, walk, Stopped
  <2>2. /\ \A k \in 1..(Len(Append(at, next)) - 1) :
             path'[k - 1] = Location(Append(at, next))[k]
        /\ \A k \in 1..(Len(at) - 1) : path'[k - 1] = Location(at)[k]
    BY <1>7, <2>1, OutPathDown
  <2>3. CASE at' = Append(at, next) /\ pc' = "enter"
    <3>1. Location(at)' = Location(Append(at, next)) BY <2>1, <2>3, SameLocations
    <3>2. Trail(at)' BY <2>2, <2>3, <3>1 DEF Trail
    <3> QED BY <2>3, <3>2 DEF OutPathInv, Stopped
  <2>4. CASE at' = at /\ pc' \in Stopped BY <1>0, <2>1, <2>2, <2>4, OutPathRefused
  <2> QED BY <2>1, <2>3, <2>4
<1>8. CASE ContainerOut
  <2>1. /\ pc = "child" /\ dir = "out" /\ Complete /\ UNCHANGED <<tree, dir, path>> /\ Trail(at)
    BY <1>8 DEF ContainerOut, where, OutPathInv
  <2> QED BY <2>1, OutPathComplete
<1>9. CASE Row
  <2>1. at' = <<>> /\ pc' \in {"column", "unwind"} BY <1>9 DEF Row, Fail, WalkInv, Stopped
  <2> QED BY <2>1 DEF OutPathInv, Stopped
<1>10. CASE Column
  <2>1. CASE at' = <<next>> /\ pc' = "enter"
    <3>1. Trail(at)' BY <2>1 DEF Trail
    <3> QED BY <2>1, <3>1 DEF OutPathInv, Stopped
  <2>2. CASE pc' = "done" BY <1>2, <2>2 DEF Stopped
  <2> QED BY <1>10, <2>1, <2>2 DEF Column
<1>11. CASE OutputFails \/ UNCHANGED vars
  <2>1. /\ UNCHANGED <<tree, dir, at, next, path, pathLen>>
        /\ pc' = pc \/ (pc \in Stopped /\ pc' \in Stopped)
    BY <1>11 DEF OutputFails, vars, walk, where, Stopped
  <2>2. /\ Location(at)' = Location(at) /\ Reported' = Reported
        /\ Location(Append(at, next - 1))' = Location(Append(at, next - 1))
    BY <2>1, SameLocations DEF Reported
  <2>3. /\ Near' <=> Near
        /\ Trail(at)' <=> Trail(at)
        /\ Trail(Append(at, next - 1))' <=> Trail(Append(at, next - 1))
        /\ StartsEntry(at, next)' <=> StartsEntry(at, next)
    BY <2>1, <2>2 DEF Near, Trail, StartsEntry
  <2> QED BY <2>1, <2>3 DEF OutPathInv, Stopped
<1>12. dir = "in" /\ (TooDeep \/ EnterContainer \/ ChildOf) => dir' = "in"
  BY DEF TooDeep, EnterContainer, ChildOf
<1>13. dir \in {"in", "out"} BY DEF TypeOK
<1> QED
  BY <1>1, <1>3, <1>4, <1>5, <1>6, <1>7, <1>8, <1>9, <1>10, <1>11, <1>12, <1>13 DEF Next

-----------------------------------------------------------------------------
(* The budget. *)

LEMMA ValuesAreFinite ==
  ASSUME tree \in Inputs
  PROVE  IsFiniteSet(Values) /\ IsFiniteSet(DOMAIN tree) /\ Values \subseteq DOMAIN tree
<1> QED BY TreeShape, FS_Subset DEF Values

LEMMA InputCostIsTotal ==
  ASSUME tree \in Inputs
  PROVE  InputCost = Total(Prices)
<1> DEFINE S == Values
           Eq(h) == h = [s \in SUBSET S |->
                           IF s = {} THEN 0 ELSE CostOf(CHOOSE x \in s : TRUE)
                                                 + h[s \ {CHOOSE x \in s : TRUE}]]
           g == CHOOSE h : h = [s \in SUBSET S |->
                           IF s = {} THEN 0 ELSE CostOf(CHOOSE x \in s : TRUE)
                                                 + h[s \ {CHOOSE x \in s : TRUE}]]
<1>1. InputCost = g[S] BY DEF InputCost, Values, MapThenSumSet, MapThenFoldSet
<1>2. ASSUME NEW h PROVE Eq(h) <=> Adds(Prices, h)
  <2>1. DOMAIN Prices = S BY DEF Prices
  <2>2. \A s \in SUBSET S : s # {} => Prices[Chosen(s)] = CostOf(CHOOSE x \in s : TRUE)
    BY DEF Prices, Chosen
  <2>3. \A s \in SUBSET S :
          (IF s = {} THEN 0 ELSE CostOf(CHOOSE x \in s : TRUE) + h[s \ {CHOOSE x \in s : TRUE}])
          = IF s = {} THEN 0 ELSE Prices[Chosen(s)] + h[s \ {Chosen(s)}]
    BY <2>2 DEF Chosen
  <2> DEFINE e == [s \in SUBSET S |->
                     IF s = {} THEN 0 ELSE CostOf(CHOOSE x \in s : TRUE)
                                           + h[s \ {CHOOSE x \in s : TRUE}]]
             a == [s \in SUBSET S |->
                     IF s = {} THEN 0 ELSE Prices[Chosen(s)] + h[s \ {Chosen(s)}]]
  <2>4. e = a BY <2>3
  <2>5. Adds(Prices, h) <=> h = a
    <3> HIDE DEF S
    <3> QED BY <2>1 DEF Adds
  <2> HIDE DEF a
  <2> QED BY <2>4, <2>5
<1>3. IsFiniteSet(S) /\ DOMAIN Prices = S BY ValuesAreFinite DEF Prices
<1>4. \E h : Eq(h)
  <2>1. PICK h : Adds(Prices, h) BY <1>3, AddsExists
  <2>2. Eq(h) BY <1>2, <2>1
  <2> HIDE DEF Eq
  <2> QED BY <2>2
<1>5. Adds(Prices, g)
  <2>1. Eq(g) BY <1>4
  <2> HIDE DEF g, Eq
  <2> QED BY <1>2, <2>1
<1>6. PICK h : Adds(Prices, h) /\ Total(Prices) = h[S]
  <2> HIDE DEF S
  <2> QED BY <1>3, TotalAdds
<1> HIDE DEF g, S
<1>7. g[S] = h[S] BY <1>3, <1>5, <1>6, AddsAgree
<1> QED BY <1>1, <1>6, <1>7

\* What a value costs, and what its first children do.
LEMMA CostTypes ==
  ASSUME tree \in Inputs, NEW p \in Values
  PROVE  /\ ScalarCost(tree[p]) \in Nat /\ Entries(p) \in Nat /\ Top(p) \in {0, 9}
         /\ EntryCost(tree[p]) \in {0, 8, 9} /\ Children(p) \in Nat /\ CostOf(p) \in Nat
         /\ CostOf(p) = 8 + ScalarCost(tree[p]) + (Entries(p) * EntryCost(tree[p])) + Top(p)
<1>1. p \in DOMAIN tree BY DEF Values
<1>2. Children(p) \in Nat /\ (tree[p].kind = "text" => tree[p].size \in Nat) BY <1>1, TreeShape
<1>3. ScalarCost(tree[p]) \in Nat BY <1>2 DEF ScalarCost, NumberCost
<1>4. Entries(p) \in Nat BY <1>2 DEF Entries
<1>5. Top(p) \in {0, 9} BY DEF Top, NameCost, DescriptorCost
<1>6. EntryCost(tree[p]) \in {0, 8, 9} BY DEF EntryCost, NameCost
<1>7. CostOf(p) = 8 + ScalarCost(tree[p]) + (Entries(p) * EntryCost(tree[p])) + Top(p)
  BY <1>3, <1>4, <1>5, <1>6 DEF CostOf, Top, ValueCost
<1>8. Entries(p) * EntryCost(tree[p]) \in Nat BY <1>4, <1>6
<1> HIDE DEF Top
<1> QED BY <1>2, <1>3, <1>4, <1>5, <1>6, <1>7, <1>8

LEMMA ChargedFits ==
  ASSUME tree \in Inputs, NEW p \in Values, NEW n \in 0..Children(p)
  PROVE  /\ Charged(p, n) \in Nat /\ Charged(p, n) <= CostOf(p)
         /\ Charged(p, 0) = 8 + Top(p)
         /\ n = Children(p) /\ tree[p].kind \in Containers => Charged(p, n) = CostOf(p)
         /\ n < Children(p) =>
              Charged(p, n + 1) = Charged(p, n)
                                  + IF StartsEntry(p, n) THEN EntryCost(tree[p]) ELSE 0
<1> DEFINE e == EntryCost(tree[p])
           E == Entries(p)
           s == ScalarCost(tree[p])
           c == Children(p)
<1>1. /\ s \in Nat /\ E \in Nat /\ Top(p) \in {0, 9} /\ e \in {0, 8, 9} /\ c \in Nat
      /\ CostOf(p) = 8 + s + (E * e) + Top(p)
  BY CostTypes
<1>2. tree[p].kind = "map" => c % 2 = 0 BY TreeShape DEF Values
<1>3. tree[p].kind \in Containers => s = 0 BY DEF Containers, ScalarCost
<1>4. \A m : Charged(p, m) = 8 + (EntriesIn(p, m) * e) + Top(p) BY DEF Charged, ValueCost
<1>5. E = IF tree[p].kind = "map" THEN c \div 2 ELSE c BY DEF Entries
<1>6. StartsEntry(p, n) <=> (tree[p].kind = "map" => n % 2 = 0) BY DEF StartsEntry
<1>7. \A m : EntriesIn(p, m) = IF tree[p].kind = "map" THEN (m + 1) \div 2 ELSE m
  BY DEF EntriesIn
<1>8. Charged(p, 0) = 8 + Top(p)
  <2>1. EntriesIn(p, 0) = 0 BY <1>7
  <2> QED BY <1>1, <1>4, <2>1
<1> HIDE DEF e, E, s, c
<1>9. n \in 0..c BY DEF c
<1>10. EntriesIn(p, n) \in 0..E /\ (n = c => EntriesIn(p, n) = E)
  BY <1>1, <1>2, <1>5, <1>7, <1>9
<1>11. ASSUME n < c
       PROVE  EntriesIn(p, n + 1) = EntriesIn(p, n) + IF StartsEntry(p, n) THEN 1 ELSE 0
  BY <1>1, <1>6, <1>7, <1>9, <1>11
<1>12. \A i \in Nat : i * e \in Nat /\ (i + 1) * e = (i * e) + e BY <1>1
<1>13. EntriesIn(p, n) * e <= E * e BY <1>1, <1>10
<1>14. Charged(p, n) \in Nat /\ Charged(p, n) <= CostOf(p)
  BY <1>1, <1>4, <1>10, <1>12, <1>13
<1>15. n = c /\ tree[p].kind \in Containers => Charged(p, n) = CostOf(p)
  <2>1. n = c => EntriesIn(p, n) * e = E * e BY <1>10
  <2> QED BY <1>1, <1>3, <1>4, <1>12, <2>1
<1>16. n < c => Charged(p, n + 1) = Charged(p, n) + IF StartsEntry(p, n) THEN e ELSE 0
  <2> SUFFICES ASSUME n < c
               PROVE  Charged(p, n + 1) = Charged(p, n) + IF StartsEntry(p, n) THEN e ELSE 0
    OBVIOUS
  <2>1. EntriesIn(p, n) \in Nat BY <1>1, <1>10
  <2>2. EntriesIn(p, n + 1) * e = (EntriesIn(p, n) * e) + IF StartsEntry(p, n) THEN e ELSE 0
    BY <1>1, <1>11, <1>12, <2>1
  <2>3. EntriesIn(p, n) * e \in Nat BY <1>12, <2>1
  <2> QED BY <1>1, <1>4, <2>2, <2>3
<1> QED BY <1>8, <1>14, <1>15, <1>16 DEF c, e

\* How many children of an open value are begun.
LEMMA BegunFits ==
  ASSUME TypeOK, WalkInv, NEW p \in Values, Open(p)
  PROVE  Begun(p) \in 0..Children(p)
<1>1. p \in DOMAIN tree /\ at \in DOMAIN tree /\ next \in Nat /\ Children(p) \in Nat
  BY TreeShape DEF TypeOK, Values
<1>2. CASE p = at
  BY <1>1, <1>2 DEF Open, Begun, WalkInv
<1>3. CASE p # at
  <2>1. at[Len(p) + 1] \in Nat /\ at[Len(p) + 1] < Children(p)
    BY <1>1, <1>3, Inside DEF Open, TypeOK
  <2> QED BY <1>1, <1>3, <2>1 DEF Begun
<1> QED BY <1>2, <1>3

\* No value has been charged more than it costs.
LEMMA PaidFits ==
  ASSUME TypeOK, WalkInv, NEW p \in Values
  PROVE  Paid(p) \in Nat /\ Paid(p) <= CostOf(p)
<1>1. tree \in Inputs BY DEF TypeOK
<1>2. CostOf(p) \in Nat /\ Top(p) \in {0, 9} /\ CostOf(p) >= Top(p)
  <2>1. /\ ScalarCost(tree[p]) \in Nat /\ Entries(p) * EntryCost(tree[p]) \in Nat
    BY <1>1, CostTypes
  <2> QED BY <1>1, <2>1, CostTypes
<1>3. CASE Done(p) BY <1>2, <1>3 DEF Paid
<1>4. CASE ~Done(p) /\ Open(p)
  <2>1. Begun(p) \in 0..Children(p) BY <1>4, BegunFits
  <2> QED BY <1>1, <1>4, <2>1, ChargedFits DEF Paid
<1>5. CASE ~Done(p) /\ ~Open(p) BY <1>2, <1>5 DEF Paid
<1> QED BY <1>3, <1>4, <1>5

LEMMA BillTypes ==
  ASSUME TypeOK, WalkInv
  PROVE  /\ Bill \in [Values -> Nat] /\ Prices \in [Values -> Nat]
         /\ Total(Bill) \in Nat /\ Total(Prices) \in Nat
<1>1. tree \in Inputs BY DEF TypeOK
<1>2. Bill \in [Values -> Nat] BY PaidFits DEF Bill
<1>3. Prices \in [Values -> Nat] BY <1>1, CostTypes DEF Prices
<1> QED BY <1>1, <1>2, <1>3, ValuesAreFinite, TotalType

\* If some values still cost n each, and all that together is more than what is left of
\* the budget, then the parameters cost more than the budget.
LEMMA Overdrawn ==
  ASSUME TypeOK, WalkInv, BudgetInv, dir = "in", pc \notin Stopped,
         NEW R \in SUBSET Values, NEW n \in Nat, \A x \in R : Paid(x) + n <= CostOf(x),
         n * Cardinality(R) > remaining
  PROVE  Total(Prices) > budget
<1>1. tree \in Inputs /\ remaining \in Nat /\ budget \in Nat BY DEF TypeOK
<1>2. IsFiniteSet(Values) BY <1>1, ValuesAreFinite
<1>3. Bill \in [Values -> Nat] /\ Prices \in [Values -> Nat] /\ Total(Bill) \in Nat
      /\ Total(Prices) \in Nat
  BY BillTypes
<1>4. \A x \in Values : Bill[x] <= Prices[x] BY PaidFits DEF Bill, Prices
<1>5. \A x \in R : Bill[x] + n <= Prices[x] BY DEF Bill, Prices
<1>6. Total(Bill) + n * Cardinality(R) <= Total(Prices) BY <1>2, <1>3, <1>4, <1>5, TotalGrows
<1>7. remaining + Total(Bill) = budget BY DEF BudgetInv
<1>8. n * Cardinality(R) \in Nat
  <2>1. Cardinality(R) \in Nat BY <1>2, FS_Subset, FS_CardinalityType
  <2>2. \A k \in Nat : n * k \in Nat OBVIOUS
  <2> QED BY <2>1, <2>2
<1> QED BY <1>1, <1>3, <1>6, <1>7, <1>8

\* Steps that change no charge; that charge one value; that stop; on the way out.
LEMMA BudgetSame ==
  ASSUME BudgetInv, UNCHANGED <<tree, dir, budget, remaining, fault>>, pc \notin Stopped,
         \A q \in Values : Paid(q)' = Paid(q)
  PROVE  BudgetInv'
<1>1. Values' = Values BY DEF Values
<1>2. Bill' = Bill BY <1>1 DEF Bill
<1>3. Prices' = Prices BY <1>1 DEF Prices, CostOf, Entries, Children, ChildrenOf
<1> QED BY <1>2, <1>3 DEF BudgetInv

LEMMA BudgetCharged ==
  ASSUME TypeOK, WalkInv, BudgetInv, TypeOK', WalkInv',
         UNCHANGED <<tree, dir, budget, fault>>, pc \notin Stopped,
         NEW p \in Values, \A q \in Values : q # p => Paid(q)' = Paid(q),
         NEW cost \in Nat, Paid(p)' = Paid(p) + cost, remaining' = remaining - cost
  PROVE  BudgetInv'
<1>1. Values' = Values BY DEF Values
<1>2. Prices' = Prices BY <1>1 DEF Prices, CostOf, Entries, Children, ChildrenOf
<1>3. Bill \in [Values -> Nat] /\ Total(Bill) \in Nat BY BillTypes
<1>4. Bill' \in [Values -> Nat] /\ Total(Bill') \in Nat
  <2>1. (TypeOK /\ WalkInv => Bill \in [Values -> Nat] /\ Total(Bill) \in Nat)'
    BY BillTypes, PTL
  <2> QED BY <1>1, <2>1
<1>5. IsFiniteSet(Values) BY ValuesAreFinite DEF TypeOK
<1>6. Bill[p] = Paid(p) /\ Bill'[p] = Paid(p)' /\ \A q \in Values \ {p} : Bill'[q] = Bill[q]
  BY <1>1 DEF Bill
<1>7. Total(Bill') + Bill[p] = Total(Bill) + Bill'[p] BY <1>3, <1>4, <1>5, <1>6, TotalChange
<1>8. Paid(p) \in Nat BY PaidFits
<1>9. Total(Bill') = Total(Bill) + cost BY <1>3, <1>4, <1>6, <1>7, <1>8
<1>10. remaining \in Nat /\ budget \in Nat BY DEF TypeOK
<1>11. fault' # "limit" BY DEF WalkInv
<1>12. dir = "in" => remaining' + Total(Bill') = budget BY <1>3, <1>9, <1>10 DEF BudgetInv
<1> QED BY <1>11, <1>12 DEF BudgetInv

LEMMA BudgetStopped ==
  ASSUME UNCHANGED <<tree, budget>>, pc' \in Stopped,
         dir' = "in" /\ fault' = "limit" => Total(Prices) > budget
  PROVE  BudgetInv'
<1>1. Values' = Values BY DEF Values
<1>2. Prices' = Prices BY <1>1 DEF Prices, CostOf, Entries, Children, ChildrenOf
<1> QED BY <1>2 DEF BudgetInv

LEMMA BudgetOut ==
  ASSUME dir' = "out"
  PROVE  BudgetInv'
<1> QED BY DEF BudgetInv

\* Costs depend on the tree alone.
LEMMA SameCosts ==
  ASSUME UNCHANGED tree
  PROVE  \A q : CostOf(q)' = CostOf(q) /\ \A n : Charged(q, n)' = Charged(q, n)
<1> QED BY DEF CostOf, Charged, EntriesIn, Entries, Children, ChildrenOf

LEMMA AboveShorter ==
  ASSUME NEW p \in Paths, NEW q \in Paths, NEW n \in Nat
  PROVE  /\ Above(p, q) /\ p # q => Len(p) < Len(q)
         /\ Above(p, <<>>) => p = <<>>
         /\ Above(p, Append(q, n)) <=> Above(p, q) \/ p = Append(q, n)
         /\ ~Above(Append(q, n), q)
<1>1. Len(p) \in Nat /\ Len(q) \in Nat BY LenProperties DEF Paths
<1>2. ASSUME NEW r \in Paths, Above(p, r), p # r PROVE Len(p) < Len(r)
  <2>1. Len(r) \in Nat BY LenProperties DEF Paths
  <2>2. Len(p) # Len(r) BY <1>1, <1>2, SamePath DEF Above
  <2> QED BY <1>1, <1>2, <2>1, <2>2 DEF Above
<1>3. Above(p, <<>>) => p = <<>> BY <1>1, EmptySeq DEF Above, Paths
<1> DEFINE d == Append(q, n)
<1>4. d \in Paths /\ Len(d) = Len(q) + 1 /\ \A i \in 1..Len(q) : d[i] = q[i] BY Appending
<1> HIDE DEF d
<1>5. Above(p, d) => Above(p, q) \/ p = d
  <2> SUFFICES ASSUME Above(p, d), p # d PROVE Above(p, q) OBVIOUS
  <2>1. Len(p) < Len(d) BY <1>2, <1>4
  <2>2. \A i \in 1..Len(p) : p[i] = q[i] BY <1>1, <1>4, <2>1 DEF Above
  <2> QED BY <1>1, <1>4, <2>1, <2>2 DEF Above
<1>6. Above(p, q) => Above(p, d) BY <1>1, <1>4 DEF Above
<1>7. p = d => Above(p, d) BY <1>1 DEF Above
<1>8. ~Above(d, q) BY <1>1, <1>4 DEF Above
<1> QED BY <1>2, <1>3, <1>5, <1>6, <1>7, <1>8 DEF d

\* What is in the value that is converted next is not done.
LEMMA NotDoneBelow ==
  ASSUME TypeOK, NEW p \in DOMAIN tree, Above(Cursor, p) \/ Above(p, Cursor)
  PROVE  ~Done(p)
<1>1. p \in Paths /\ Cursor \in Paths BY CursorIsPath, TreeShape DEF TypeOK
<1>2. CASE Above(p, Cursor) BY <1>1, <1>2, NotBeforeItself DEF Done
<1>3. CASE Above(Cursor, p)
  <2>1. SUFFICES ASSUME NEW k \in 1..Len(Cursor), p[k] < Cursor[k] PROVE FALSE
    BY DEF Done, Before
  <2>2. p[k] = Cursor[k] /\ Cursor[k] \in Nat BY <1>1, <1>3, ElementOfSeq DEF Above, Paths
  <2> QED BY <2>1, <2>2
<1> QED BY <1>2, <1>3

\* Between two parameters nothing is open.
LEMMA PaidBetween ==
  ASSUME TypeOK, at = <<>>, NEW q \in Values
  PROVE  Paid(q) = (IF Done(q) THEN CostOf(q) ELSE 0) /\ ~Open(q) /\ q # at
<1>1. q \in Paths /\ at \in Paths /\ q # <<>> BY TreeShape DEF TypeOK, Values
<1>2. ~Open(q) BY <1>1, AboveShorter DEF Open
<1> QED BY <1>1, <1>2 DEF Paid

LEMMA PaidSame ==
  ASSUME TypeOK, TypeOK', at = <<>>, pc # "enter", pc' # "enter", UNCHANGED <<tree, at, next>>,
         NEW q \in Values
  PROVE  Paid(q)' = Paid(q)
<1>1. Paid(q) = IF Done(q) THEN CostOf(q) ELSE 0 BY PaidBetween
<1>2. Values' = Values BY DEF Values
<1>3. Paid(q)' = IF Done(q)' THEN CostOf(q)' ELSE 0
  <2>1. (TypeOK /\ at = <<>> /\ q \in Values => Paid(q) = IF Done(q) THEN CostOf(q) ELSE 0)'
    BY PaidBetween, PTL
  <2> QED BY <1>2, <2>1
<1>4. Cursor' = Cursor BY DEF Cursor
<1>5. Done(q)' <=> Done(q) BY <1>4 DEF Done, Before
<1> QED BY <1>1, <1>3, <1>5, SameCosts

\* A parameter is begun: its name and its type are paid.
LEMMA PaidParameter ==
  ASSUME TypeOK, at = <<>>, pc \notin {"enter", "child"}, next < Children(<<>>), at' = <<next>>,
         pc' = "enter", UNCHANGED tree, NEW p \in Values, p = <<next>>
  PROVE  /\ Paid(p) = 0 /\ Paid(p)' = NameCost + DescriptorCost
         /\ \A q \in Values : q # p => Paid(q)' = Paid(q)
<1>1. p = Append(<<>>, next) /\ <<>> \in Paths /\ next \in Nat
  BY TreeShape DEF TypeOK
<1>2. Cursor = p /\ Cursor' = p BY <1>1 DEF Cursor
<1>3. \A q : Done(q)' <=> Done(q) BY <1>2 DEF Done, Before
<1>4. p \in Paths /\ p \in DOMAIN tree /\ Len(p) = 1
  BY <1>1, TreeShape, Appending, EmptySeq DEF TypeOK, Values, Paths
<1>5. Above(p, p) BY <1>4 DEF Above
<1>6. ~Done(p) BY <1>2, <1>4, <1>5, NotDoneBelow
<1>7. ~Open(p)' BY DEF Open
<1>8. Paid(p)' = NameCost + DescriptorCost
  BY <1>3, <1>4, <1>6, <1>7 DEF Paid, Top
<1>9. ASSUME NEW q \in Values, q # p PROVE Paid(q)' = Paid(q)
  <2>1. q \in Paths /\ q # <<>> BY TreeShape DEF TypeOK, Values
  <2>2. ~Above(q, p)
    <3>1. Above(q, Append(<<>>, next)) <=> Above(q, <<>>) \/ q = Append(<<>>, next)
      BY <1>1, <2>1, AboveShorter, Zenon
    <3>2. Above(q, p) => Above(q, <<>>) BY <1>1, <1>9, <3>1, Zenon
    <3> QED BY <1>1, <2>1, <3>2, AboveShorter
  <2>3. ~Open(q)' BY <1>9, <2>2 DEF Open, Above
  <2>4. Paid(q)' = IF Done(q)' THEN CostOf(q)' ELSE 0 BY <1>9, <2>3 DEF Paid
  <2> QED BY <1>3, <2>4, PaidBetween, SameCosts
<1> QED BY <1>6, <1>8, <1>9, PaidBetween

\* A container is entered: the value itself is paid.
LEMMA PaidEntered ==
  ASSUME TypeOK, pc = "enter", pc' = "child", next' = 0, UNCHANGED <<tree, at>>,
         NEW p \in Values, p = at
  PROVE  /\ Paid(p) = Top(p) /\ Paid(p)' = Paid(p) + ValueCost
         /\ \A q \in Values : q # p => Paid(q)' = Paid(q)
<1>1. \A q \in Values : Done(q)' <=> Done(q) BY ContainerEntered DEF Values
<1>2. p \in Paths /\ p \in DOMAIN tree /\ p # <<>> BY TreeShape DEF TypeOK, Values
<1>3. Above(p, p) BY <1>2 DEF Above
<1>4. ~Done(p) BY <1>2, <1>3, NotDoneBelow DEF Cursor
<1>5. ~Open(p) /\ Open(p)'
  BY <1>2, <1>3 DEF Open, Above
<1>6. Paid(p) = Top(p) BY <1>4, <1>5 DEF Paid
<1>7. Paid(p)' = Charged(p, 0)
  <2>1. Begun(p)' = 0 BY DEF Begun
  <2>2. Paid(p)' = Charged(p, Begun(p))' BY <1>1, <1>4, <1>5 DEF Paid
  <2>3. Charged(p, Begun(p))' = Charged(p, 0)
    BY <2>1 DEF Charged, EntriesIn
  <2> QED BY <2>2, <2>3
<1>8. Charged(p, 0) = 8 + Top(p) /\ Top(p) \in {0, 9}
  <2>1. tree \in Inputs /\ Children(p) \in Nat BY <1>2, TreeShape DEF TypeOK
  <2>2. 0 \in 0..Children(p) BY <2>1
  <2> QED BY <2>1, <2>2, ChargedFits, CostTypes
<1>9. ASSUME NEW q \in Values, q # p PROVE Paid(q)' = Paid(q)
  <2>1. Open(q)' <=> Open(q) BY <1>9 DEF Open, Above
  <2>2. Begun(q)' = Begun(q) BY <1>9 DEF Begun
  <2>3. Charged(q, Begun(q))' = Charged(q, Begun(q)) BY <2>2 DEF Charged, EntriesIn
  <2> QED BY <1>1, <1>9, <2>1, <2>3, SameCosts DEF Paid
<1> QED BY <1>6, <1>7, <1>8, <1>9 DEF ValueCost

\* The next child is begun: the entry that it starts is paid.
LEMMA PaidDown ==
  ASSUME TypeOK, WalkInv, pc = "child", next < Children(at), at' = Append(at, next),
         pc' = "enter", UNCHANGED tree, NEW p \in Values, p = at
  PROVE  /\ Paid(p)' = Paid(p) + IF StartsEntry(p, next) THEN EntryCost(tree[p]) ELSE 0
         /\ Paid(p)' <= CostOf(p) /\ Paid(p) = Charged(p, next)
         /\ \A q \in Values : q # p => Paid(q)' = Paid(q)
<1> DEFINE c == Append(p, next)
<1>1. p \in Paths /\ p \in DOMAIN tree /\ p # <<>> /\ next \in Nat /\ tree \in Inputs
  BY TreeShape DEF TypeOK, Values
<1>2. /\ c \in Paths /\ Len(c) = Len(p) + 1 /\ c[Len(p) + 1] = next /\ Len(p) \in Nat \ {0}
      /\ \A i \in 1..Len(p) : c[i] = p[i]
  BY <1>1, LastStep, Appending
<1> HIDE DEF c
<1>3. at' = c /\ Cursor = c /\ Cursor' = c BY DEF Cursor, c
<1>4. \A q : Done(q)' <=> Done(q) BY <1>3 DEF Done, Before
<1>5. Above(p, p) /\ Above(p, c) /\ p # c BY <1>2 DEF Above
<1>6. ~Done(p) BY <1>1, <1>3, <1>5, NotDoneBelow
<1>7. Open(p) /\ Open(p)'
  <2>1. Above(p, at)' BY <1>3, <1>5 DEF Above
  <2> QED BY <1>1, <1>3, <1>5, <2>1 DEF Open
<1>8. Begun(p) = next /\ Begun(p)' = next + 1 BY <1>2, <1>3, <1>5 DEF Begun
<1>9. Paid(p) = Charged(p, next) BY <1>6, <1>7, <1>8 DEF Paid
<1>10. Paid(p)' = Charged(p, next + 1)
  <2>1. Paid(p)' = Charged(p, Begun(p))' BY <1>4, <1>6, <1>7 DEF Paid
  <2>2. Charged(p, Begun(p))' = Charged(p, next + 1) BY <1>8 DEF Charged, EntriesIn
  <2> QED BY <2>1, <2>2
<1>11. next \in 0..Children(p) /\ next + 1 \in 0..Children(p)
  <2>1. Children(p) \in Nat BY <1>1, TreeShape
  <2> QED BY <1>1, <2>1
<1>12. /\ Charged(p, next + 1) = Charged(p, next)
                                 + IF StartsEntry(p, next) THEN EntryCost(tree[p]) ELSE 0
       /\ Charged(p, next + 1) <= CostOf(p)
  BY <1>1, <1>11, ChargedFits
<1>13. ASSUME NEW q \in Values, q # p PROVE Paid(q)' = Paid(q)
  <2>1. q \in Paths /\ q # <<>> /\ Len(q) \in Nat \ {0}
    <3>1. q \in Paths /\ q # <<>> BY <1>1, TreeShape DEF Values
    <3> QED BY <3>1, LastStep
  <2>2. CASE q = c
    <3>1. ~Open(q)
      <4>1. ~Above(c, p) BY <1>1, AboveShorter DEF c
      <4> QED BY <2>2, <4>1 DEF Open
    <3>2. ~Open(q)' BY <1>3, <2>2 DEF Open
    <3>3. ~Done(q)
      <4>1. Above(c, c) BY <1>2 DEF Above
      <4> QED BY <1>3, <2>2, <4>1, NotDoneBelow DEF Values
    <3>4. Top(q) = 0 BY <1>2, <2>2 DEF Top
    <3>5. Paid(q) = 0 BY <1>13, <3>1, <3>3 DEF Paid
    <3>6. Paid(q)' = 0 BY <1>3, <1>4, <2>2, <3>2, <3>3, <3>4 DEF Paid, Top
    <3> QED BY <3>5, <3>6
  <2>3. CASE q # c
    <3>1. Above(q, c) <=> Above(q, p) BY <1>1, <2>1, <2>3, AboveShorter DEF c
    <3>2. Open(q)' <=> Open(q)
      <4>1. Above(q, at)' <=> Above(q, c) BY <1>3 DEF Above
      <4> QED BY <1>3, <1>13, <2>3, <3>1, <4>1 DEF Open
    <3>3. Open(q) => Begun(q)' = Begun(q)
      <4>1. Above(q, p) => Len(q) < Len(p) BY <1>1, <1>13, <2>1, AboveShorter
      <4>2. Above(q, p) => c[Len(q) + 1] = p[Len(q) + 1] BY <1>2, <2>1, <4>1
      <4> QED BY <1>3, <1>13, <2>3, <4>2 DEF Open, Begun
    <3>4. Open(q) => Charged(q, Begun(q))' = Charged(q, Begun(q))
      BY <3>3 DEF Charged, EntriesIn
    <3> QED BY <1>3, <1>4, <1>13, <2>3, <3>2, <3>4, SameCosts DEF Paid
  <2> QED BY <2>2, <2>3
<1> QED BY <1>9, <1>10, <1>12, <1>13

\* A value is complete: all of it is paid.
LEMMA PaidComplete ==
  ASSUME TypeOK, WalkInv, Complete, UNCHANGED <<tree, dir>>,
         \/ pc = "enter" /\ tree[at].kind \in Leaves
         \/ pc = "child" /\ next = Children(at),
         NEW p \in Values, p = at
  PROVE  /\ Paid(p)' = CostOf(p)
         /\ Paid(p) = IF pc = "enter" THEN Top(p) ELSE CostOf(p)
         /\ \A q \in Values : q # p => Paid(q)' = Paid(q)
<1>1. p \in Paths /\ p \in DOMAIN tree /\ p # <<>> /\ next \in Nat /\ tree \in Inputs
  BY TreeShape DEF TypeOK, Values
<1>2. /\ \A q \in DOMAIN tree : Done(q)' <=> Done(q) \/ q = p
      /\ ~Done(p)
  BY ValueCompletes
<1> DEFINE c == Parent(p)
<1>3. /\ Len(p) \in Nat \ {0} /\ c \in Paths /\ Len(c) = Len(p) - 1
      /\ \A i \in 1..(Len(p) - 1) : c[i] = p[i]
      /\ Last(p) \in Nat /\ Last(p) = p[Len(p)] /\ p = Append(c, Last(p))
  BY <1>1, LastStep
<1>4. at' = c /\ next' = Last(p) + 1 /\ (pc' = "child" <=> Len(p) > 1) /\ pc' # "enter"
  <2>1. dir \in {"in", "out"} BY DEF TypeOK
  <2> QED BY <2>1 DEF Complete
<1>5. c \in DOMAIN tree BY <1>1, ParentExists
<1> HIDE DEF c
<1>6. Above(p, p) BY <1>3 DEF Above
<1>7. Paid(p)' = CostOf(p)
  <2>1. Done(p)' BY <1>1, <1>2
  <2> QED BY <2>1, SameCosts DEF Paid
<1>8. Paid(p) = IF pc = "enter" THEN Top(p) ELSE CostOf(p)
  <2>1. CASE pc = "enter"
    <3>1. ~Open(p) BY <2>1 DEF Open
    <3> QED BY <1>2, <2>1, <3>1 DEF Paid
  <2>2. CASE pc = "child" /\ next = Children(at)
    <3>1. Open(p) /\ Begun(p) = next BY <1>1, <1>6, <2>2 DEF Open, Begun
    <3>2. Paid(p) = Charged(p, Children(p)) BY <1>2, <2>2, <3>1 DEF Paid
    <3>3. tree[p].kind \in Containers BY <2>2 DEF WalkInv
    <3>4. Children(p) \in 0..Children(p)
      <4>1. Children(p) \in Nat BY <1>1, TreeShape
      <4> QED BY <4>1
    <3> QED BY <1>1, <2>2, <3>2, <3>3, <3>4, ChargedFits
  <2> QED BY <2>1, <2>2
<1>9. ASSUME NEW q \in Values, q # p PROVE Paid(q)' = Paid(q)
  <2>1. q \in Paths /\ q # <<>> /\ q \in DOMAIN tree /\ Len(q) \in Nat \ {0}
    <3>1. q \in Paths /\ q # <<>> /\ q \in DOMAIN tree BY <1>1, TreeShape DEF Values
    <3> QED BY <3>1, LastStep
  <2>2. Above(q, p) <=> Above(q, c)
    <3>1. Above(q, Append(c, Last(p))) <=> Above(q, c) \/ q = Append(c, Last(p))
      BY <1>3, <2>1, AboveShorter, Zenon
    <3> QED BY <1>3, <1>9, <3>1, Zenon
  <2>3. Above(q, c) => Len(p) > 1
    <3>1. Len(p) = 1 => c = <<>> BY <1>3, EmptySeq DEF Paths
    <3>2. ~Above(q, <<>>) BY <1>1, <2>1, AboveShorter
    <3> QED BY <1>3, <3>1, <3>2
  <2>4. Open(q)' <=> Open(q)
    <3>1. Above(q, at)' <=> Above(q, c) BY <1>4 DEF Above
    <3> QED BY <1>4, <1>9, <2>1, <2>2, <2>3, <3>1 DEF Open
  <2>5. Open(q) => Begun(q)' = Begun(q)
    <3>1. Begun(q) = p[Len(q) + 1] + 1 BY <1>9 DEF Begun
    <3>2. CASE q = c
      BY <1>3, <1>4, <3>1, <3>2 DEF Begun
    <3>3. CASE q # c
      <4>1. Begun(q)' = c[Len(q) + 1] + 1 BY <1>4, <3>3 DEF Begun
      <4>2. Above(q, c) => Len(q) < Len(c) BY <1>3, <2>1, <3>3, AboveShorter
      <4>3. Above(q, c) => c[Len(q) + 1] = p[Len(q) + 1] BY <1>3, <2>1, <4>2
      <4> QED BY <1>9, <2>2, <3>1, <4>1, <4>3 DEF Open
    <3> QED BY <3>2, <3>3
  <2>6. Open(q) => Charged(q, Begun(q))' = Charged(q, Begun(q))
    BY <2>5 DEF Charged, EntriesIn
  <2>7. Done(q)' <=> Done(q) BY <1>2, <1>9, <2>1
  <2>8. q = at' => Open(q)'
    <3>1. q = c => Above(q, c) BY <1>3 DEF Above
    <3>2. q = at' => Above(q, at)' BY <1>4, <3>1 DEF Above
    <3> QED BY <1>4, <2>1, <2>3, <3>1, <3>2 DEF Open
  <2> QED BY <1>9, <2>4, <2>6, <2>7, <2>8, SameCosts DEF Paid
<1> QED BY <1>7, <1>8, <1>9

\* Limits that are reached: a value that is not begun still costs all of it.
LEMMA Unpaid ==
  ASSUME TypeOK, NEW q \in Values, ~Done(q), ~Open(q)
  PROVE  /\ Paid(q) + ValueCost <= CostOf(q)
         /\ q = at => Paid(q) + ValueCost + ScalarCost(tree[q]) <= CostOf(q)
         /\ q # at => Paid(q) + ValueCost + Top(q) <= CostOf(q)
<1>1. /\ ScalarCost(tree[q]) \in Nat /\ Entries(q) * EntryCost(tree[q]) \in Nat
      /\ Top(q) \in {0, 9}
      /\ CostOf(q) = 8 + ScalarCost(tree[q]) + (Entries(q) * EntryCost(tree[q])) + Top(q)
  BY CostTypes DEF TypeOK
<1>2. Paid(q) = IF q = at THEN Top(q) ELSE 0 BY DEF Paid
<1> QED BY <1>1, <1>2 DEF ValueCost

\* An array that does not fit, even with its entries at the cost of a value each.
LEMMA Crowded ==
  ASSUME TypeOK, WalkInv, BudgetInv, dir = "in", pc \in {"enter", "convert"},
         NEW p \in Values, Above(Cursor, p), ValueCost * (Children(p) + 1) > remaining
  PROVE  Total(Prices) > budget
<1> DEFINE R == ChildrenOf(p) \cup {p}
<1>1. /\ p \in DOMAIN tree /\ p \in Paths /\ Children(p) \in Nat /\ tree \in Inputs
      /\ ChildrenOf(p) = {Append(p, i) : i \in 0..(Children(p) - 1)}
      /\ Cursor \in Paths /\ at \in Paths
  BY CursorIsPath, TreeShape DEF TypeOK, Values
<1>2. R \in SUBSET Values BY DEF ChildrenOf, Values
<1>3. p \notin ChildrenOf(p)
  <2> SUFFICES ASSUME p \in ChildrenOf(p) PROVE FALSE OBVIOUS
  <2>1. PICK i \in 0..(Children(p) - 1) : p = Append(p, i) BY <1>1
  <2>2. Len(Append(p, i)) = Len(p) + 1 /\ Len(p) \in Nat
    BY <1>1, Appending, LenProperties DEF Paths
  <2> QED BY <2>1, <2>2
<1>4. Cardinality(R) = Children(p) + 1
  <2>1. IsFiniteSet(ChildrenOf(p)) BY <1>1, ValuesAreFinite, FS_Subset DEF ChildrenOf
  <2> QED BY <1>3, <2>1, FS_AddElement DEF Children
<1>5. ASSUME NEW q \in R PROVE Paid(q) + ValueCost <= CostOf(q)
  <2>1. q \in Values /\ q \in DOMAIN tree /\ q \in Paths BY <1>1, <1>2, TreeShape DEF Values
  <2>2. Above(p, q)
    <3>1. CASE q = p
      <4>1. Len(p) \in Nat BY <1>1, LenProperties DEF Paths
      <4> QED BY <3>1, <4>1 DEF Above
    <3>2. CASE q \in ChildrenOf(p)
      <4>1. PICK i \in 0..(Children(p) - 1) : q = Append(p, i) BY <1>1, <3>2
      <4>2. Len(q) = Len(p) + 1 /\ Len(p) \in Nat /\ \A k \in 1..Len(p) : q[k] = p[k]
        BY <1>1, <4>1, Appending, LenProperties DEF Paths
      <4> QED BY <4>2 DEF Above
    <3> QED BY <3>1, <3>2
  <2>3. Above(Cursor, q)
    <3>1. Len(Cursor) \in Nat /\ Len(p) \in Nat /\ Len(q) \in Nat
      BY <1>1, <2>1, LenProperties DEF Paths
    <3> HIDE DEF Cursor
    <3> QED BY <2>2, <3>1 DEF Above
  <2>4. ~Done(q) BY <2>1, <2>3, NotDoneBelow
  <2>5. ~Open(q)
    <3>1. CASE pc = "enter"
      <4>1. Cursor = at BY <3>1 DEF Cursor
      <4>2. Len(at) \in Nat /\ Len(q) \in Nat BY <1>1, <2>1, LenProperties DEF Paths
      <4>3. Len(at) <= Len(q) BY <2>3, <4>1 DEF Above
      <4>4. Above(q, at) => q = at BY <1>1, <2>1, <4>2, <4>3, AboveShorter
      <4> QED BY <3>1, <4>4 DEF Open
    <3>2. CASE pc = "convert"
      <4>1. at = <<>> BY <3>2 DEF WalkInv, Stopped
      <4> QED BY <2>1, <4>1, PaidBetween
    <3> QED BY <3>1, <3>2
  <2> QED BY <2>1, <2>4, <2>5, Unpaid
<1> HIDE DEF R
<1>6. ValueCost \in Nat /\ pc \notin Stopped BY DEF ValueCost, Stopped
<1> QED BY <1>2, <1>4, <1>5, <1>6, Overdrawn

\* A leaf that is charged, and a limit that it meets.
LEMMA LeafPaid ==
  ASSUME TypeOK, WalkInv, BudgetInv, TypeOK', WalkInv', UNCHANGED <<tree, dir, budget>>,
         pc = "enter", dir = "in", tree[at].kind \in Leaves,
         \/ Charge(LeafCost) /\ Complete /\ UNCHANGED fault
         \/ ChargeFails(LeafCost)
  PROVE  BudgetInv'
<1> DEFINE s == ScalarCost(tree[at])
<1>1. /\ at \in Values /\ at \in DOMAIN tree /\ remaining \in Nat /\ tree \in Inputs
      /\ fault = "none"
  BY DEF TypeOK, WalkInv, Values, Stopped
<1>2. /\ s \in Nat /\ Entries(at) \in Nat /\ Top(at) \in {0, 9}
      /\ CostOf(at) = 8 + s + (Entries(at) * EntryCost(tree[at])) + Top(at)
  BY <1>1, CostTypes
<1>3. LeafCost = 8 + s BY DEF LeafCost, ValueCost, Node
<1>4. CostOf(at) = LeafCost + Top(at)
  <2>1. EntryCost(tree[at]) = 0 BY DEF EntryCost, Leaves
  <2>2. Entries(at) * 0 = 0 BY <1>2
  <2> HIDE DEF s
  <2> QED BY <1>2, <1>3, <2>1, <2>2
<1> HIDE DEF s
<1>5. CASE Charge(LeafCost) /\ Complete /\ UNCHANGED fault
  <2>1. PICK p \in Values : p = at BY <1>1
  <2>2. /\ Paid(p)' = CostOf(p) /\ Paid(p) = Top(p)
        /\ \A q \in Values : q # p => Paid(q)' = Paid(q)
    BY <1>5, <2>1, PaidComplete
  <2>3. Paid(p)' = Paid(p) + LeafCost BY <1>2, <1>3, <1>4, <2>1, <2>2
  <2>4. LeafCost \in Nat BY <1>2, <1>3
  <2>5. PICK cost \in Nat : cost = LeafCost BY <2>4
  <2>6. remaining' = remaining - cost BY <1>5, <2>5 DEF Charge
  <2>7. Paid(p)' = Paid(p) + cost BY <2>3, <2>5
  <2>8. UNCHANGED fault /\ pc \notin Stopped BY <1>5 DEF Stopped
  <2> HIDE DEF LeafCost
  <2> QED BY <2>2, <2>6, <2>7, <2>8, BudgetCharged
<1>6. CASE ChargeFails(LeafCost)
  <2>1. pc' = "unwind" /\ (fault' = "limit" => LeafCost > remaining)
    BY <1>6 DEF ChargeFails, Fail
  <2>2. ASSUME fault' = "limit" PROVE Total(Prices) > budget
    <3>1. ~Done(at) /\ ~Open(at)
      <4>1. Len(at) \in Nat BY <1>1, TreeShape, LenProperties DEF TypeOK, Paths
      <4>2. Above(at, at) /\ Cursor = at BY <4>1 DEF Above, Cursor
      <4> QED BY <1>1, <4>2, NotDoneBelow DEF Open
    <3>2. Paid(at) = Top(at) BY <3>1 DEF Paid
    <3>3. Paid(at) + LeafCost <= CostOf(at) BY <1>2, <1>3, <1>4, <3>2
    <3>4. PICK n \in Nat : n = LeafCost BY <1>2, <1>3
    <3>5. Cardinality({at}) = 1 BY FS_Singleton
    <3>6. n * Cardinality({at}) > remaining BY <1>1, <2>1, <2>2, <3>4, <3>5
    <3>7. \A x \in {at} : Paid(x) + n <= CostOf(x) BY <3>3, <3>4
    <3>8. {at} \in SUBSET Values BY <1>1
    <3>9. pc \notin Stopped BY DEF Stopped
    <3> QED BY <3>6, <3>7, <3>8, <3>9, Overdrawn
  <2> QED BY <2>1, <2>2, BudgetStopped DEF Stopped
<1> QED BY <1>5, <1>6

\* A container at its beginning.
LEMMA ContainerPaid ==
  ASSUME TypeOK, WalkInv, BudgetInv, TypeOK', WalkInv', EnterContainer, dir = "in"
  PROVE  BudgetInv'
<1>1. /\ pc = "enter" /\ fault = "none" /\ UNCHANGED <<tree, dir, at, budget>>
      /\ at \in Values /\ at \in DOMAIN tree /\ remaining \in Nat
      /\ tree \in Inputs /\ Children(at) \in Nat
  <2>1. pc = "enter" /\ UNCHANGED <<tree, dir, at, budget>> BY DEF EnterContainer, Entered
  <2> QED BY <2>1, TreeShape DEF TypeOK, WalkInv, Values, Stopped
<1>2. Above(Cursor, at)
  <2>1. Len(at) \in Nat BY <1>1, TreeShape, LenProperties DEF TypeOK, Paths
  <2> QED BY <1>1, <2>1 DEF Above, Cursor
<1>3. CASE Charge(ValueCost) /\ next' = 0 /\ pc' = "child" /\ UNCHANGED fault
  <2>1. PICK p \in Values : p = at BY <1>1
  <2>2. /\ Paid(p)' = Paid(p) + ValueCost
        /\ \A q \in Values : q # p => Paid(q)' = Paid(q)
    BY <1>1, <1>3, <2>1, PaidEntered
  <2>3. remaining' = remaining - ValueCost /\ ValueCost \in Nat BY <1>3 DEF Charge, ValueCost
  <2>4. UNCHANGED <<tree, dir, budget, fault>> /\ pc \notin Stopped BY <1>1, <1>3 DEF Stopped
  <2> QED BY <2>2, <2>3, <2>4, BudgetCharged
<1>4. ASSUME pc' = "unwind",
             fault' = "limit" => ValueCost * (Children(at) + 1) > remaining
      PROVE  BudgetInv'
  <2>1. fault' = "limit" => Total(Prices) > budget
    BY <1>1, <1>2, <1>4, Crowded
  <2> QED BY <1>1, <1>4, <2>1, BudgetStopped DEF Stopped
<1>5. CASE Charge(ValueCost) /\ TooLong(Entries(at), remaining') /\ Fail("limit")
  <2>1. remaining' \in Nat /\ remaining' = remaining - 8 /\ Entries(at) > remaining' \div 8
    BY <1>5 DEF Charge, TooLong, TypeOK, ValueCost
  <2>2. Entries(at) <= Children(at) /\ Entries(at) \in Nat BY <1>1 DEF Entries
  <2>3. 8 * (Children(at) + 1) > remaining BY <1>1, <2>1, <2>2
  <2> QED BY <1>4, <1>5, <2>3 DEF Fail, ValueCost
<1>6. CASE ChargeFails(ValueCost)
  <2>1. pc' = "unwind" /\ (fault' = "limit" => ValueCost > remaining)
    BY <1>6 DEF ChargeFails, Fail
  <2>2. 8 > remaining => 8 * (Children(at) + 1) > remaining BY <1>1
  <2> QED BY <1>4, <2>1, <2>2 DEF ValueCost
<1> QED BY <1>3, <1>5, <1>6 DEF EnterContainer

\* The next child of a container, which may start a field or a pair.
LEMMA EntryPaid ==
  ASSUME TypeOK, WalkInv, BudgetInv, TypeOK', WalkInv', ChildOf, dir = "in"
  PROVE  BudgetInv'
<1> DEFINE cost == IF StartsEntry(at, next) THEN EntryCost(tree[at]) ELSE 0
<1>1. /\ pc = "child" /\ next < Children(at) /\ UNCHANGED <<tree, dir, budget>>
      /\ \/ Charge(cost) /\ at' = Append(at, next) /\ next' = 0 /\ pc' = "enter" /\ UNCHANGED fault
         \/ StartsEntry(at, next) /\ ChargeFails(cost)
  BY DEF ChildOf, Node
<1>2. /\ at \in Values /\ at \in DOMAIN tree /\ remaining \in Nat /\ tree \in Inputs
      /\ fault = "none" /\ pc \notin Stopped /\ next \in Nat
  BY <1>1 DEF TypeOK, WalkInv, Values, Stopped
<1>3. cost \in Nat
  <2>1. EntryCost(tree[at]) \in {0, 8, 9} BY <1>2, CostTypes
  <2> QED BY <2>1
<1>4. CASE Charge(cost) /\ at' = Append(at, next) /\ pc' = "enter" /\ UNCHANGED fault
  <2>1. PICK p \in Values : p = at BY <1>2
  <2>2. /\ Paid(p)' = Paid(p) + IF StartsEntry(p, next) THEN EntryCost(tree[p]) ELSE 0
        /\ \A q \in Values : q # p => Paid(q)' = Paid(q)
    BY <1>1, <1>4, <2>1, PaidDown
  <2>3. PICK n \in Nat : n = cost BY <1>3
  <2>4. Paid(p)' = Paid(p) + n BY <2>1, <2>2, <2>3
  <2>5. remaining' = remaining - n BY <1>4, <2>3 DEF Charge
  <2> HIDE DEF cost
  <2>6. UNCHANGED <<tree, dir, budget, fault>> BY <1>1, <1>4
  <2> QED BY <1>2, <2>2, <2>4, <2>5, <2>6, BudgetCharged
<1>5. CASE StartsEntry(at, next) /\ ChargeFails(cost)
  <2>1. pc' = "unwind" /\ (fault' = "limit" => cost > remaining)
    BY <1>5 DEF ChargeFails, Fail
  <2>2. ASSUME fault' = "limit" PROVE Total(Prices) > budget
    <3>1. Paid(at) + cost <= CostOf(at)
      <4>1. Len(at) \in Nat /\ at \in Paths /\ Children(at) \in Nat
        BY <1>2, TreeShape, LenProperties DEF Paths
      <4>2. Above(at, at) BY <4>1 DEF Above
      <4>3. Above(at, Cursor)
        <5>1. /\ Len(Append(at, next)) = Len(at) + 1
              /\ \A i \in 1..Len(at) : Append(at, next)[i] = at[i]
          BY <1>2, <4>1, Appending
        <5>2. Cursor = Append(at, next) BY <1>1 DEF Cursor
        <5> QED BY <4>1, <5>1, <5>2 DEF Above
      <4>4. ~Done(at) BY <1>2, <4>3, NotDoneBelow
      <4>5. Open(at) /\ Begun(at) = next BY <1>1, <1>2, <4>2 DEF Open, Begun, Values
      <4>6. Paid(at) = Charged(at, next) BY <4>4, <4>5 DEF Paid
      <4>7. next \in 0..Children(at) /\ next + 1 \in 0..Children(at) BY <1>1, <1>2, <4>1
      <4> QED BY <1>1, <1>2, <4>6, <4>7, ChargedFits
    <3>2. PICK n \in Nat : n = cost BY <1>3
    <3> HIDE DEF cost
    <3>3. Cardinality({at}) = 1 BY FS_Singleton
    <3>4. n * Cardinality({at}) > remaining BY <1>2, <2>1, <2>2, <3>2, <3>3
    <3>5. \A x \in {at} : Paid(x) + n <= CostOf(x) BY <3>1, <3>2
    <3>6. {at} \in SUBSET Values BY <1>2
    <3> QED BY <1>2, <3>4, <3>5, <3>6, Overdrawn
  <2> QED BY <1>1, <2>1, <2>2, BudgetStopped DEF Stopped
<1> QED BY <1>1, <1>4, <1>5

\* The limit of the parameter map: 16 bytes a parameter, which each of them costs at least.
LEMMA MapRefused ==
  ASSUME TypeOK, WalkInv, BudgetInv, TooManyParameters
  PROVE  BudgetInv'
<1> DEFINE R == ChildrenOf(<<>>)
<1>1. /\ pc = "convert" /\ next = 0 /\ at = <<>> /\ dir = "in" /\ pc \notin Stopped
      /\ Children(<<>>) > remaining \div 16 /\ pc' = "unwind"
      /\ UNCHANGED <<tree, budget>>
  BY DEF TooManyParameters, Refuses, Fail, WalkInv, Stopped
<1>2. remaining \in Nat /\ Children(<<>>) \in Nat /\ <<>> \in DOMAIN tree /\ <<>> \in Paths
  BY TreeShape DEF TypeOK
<1>3. 16 * Cardinality(R) > remaining BY <1>1, <1>2 DEF Children
<1>4. R \in SUBSET Values BY DEF ChildrenOf, Values
<1>5. ASSUME NEW q \in R PROVE Paid(q) + 16 <= CostOf(q)
  <2>1. q \in Values /\ q \in DOMAIN tree BY <1>4 DEF Values
  <2>2. ~Done(q) /\ ~Open(q) /\ q # at BY <1>1, <2>1, NoneDone, PaidBetween
  <2>3. Paid(q) + ValueCost + Top(q) <= CostOf(q) BY <2>1, <2>2, Unpaid
  <2>4. Len(q) = 1
    <3>1. q \in Paths /\ q # <<>> /\ Parent(q) = <<>> BY <2>1, TreeShape DEF TypeOK, ChildrenOf
    <3>2. Len(Parent(q)) = Len(q) - 1 /\ Len(q) \in Nat BY <3>1, LastStep
    <3>3. Len(<<>>) = 0 BY EmptySeq
    <3> QED BY <3>1, <3>2, <3>3
  <2>5. Paid(q) \in Nat /\ CostOf(q) \in Nat BY <2>1, PaidFits, CostTypes DEF TypeOK
  <2> QED BY <2>3, <2>4, <2>5 DEF Top, NameCost, DescriptorCost, ValueCost
<1> HIDE DEF R
<1>6. Total(Prices) > budget BY <1>1, <1>3, <1>4, <1>5, Overdrawn
<1> QED BY <1>1, <1>6, BudgetStopped DEF Stopped

\* The next parameter, and a list in it that its type is inferred from.
LEMMA ParameterPaid ==
  ASSUME TypeOK, WalkInv, BudgetInv, TypeOK', WalkInv', Parameter
  PROVE  BudgetInv'
<1> DEFINE cost == NameCost + DescriptorCost
<1>1. /\ pc = "convert" /\ dir = "in" /\ next < Children(<<>>) /\ pc \notin Stopped
      /\ at = <<>> /\ fault = "none" /\ UNCHANGED <<tree, dir, budget>>
  BY DEF Parameter, WalkInv, Stopped
<1>2. /\ remaining \in Nat /\ Children(<<>>) \in Nat /\ next \in Nat /\ tree \in Inputs
      /\ <<>> \in DOMAIN tree /\ <<>> \in Paths
  BY TreeShape DEF TypeOK
<1>3. Append(<<>>, next) = <<next>> OBVIOUS
<1>4. PICK p \in Values : p = <<next>>
  <2>1. Append(<<>>, next) \in DOMAIN tree BY <1>1, <1>2, ChildExists
  <2>2. <<next>> # <<>> OBVIOUS
  <2> QED BY <1>3, <2>1, <2>2 DEF Values
<1>5. cost = 9 BY DEF NameCost, DescriptorCost
<1>6. Cursor = p BY <1>1, <1>3, <1>4 DEF Cursor
<1>7. p \in Paths /\ p \in DOMAIN tree /\ Len(p) = 1 /\ p[1] = next
  BY <1>2, <1>4, TreeShape DEF Values
<1>8. CASE Charge(cost) /\ at' = <<next>> /\ next' = 0 /\ pc' = "enter" /\ UNCHANGED fault
  <2>1. /\ Paid(p) = 0 /\ Paid(p)' = cost
        /\ \A q \in Values : q # p => Paid(q)' = Paid(q)
    BY <1>1, <1>4, <1>8, PaidParameter
  <2>2. remaining' = remaining - cost BY <1>8 DEF Charge
  <2>3. Paid(p)' = Paid(p) + cost /\ cost \in Nat BY <1>5, <2>1
  <2> HIDE DEF cost
  <2> QED BY <1>1, <1>8, <2>1, <2>2, <2>3, BudgetCharged
<1>9. CASE ChargeFails(cost)
  <2>1. pc' = "unwind" /\ (fault' = "limit" => cost > remaining)
    BY <1>9 DEF ChargeFails, Fail
  <2>2. ASSUME fault' = "limit" PROVE Total(Prices) > budget
    <3>1. ~Done(p)
      <4>1. Above(p, p) BY <1>7 DEF Above
      <4> QED BY <1>6, <1>7, <4>1, NotDoneBelow
    <3>2. ~Open(p) /\ p # at BY <1>1, PaidBetween
    <3>3. Paid(p) + 8 + Top(p) <= CostOf(p) BY <3>1, <3>2, Unpaid DEF ValueCost
    <3>4. Top(p) = 9 BY <1>5, <1>7 DEF Top
    <3>5. Paid(p) \in Nat /\ CostOf(p) \in Nat BY <1>2, PaidFits, CostTypes
    <3>6. \A x \in {p} : Paid(x) + 9 <= CostOf(x) BY <3>3, <3>4, <3>5
    <3>7. Cardinality({p}) = 1 BY FS_Singleton
    <3>8. 9 * Cardinality({p}) > remaining BY <1>2, <1>5, <2>1, <2>2, <3>7
    <3>9. {p} \in SUBSET Values OBVIOUS
    <3> QED BY <1>1, <3>6, <3>8, <3>9, Overdrawn
  <2> QED BY <1>1, <2>1, <2>2, BudgetStopped DEF Stopped
<1>10. CASE Fail("conversion")
  BY <1>1, <1>10, BudgetStopped DEF Fail, Stopped
<1>11. CASE /\ remaining >= NameCost /\ Fail("limit")
            /\ \E q \in UntypedLists(next) : TooLong(Entries(q), remaining - NameCost)
  <2>1. PICK q \in UntypedLists(next) : TooLong(Entries(q), remaining - 1)
    BY <1>11 DEF NameCost
  <2>2. /\ q \in DOMAIN tree /\ q # <<>> /\ q[1] = next
        /\ \A k \in 1..Len(q) : tree[SubSeq(q, 1, k)].kind = "list"
    BY DEF UntypedLists
  <2>3. q \in Values /\ q \in Paths /\ Len(q) \in Nat \ {0} /\ Children(q) \in Nat
    <3>1. q \in Paths BY <2>2, TreeShape DEF TypeOK
    <3> QED BY <2>2, <3>1, LastStep, TreeShape DEF Values, TypeOK
  <2>4. tree[q].kind = "list"
    <3>1. Len(q) \in 0..Len(q) /\ Len(q) \in 1..Len(q) BY <2>3
    <3>2. /\ SubSeq(q, 1, Len(q)) \in Paths /\ Len(SubSeq(q, 1, Len(q))) = Len(q)
          /\ \A i \in 1..Len(q) : SubSeq(q, 1, Len(q))[i] = q[i]
      BY <2>3, <3>1, Cutting
    <3>3. SubSeq(q, 1, Len(q)) = q BY <2>3, <3>2, SamePath
    <3> QED BY <2>2, <3>1, <3>3
  <2>5. Children(q) > (remaining - 1) \div 8 BY <2>1, <2>4 DEF TooLong, Entries
  <2>6. 8 * (Children(q) + 1) > remaining BY <1>2, <2>3, <2>5
  <2>7. Above(Cursor, q) BY <1>6, <1>7, <2>2, <2>3 DEF Above
  <2>8. Total(Prices) > budget BY <1>1, <2>3, <2>6, <2>7, Crowded DEF ValueCost
  <2> QED BY <1>1, <1>11, <2>8, BudgetStopped DEF Fail, Stopped
<1> QED BY <1>8, <1>9, <1>10, <1>11 DEF Parameter

LEMMA BudgetKept ==
  ASSUME TypeOK, WalkInv, BudgetInv, [Next]_vars
  PROVE  BudgetInv'
<1>0. TypeOK' /\ WalkInv' BY TypesKept
<1>1. dir \in {"in", "out"} /\ (pc \notin Stopped => fault = "none")
  BY DEF TypeOK, WalkInv
<1>2. ASSUME dir = "out", UNCHANGED dir PROVE BudgetInv' BY <1>2, BudgetOut
<1>3. ASSUME UNCHANGED <<tree, budget>>, pc' \in Stopped, fault' # "limit" PROVE BudgetInv'
  BY <1>3, BudgetStopped
<1>4. CASE TooManyParameters BY <1>4, MapRefused
<1>5. CASE Parameter BY <1>0, <1>5, ParameterPaid
<1>6. CASE ParameterAdded
  <2>1. /\ at = <<>> /\ pc = "add" /\ UNCHANGED <<tree, dir, at, next, budget, remaining>>
        /\ \/ pc' = "convert" /\ UNCHANGED fault
           \/ pc' = "unwind" /\ fault' = "refused"
    BY <1>6 DEF ParameterAdded, WalkInv, Stopped, walk, Fail
  <2>2. CASE pc' = "convert" /\ UNCHANGED fault
    <3>1. \A q \in Values : Paid(q)' = Paid(q) BY <1>0, <2>1, <2>2, PaidSame
    <3> QED BY <2>1, <2>2, <3>1, BudgetSame DEF Stopped
  <2> QED BY <1>3, <2>1, <2>2 DEF Stopped
<1>7. CASE Converted
  <2>1. /\ at = <<>> /\ pc = "convert" /\ pc' = "accepted"
        /\ UNCHANGED <<tree, dir, at, next, budget, remaining, fault>>
    BY <1>7 DEF Converted, WalkInv, Stopped, walk
  <2>2. \A q \in Values : Paid(q)' = Paid(q) BY <1>0, <2>1, PaidSame
  <2> QED BY <2>1, <2>2, BudgetSame DEF Stopped
<1>8. CASE TooDeep BY <1>3, <1>8 DEF TooDeep, Fail, Stopped
<1>9. CASE EnterContainer
  <2>1. UNCHANGED dir BY <1>9 DEF EnterContainer
  <2> QED BY <1>0, <1>1, <1>2, <1>9, <2>1, ContainerPaid
<1>10. CASE NumberIn \/ LeafIn
  <2>1. /\ pc = "enter" /\ dir = "in" /\ tree[at].kind \in Leaves
        /\ UNCHANGED <<tree, dir, budget>>
        /\ \/ Charge(LeafCost) /\ Complete /\ UNCHANGED fault
           \/ pc' = "unwind" /\ fault' \in {"integer", "conversion"}
           \/ ChargeFails(LeafCost)
    BY <1>10 DEF NumberIn, LeafIn, LeafCharged, Entered, Node, Leaves, Fail
  <2> QED BY <1>0, <1>3, <2>1, LeafPaid DEF Stopped
<1>11. CASE LeafOut \/ ContainerOut \/ OutputFails \/ Column \/ Row
  <2>1. dir' = "out"
    BY <1>11 DEF LeafOut, ContainerOut, OutputFails, Column, Row, WalkInv
  <2> QED BY <2>1, BudgetOut
<1>12. CASE ChildOf
  <2>1. UNCHANGED dir BY <1>12 DEF ChildOf
  <2> QED BY <1>0, <1>1, <1>2, <1>12, <2>1, EntryPaid
<1>13. CASE ContainerIn
  <2>1. /\ pc = "child" /\ next = Children(at) /\ Complete /\ at \in Values
        /\ UNCHANGED <<tree, dir, budget, remaining, fault>>
    BY <1>13 DEF ContainerIn, WalkInv, Values, TypeOK
  <2>2. PICK p \in Values : p = at BY <2>1
  <2>3. \A q \in Values : Paid(q)' = Paid(q) BY <2>1, <2>2, PaidComplete
  <2> QED BY <2>1, <2>3, BudgetSame DEF Stopped
<1>14. CASE ContainerFails BY <1>3, <1>14 DEF ContainerFails, Fail, Stopped
<1>15. CASE Unwind
  <2>1. /\ dir = "in" /\ pc' = "failed" /\ UNCHANGED <<tree, dir, budget, fault>>
    BY <1>15 DEF Unwind
  <2> QED BY <2>1, BudgetStopped DEF BudgetInv, Stopped
<1>16. CASE UNCHANGED vars
  <2>1. UNCHANGED <<tree, dir, pc, at, next, budget, remaining, fault>> BY <1>16 DEF vars, walk
  <2>2. Values' = Values BY <2>1 DEF Values
  <2>3. Cursor' = Cursor BY <2>1 DEF Cursor
  <2>4. ASSUME NEW q \in Values PROVE Paid(q)' = Paid(q)
    <3>1. Done(q)' <=> Done(q) BY <2>3 DEF Done, Before
    <3>2. Open(q)' <=> Open(q) BY <2>1 DEF Open, Above
    <3>3. Charged(q, Begun(q))' = Charged(q, Begun(q))
      BY <2>1 DEF Charged, EntriesIn, Begun
    <3> QED BY <2>1, <3>1, <3>2, <3>3, SameCosts DEF Paid, Top
  <2>5. Bill' = Bill BY <2>2, <2>4 DEF Bill
  <2>6. Prices' = Prices BY <2>1, <2>2, SameCosts DEF Prices
  <2> QED BY <2>1, <2>5, <2>6 DEF BudgetInv
<1> QED BY <1>4, <1>5, <1>6, <1>7, <1>8, <1>9, <1>10, <1>11, <1>12, <1>13, <1>14, <1>15,
           <1>16 DEF Next

\* At first nothing is charged.
LEMMA BudgetInit ==
  ASSUME Init, TypeOK
  PROVE  BudgetInv
<1>1. /\ dir = "in" /\ at = <<>> /\ next = 0 /\ pc = "convert" /\ fault = "none"
      /\ remaining = budget
  BY DEF Init
<1>2. \A q \in Values : Paid(q) = 0
  <2> TAKE q \in Values
  <2>1. ~Done(q) BY <1>1, NoneDone DEF Values
  <2> QED BY <1>1, <2>1, PaidBetween
<1>3. Total(Bill) = 0
  <2>1. DOMAIN Bill = Values /\ \A q \in Values : Bill[q] = 0 BY <1>2 DEF Bill
  <2>2. IsFiniteSet(Values) BY ValuesAreFinite DEF TypeOK
  <2> HIDE DEF Bill
  <2> QED BY <2>1, <2>2, TotalOfNothing
<1>4. budget \in Nat BY DEF TypeOK
<1> QED BY <1>1, <1>3, <1>4 DEF BudgetInv

-----------------------------------------------------------------------------
(* The theorems. *)

LEMMA InvariantInit == Init => Invariant
<1> SUFFICES ASSUME Init PROVE Invariant OBVIOUS
<1>1. TypeOK /\ WalkInv BY InitTypes
<1>2. /\ tree \in Inputs /\ dir = "in" /\ pc = "convert" /\ at = <<>> /\ next = 0
      /\ home = [p \in DOMAIN tree |-> "none"] /\ fault = "none"
  BY DEF Init
<1>3. \A p \in DOMAIN tree : ~Done(p) BY <1>1, <1>2, NoneDone
<1>4. NumberInv BY <1>2, <1>3 DEF NumberInv, Numbers, Stopped
<1>5. HomeInv BY <1>2, <1>3 DEF HomeInv, Owner, Values, Stopped
<1>6. PathInv BY <1>2 DEF PathInv, Stopped
<1>7. OutPathInv BY <1>2 DEF OutPathInv
<1>8. BudgetInv BY <1>1, BudgetInit
<1> QED BY <1>1, <1>4, <1>5, <1>6, <1>7, <1>8 DEF Invariant

\* The strengthening of the four properties is kept by every step of both converters.
THEOREM InvariantHolds == Spec => []Invariant
<1>1. Init => Invariant BY InvariantInit
<1>2. Invariant /\ [Next]_vars => Invariant'
  BY TypesKept, NumbersKept, HomesKept, PathKept, OutPathKept, BudgetKept DEF Invariant
<1> QED BY <1>1, <1>2, PTL DEF Spec

\* The variables of both converters keep their types, for any parameters, budgets, depth
\* and size of the words.
THEOREM TypesHold == Spec => []TypeOK
<1>1. Invariant => TypeOK BY DEF Invariant
<1> QED BY <1>1, InvariantHolds, PTL

\* Integers are refused only outside the range of their type; those accepted come back in
\* the row as what they were: Input.integer and Result.integer, aphid_value_make and
\* aphid_value_inspect, wherever in the parameters the integers are.
THEOREM NumbersHold == Spec => []NumbersSurvive
<1>1. ASSUME Invariant PROVE NumbersSurvive
  <2>1. TypeOK /\ WalkInv /\ NumberInv BY <1>1 DEF Invariant
  <2>2. fault = "integer" => ~InRange(tree[at].type, tree[at].value) BY <2>1 DEF NumberInv
  <2>3. ASSUME pc = "done", NEW p \in Numbers
        PROVE  InRange(tree[p].type, tree[p].value) /\ got[p] = tree[p].value
    <3>1. dir = "out" /\ at = <<>> /\ next = Children(<<>>)
      BY <2>1, <2>3 DEF WalkInv, Stopped
    <3>2. p \in Values BY <2>1, TreeShape DEF TypeOK, Numbers, Values
    <3>3. Done(p) BY <2>1, <2>3, <3>1, <3>2, AllDone
    <3> QED BY <2>1, <2>3, <3>1, <3>3 DEF NumberInv, Settled, Stopped
  <2> QED BY <2>2, <2>3 DEF NumbersSurvive, Numbers
<1> QED BY <1>1, InvariantHolds, PTL

\* Every native value is freed once by the time that a failed conversion has unwound, none
\* of a successful one is, and each then belongs to the parameters or to one container:
\* aphid_value_make, aphid_params_add and the cleanup of Input.encode and Input.convert.
THEOREM FreedHolds == Spec => []FreedExactlyOnce
<1>1. ASSUME Invariant PROVE FreedExactlyOnce
  <2>1. TypeOK /\ WalkInv /\ HomeInv BY <1>1 DEF Invariant
  <2>2. ASSUME NEW p \in Values PROVE home[p] # "twice"
    <3>1. dir \in {"in", "out"} BY <2>1 DEF TypeOK
    <3> QED BY <2>1, <3>1 DEF HomeInv, Owner, Reached, Stopped
  <2>3. ASSUME pc \in {"accepted", "done"}, NEW p \in Values
        PROVE  home[p] = IF Len(p) = 1 THEN "params" ELSE "inside"
    <3>1. CASE pc = "done" BY <2>1, <3>1 DEF WalkInv, HomeInv
    <3>2. CASE pc = "accepted"
      <4>1. dir = "in" /\ at = <<>> /\ next = Children(<<>>)
        BY <2>1, <3>2 DEF WalkInv, Stopped
      <4>2. \A q \in Values : Done(q) BY <2>1, <3>2, <4>1, AllDone
      <4>3. p \in DOMAIN tree /\ p # <<>> /\ p \in Paths
        BY <2>1, TreeShape DEF TypeOK, Values
      <4>4. /\ Len(p) \in Nat \ {0} /\ Len(Parent(p)) = Len(p) - 1 /\ Parent(p) \in DOMAIN tree
        BY <2>1, <4>3, LastStep, ParentExists DEF TypeOK
      <4>5. Len(p) # 1 => Parent(p) # <<>> BY <4>4, EmptySeq
      <4>6. home[p] = Owner(p) BY <2>1, <3>2, <4>1 DEF HomeInv, Stopped
      <4> QED BY <3>2, <4>2, <4>4, <4>5, <4>6 DEF Owner, Values
    <3> QED BY <2>3, <3>1, <3>2
  <2>4. pc = "failed" /\ dir = "in" => \A p \in Values : home[p] \in {"none", "freed"}
    BY <2>1 DEF HomeInv
  <2> QED BY <2>2, <2>3, <2>4 DEF FreedExactlyOnce, Values
<1> QED BY <1>1, InvariantHolds, PTL

\* The path of an error is that of the value that failed, or of something around it, or
\* goes on from it; in a parameter it names a value.  Input.path and Budget.path with their
\* lengths, and how both encode functions keep them.
THEOREM PathHolds == Spec => []PathNamesFailure
<1>1. ASSUME Invariant PROVE PathNamesFailure
  <2>1. dir \in {"in", "out"} BY <1>1 DEF Invariant, TypeOK
  <2> QED BY <1>1, <2>1 DEF Invariant, PathInv, OutPathInv, Located, Near, PathNamesFailure, Stopped
<1> QED BY <1>1, InvariantHolds, PTL

\* A parameter map is refused for its size only if all of it together costs more than the
\* budget, and one that is accepted has been charged exactly what it costs: Budget.charge,
\* the refusals of arrays by their length in Input.convert and Input.encode, and the
\* accounting of docs/types.md.
THEOREM LimitHolds == Spec => []LimitIsRight
<1>1. ASSUME Invariant PROVE LimitIsRight
  <2>1. TypeOK /\ WalkInv /\ BudgetInv BY <1>1 DEF Invariant
  <2>2. InputCost = Total(Prices) BY <2>1, InputCostIsTotal DEF TypeOK
  <2>3. dir = "in" /\ fault = "limit" => InputCost > budget BY <2>1, <2>2 DEF BudgetInv
  <2>4. ASSUME dir = "in", pc = "accepted" PROVE InputCost = budget - remaining
    <3>1. at = <<>> /\ next = Children(<<>>) /\ pc \notin Stopped
      BY <2>1, <2>4 DEF WalkInv, Stopped
    <3>2. \A q \in Values : Done(q) BY <2>1, <2>4, <3>1, AllDone
    <3>3. Bill = Prices BY <3>2 DEF Bill, Prices, Paid
    <3>4. remaining + Total(Bill) = budget BY <2>1, <2>4, <3>1 DEF BudgetInv
    <3>5. Total(Prices) \in Nat /\ remaining \in Nat /\ budget \in Nat
      BY <2>1, BillTypes DEF TypeOK
    <3> QED BY <2>2, <3>3, <3>4, <3>5
  <2> QED BY <2>3, <2>4 DEF LimitIsRight
<1> QED BY <1>1, InvariantHolds, PTL

=============================================================================
