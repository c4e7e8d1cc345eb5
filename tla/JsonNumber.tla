----------------------------- MODULE JsonNumber -----------------------------
(***************************************************************************)
(* parse_integer of simdjson, by which the integer members of a body get   *)
(* their values, for machine words of any width.  The digits are read into *)
(* an unsigned word that may overflow; the limit on their number and the   *)
(* comparison with the largest integer are to find out afterwards.         *)
(***************************************************************************)
EXTENDS Integers, Sequences, FiniteSetsExt, SequencesExt

CONSTANTS
  Formats,   \* words there are and longest_digit_count: 2^64 and 19 in the code
  Literals   \* texts of a number: sign, digits, and the character behind them

Power10(n) == LET power[k \in 0 .. n] == IF k = 0 THEN 1 ELSE 10 * power[k - 1] IN power[n]

\* So many digits never overflow a word, and one more never fits.
ASSUME FormatsAssumption ==
  \A f \in Formats :
    /\ f.words \in Nat /\ f.words % 2 = 0 /\ f.longest \in Nat
    /\ f.words \div 2 < Power10(f.longest) /\ Power10(f.longest) <= f.words

ASSUME LiteralsAssumption ==
  Literals \subseteq [negative : BOOLEAN, digits : Seq(0 .. 9),
                     next : {"end", "fraction", "other"}]

VARIABLES format, literal, parsed   \* parsed: the error and the word, or "none"

numberVars == <<format, literal, parsed>>

NumberInit == format \in Formats /\ literal \in Literals /\ parsed = [error |-> "none", word |-> 0]

Modulo(n)  == n % format.words
IntegerMax == format.words \div 2 - 1

\* parse_digit, in a word
Accumulated == FoldLeft(LAMBDA i, digit : Modulo(10 * i + digit), 0, literal.digits)

Failed(code) == parsed' = [error |-> code, word |-> 0]

LongestDigits_OneMore == format.longest + 1
LongestDigits == format.longest

ParseInteger ==
  /\ parsed.error = "none" /\ UNCHANGED <<format, literal>>
  /\ IF Len(literal.digits) = 0 \/ Len(literal.digits) > LongestDigits THEN Failed("INCORRECT_TYPE")
     ELSE IF literal.digits[1] = 0 /\ Len(literal.digits) > 1 THEN Failed("NUMBER_ERROR")
     ELSE IF literal.next = "fraction" THEN Failed("INCORRECT_TYPE")
     ELSE IF literal.next = "other" THEN Failed("NUMBER_ERROR")
     ELSE IF Accumulated > IntegerMax + (IF literal.negative THEN 1 ELSE 0)
     THEN Failed("INCORRECT_TYPE")
     ELSE parsed' = [error |-> "SUCCESS",
                     word  |-> IF literal.negative THEN Modulo(-Accumulated) ELSE Accumulated]

\* The two's complement integer in a word.
Signed(word) == IF word > IntegerMax THEN word - format.words ELSE word

NumberSpec == NumberInit /\ [][ParseInteger]_numberVars

-----------------------------------------------------------------------------

\* What the text says.
Magnitude     == FoldLeft(LAMBDA i, digit : 10 * i + digit, 0, literal.digits)
WrittenNumber == IF literal.negative THEN -Magnitude ELSE Magnitude
IsInteger ==
  /\ literal.digits # <<>> /\ literal.next = "end"
  /\ literal.digits[1] = 0 => Len(literal.digits) = 1

\* An integer member gets exactly the number in the body or the request fails:
\* every integer that fits is accepted, the smallest and minus zero included, and
\* nothing else is, whatever the overflow of the word (parse_integer).
IntegersExactOrRefused ==
  parsed.error # "none" =>
    /\ parsed.error = "SUCCESS" <=> IsInteger /\ WrittenNumber \in -IntegerMax - 1 .. IntegerMax
    /\ parsed.error = "SUCCESS" => Signed(parsed.word) = WrittenNumber
=============================================================================
