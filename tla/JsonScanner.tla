---------------------------- MODULE JsonScanner ----------------------------
(***************************************************************************)
(* Stage 1 of simdjson on a processor with vector instructions: the places *)
(* of a text where its tokens start, found with operations on whole words  *)
(* of bits, one bit per character.  What a word knows about the end of the *)
(* one before it is three bits; a step takes two words.                    *)
(*                                                                         *)
(* A word is the set of the positions of its ones.  The code has words of  *)
(* 64 bits; "width" is any even number.  Texts are ASCII.                  *)
(***************************************************************************)
EXTENDS Integers, Sequences, FiniteSets

CONSTANTS
  Widths,   \* of a word
  Texts     \* of each width

\* What the scanner can tell apart: "feed" is a control character that the
\* lookup table takes for an operator, "tab" one that is white space.
Characters == {"quote", "backslash", "op", "space", "tab", "feed", "letter"}

ASSUME TextsAssumption ==
  \A w \in Widths : w \in Nat \ {0} /\ w % 2 = 0 /\ Texts[w] \subseteq Seq(Characters)

VARIABLES
  width,             \* bits of a word
  text,
  idx,               \* characters the reader is past
  carry,             \* prev_escaped, prev_in_string and prev_scalar
  prev_structurals,  \* the last word's structural characters, not written yet
  unescaped,         \* unescaped_chars_error
  indexes,           \* structural_indexes: offsets into the text
  result             \* "none" until stage 1 has returned

scanner == <<width, text, idx, carry, prev_structurals, unescaped, indexes, result>>

NoCarry == [escaped |-> FALSE, in_string |-> FALSE, scalar |-> FALSE]

ScanInit ==
  /\ width \in Widths /\ text \in Texts[width]
  /\ idx = 0 /\ carry = NoCarry
  /\ prev_structurals = {} /\ unescaped = FALSE
  /\ indexes = <<>> /\ result = "none"

-----------------------------------------------------------------------------
(* Words.                                                                  *)

Bits       == 0 .. width - 1
Even       == {i \in Bits : i % 2 = 0}
Shift(w)   == {i + 1 : i \in w} \cap Bits
Xor(v, w)  == (v \ w) \cup (w \ v)
Low(b)     == IF b THEN {0} ELSE {}
High(w)    == width - 1 \in w

\* Addition, from the lowest bit up; the last carry is the overflow.
Carries(v, w) ==
  LET carries[i \in 0 .. width] ==
        i > 0 /\ i - 1 \in IF carries[i - 1] THEN v \cup w ELSE v \cap w
  IN  carries
AddOverflow(v, w) ==
  LET carries == Carries(v, w)
  IN  [sum |-> Xor(Xor(v, w), {i \in Bits : carries[i]}), overflow |-> carries[width]]

PrefixXor(w) == {i \in Bits : Cardinality({j \in w : j <= i}) % 2 = 1}

-----------------------------------------------------------------------------
(* json_string_scanner and json_scanner, for the word "in" of characters.  *)

\* The starts of the runs of backslashes at odd bits, added to the backslashes,
\* carry these runs away.
OddRunsAdded(real, follows) == AddOverflow((real \ Even) \ follows, real)

EscapedMask(added, follows) ==
  [mask |-> Xor(Even, Shift(added.sum)) \cap follows, overflow |-> added.overflow]

FindEscapedBranchless_KeepFirst(backslash, prev) ==
  LET follows == Shift(backslash) \cup Low(prev)
  IN  EscapedMask(OddRunsAdded(backslash, follows), follows)

\* The characters behind a backslash that is not escaped itself: of a run of
\* backslashes, every other one and, if it is odd, what follows it.
FindEscapedBranchless(backslash, prev) ==
  LET real    == backslash \ Low(prev)
      follows == Shift(real) \cup Low(prev)
  IN  EscapedMask(OddRunsAdded(real, follows), follows)

FindEscaped(backslash, prev) ==
  IF backslash = {} THEN [mask |-> Low(prev), overflow |-> FALSE]
  ELSE FindEscapedBranchless(backslash, prev)

Equal(in, chars) == {i \in Bits : in[i] \in chars}

\* The quotes that open or close a string, and the insides of the strings with
\* their opening quotes.
QuotesAndStrings(quote, c, overflow) ==
  [quote     |-> quote,
   in_string |-> Xor(PrefixXor(quote), IF c.in_string THEN Bits ELSE {}),
   overflow  |-> overflow]

Strings(in, c) ==
  LET escaped == FindEscaped(Equal(in, {"backslash"}), c.escaped)
  IN  QuotesAndStrings(Equal(in, {"quote"}) \ escaped.mask, c, escaped.overflow)

Op(in)     == Equal(in, {"op", "feed"})
Scalar(in) == Bits \ (Op(in) \cup Equal(in, {"space", "tab"}))

\* structural_start(): outside the strings, the operators and what begins there.
StructuralStart(in, strings, follows) ==
  (Op(in) \cup (Scalar(in) \ follows)) \ Xor(strings.in_string, strings.quote)

\* The words of a block and what the next one has to know.
Block(in, strings, nonquote, c) ==
  [structurals |-> StructuralStart(in, strings, Shift(nonquote) \cup Low(c.scalar)),
   unescaped   |-> Equal(in, {"tab", "feed"}) \cap strings.in_string # {},
   carry       |-> [escaped   |-> strings.overflow,
                    in_string |-> High(strings.in_string),
                    scalar    |-> High(nonquote)]]

NextBlock(in, c) ==
  LET strings == Strings(in, c) IN Block(in, strings, Scalar(in) \ strings.quote, c)

-----------------------------------------------------------------------------
(* json_structural_indexer.                                                *)

Step        == 2 * width
HasFullBlock == idx < Len(text) - Step

\* A word of the text from an offset, filled up with spaces.
Load(from) ==
  [i \in Bits |-> IF from + i < Len(text) THEN text[from + i + 1] ELSE "space"]

\* bit_indexer::write
Write(written, from, word) ==
  written \o [n \in 1 .. Cardinality(word) |->
                from + (CHOOSE i \in word : Cardinality({j \in word : j < i}) = n - 1)]

\* next(): the structurals of the word before are written.
Handed(scanned, from, block) ==
  [indexes   |-> Write(scanned.indexes, from - width, scanned.prev),
   prev      |-> block.structurals,
   unescaped |-> scanned.unescaped \/ block.unescaped,
   carry     |-> block.carry]

ScanWord(scanned, from) == Handed(scanned, from, NextBlock(Load(from), scanned.carry))

\* step: two words.
ScanStep ==
  LET before == [indexes   |-> indexes, prev |-> prev_structurals,
                 unescaped |-> unescaped, carry |-> carry]
      after  == ScanWord(ScanWord(before, idx), idx + width)
  IN  /\ indexes' = after.indexes /\ prev_structurals' = after.prev
      /\ unescaped' = after.unescaped /\ carry' = after.carry
      /\ idx' = idx + Step
      /\ UNCHANGED <<width, text>>

Empty ==
  /\ result = "none" /\ text = <<>>
  /\ result' = "EMPTY"
  /\ UNCHANGED <<width, text, idx, carry, prev_structurals, unescaped, indexes>>

FullBlock ==
  /\ result = "none" /\ text # <<>> /\ HasFullBlock
  /\ ScanStep /\ UNCHANGED result

\* The last block, then finish().
Remainder ==
  /\ result = "none" /\ text # <<>> /\ ~HasFullBlock /\ idx < Len(text)
  /\ ScanStep /\ UNCHANGED result

Finish ==
  /\ result = "none" /\ text # <<>> /\ idx >= Len(text)
  /\ indexes' = Write(indexes, idx - width, prev_structurals)
  /\ result' = IF carry.in_string THEN "UNCLOSED_STRING"
               ELSE IF unescaped THEN "UNESCAPED_CHARS"
               ELSE IF indexes' = <<>> THEN "EMPTY" ELSE "SUCCESS"
  /\ UNCHANGED <<width, text, idx, carry, prev_structurals, unescaped>>

ScanNext == Empty \/ FullBlock \/ Remainder \/ Finish
=============================================================================
