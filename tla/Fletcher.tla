-------------------------------- MODULE Fletcher --------------------------------
(***************************************************************************)
(* The Fletcher-32 checksum of a filtered chunk (filters.rs), word by word. *)
(* The code keeps its two sums in unsigned integers of two words' width and *)
(* folds them back only after every block of words; the arithmetic is       *)
(* right only if no sum wraps before it is folded.                          *)
(*                                                                         *)
(* The code has W = 2^16, Base = 2^8 and Block = 360.                       *)
(***************************************************************************)
EXTENDS Integers

CONSTANTS
    Base,    \* the values of a byte
    Block    \* words added between two folds

\* The values of a 16-bit word.
W == Base * Base

\* What Block must not exceed for the sums of a block to fit: the bound the
\* code's comment speaks of, "the largest block for which sum2 cannot overflow".
ASSUME BlockAssumption ==
    /\ Base \in Nat /\ Base > 1
    /\ Block \in Nat /\ Block > 0
    /\ 2 * (2 * W - 2) + 2 * Block * (W + Block) + (W - 1) * Block * (Block + 1) < 2 * W * W

VARIABLES
    sum1, sum2,     \* the accumulators
    added,          \* words since the last fold
    step,           \* "words", "tail", "last" or "done"
    plain1, plain2  \* the sums as Fletcher defines them, modulo W - 1

sumVars == <<sum1, sum2, added, step, plain1, plain2>>

\* wrapping_add
Plus(x, y) == (x + y) % (W * W)

\* Mutant: the carry is lost.
Masked(x) == x % W

\* The deferred carry: (x & 0xffff) + (x >> 16).
Folded(x) == (x % W) + (x \div W)

SumInit ==
    /\ sum1 = 0 /\ sum2 = 0 /\ plain1 = 0 /\ plain2 = 0
    /\ added = 0 /\ step = "words"

\* The sums Fletcher means.
Count(word) ==
    /\ plain1' = (plain1 + word) % (W - 1)
    /\ plain2' = (plain2 + plain1 + word) % (W - 1)

\* The next word of the data, of which there may be any number.
AddWord(word) ==
    /\ step = "words"
    /\ LET s1 == Plus(sum1, word)
           s2 == Plus(sum2, s1)
       IN  IF added + 1 = Block
           THEN added' = 0 /\ sum1' = Folded(s1) /\ sum2' = Folded(s2)
           ELSE added' = added + 1 /\ sum1' = s1 /\ sum2' = s2
    /\ Count(word)
    /\ UNCHANGED step

\* The words are used up: the last block may be short.
EndWords ==
    /\ step = "words"
    /\ step' = "tail"
    /\ added' = 0
    /\ IF added > 0 THEN sum1' = Folded(sum1) /\ sum2' = Folded(sum2)
       ELSE UNCHANGED <<sum1, sum2>>
    /\ UNCHANGED <<plain1, plain2>>

\* A trailing byte is the high half of a word.
OddByte(byte) ==
    /\ step = "tail"
    /\ step' = "last"
    /\ LET s1 == Plus(sum1, byte * Base)
       IN  sum1' = Folded(s1) /\ sum2' = Folded(Plus(sum2, s1))
    /\ Count(byte * Base)
    /\ UNCHANGED added

\* The second reduction.
EndSums ==
    /\ step \in {"tail", "last"}
    /\ step' = "done"
    /\ sum1' = Folded(sum1)
    /\ sum2' = Folded(sum2)
    /\ UNCHANGED <<added, plain1, plain2>>

SumNext ==
    \/ \E word \in 0..W - 1 : AddWord(word)
    \/ EndWords
    \/ \E byte \in 0..Base - 1 : OddByte(byte)
    \/ EndSums

SumSpec == SumInit /\ [][SumNext]_sumVars

-----------------------------------------------------------------------------

\* Two sums that Fletcher does not tell apart.
Congruent(x, y) == (x - y) % (W - 1) = 0

\* The checksum of data of any length fits its two 16-bit halves, and each half
\* is the sum Fletcher defines: nothing was lost to a carry out of 32 bits, which
\* only data that fill whole blocks with large words could show (filters.rs:468-500).
ChecksumIsFletchers ==
    /\ Congruent(sum1, plain1)
    /\ Congruent(sum2, plain2)
    /\ step = "done" => sum1 < W /\ sum2 < W
=============================================================================
