--------------------------------- MODULE ALU ---------------------------------
(***************************************************************************)
(* The arithmetic of src/cpu/ALU.cpp on unsigned words.  result is signed  *)
(* there, but every register takes it back as a word.                      *)
(***************************************************************************)
EXTENDS Integers

CONSTANT Width  \* bits of a word (32 in the code)

ASSUME WidthAssumption == Width \in Nat \ {0}

Modulus == 2 ^ Width
Word == 0..(Modulus - 1)

(* uint32_t arithmetic wraps.                                              *)
Wrap(n) == n % Modulus

(* What calculate leaves in result.  A division by zero returns early:     *)
(* result is then junk, what the stack held.                               *)
Result(op, A, B, junk) ==
  CASE op = "ADD" -> Wrap(A + B)
    [] op = "SUB" -> Wrap(A - B)
    [] op = "MUL" -> Wrap(A * B)
    [] op = "DIV" -> IF B = 0 THEN junk ELSE A \div B

(* The comparisons of calculate, of unsigned words.                        *)
Holds(op, A, B) ==
  CASE op = "BEQ"  -> A = B
    [] op = "BNE"  -> A # B
    [] op = "BLT"  -> A < B
    [] op = "BLTI" -> A <= B
    [] op = "BGT"  -> A > B
    [] op = "BGTI" -> A >= B

=============================================================================
