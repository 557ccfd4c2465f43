------------------------------ MODULE COperands ------------------------------
(***************************************************************************)
(* The operands of Comparisons and Arithmetic: numbers of the program's    *)
(* widths, C types with the IR types they become (src/src/ir_gen/c_type.c),*)
(* and what an operand of a type is worth.                                 *)
(***************************************************************************)
EXTENDS Integers

CONSTANT Bits   \* the number of bits that stand for 8, 16, 32 and 64

NaN == 1000         \* floating point values are integers, and this one

(* Numbers of w bits, w one of the widths of the program. *)
Mod(w) == 2 ^ Bits[w]
Low(n, w) == n % Mod(w)
Signed(n, w) == LET m == Low(n, w) IN IF 2 * m >= Mod(w) THEN m - Mod(w) ELSE m
U64(n) == Low(n, 64)

-----------------------------------------------------------------------------
(* C types and the IR types they become.                                  *)
BOOL == 0
CHAR == 1
SHORT == 2
INT == 3
LONG == 4
LONG_LONG == 5

Integer(rank, signed) == [t |-> "int", rank |-> rank, signed |-> signed]
Float(rank) == [t |-> "float", rank |-> rank, signed |-> TRUE]
FLOAT == Float(0)
DOUBLE == Float(1)
Pointer == [t |-> "ptr", rank |-> 0, signed |-> FALSE]
IntType == Integer(INT, TRUE)

IntWidth(rank) == CASE rank \in {BOOL, CHAR} -> 8 [] rank = SHORT -> 16
                    [] rank = INT -> 32 [] OTHER -> 64

IrType(ctype) ==
  [t |-> ctype.t,
   width |-> CASE ctype.t = "int" -> IntWidth(ctype.rank)
               [] ctype.t = "float" -> IF ctype.rank = 0 THEN 32 ELSE 64
               [] OTHER -> 64]

BoolIr == IrType(IntType)

-----------------------------------------------------------------------------
(* An operand: a variable that holds u, a literal or negated literal with  *)
(* the 64-bit number u, or a global whose address is u.                    *)
Operand(kind, ctype, u) == [kind |-> kind, ctype |-> ctype, u |-> u]

(* The value C gives it. *)
CValue(o) ==
  IF o.ctype.t # "int" THEN o.u
  ELSE LET w == IntWidth(o.ctype.rank)
       IN IF o.ctype.signed THEN Signed(o.u, w) ELSE Low(o.u, w)
=============================================================================
