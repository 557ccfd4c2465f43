----------------------------- MODULE Arithmetic -----------------------------
(***************************************************************************)
(* C arithmetic on its way to the processor: the binary and unary          *)
(* operators, pointer arithmetic, compound assignment, ++ and --           *)
(* (ir_gen/expr.c), the folding of constants (ir.c) and the instructions   *)
(* that are selected for them (backend/asm_gen.c).  An expression has one  *)
(* operator; its value is stored to a variable, or it is the address of an *)
(* access.  Types, conversions and numbers are those of Comparisons.       *)
(***************************************************************************)
EXTENDS Comparisons, Bitwise

CONSTANTS
  Computed(_),   \* which pairs of operands are computed with (a bound)
  StoredTypes,       \* the types results are stored with
  Pointees       \* what pointers point to: length elements of size bytes each

VARIABLE oper    \* the operator that is generated, "none" for a comparison

arithmeticVars == <<vars, oper>>

BinaryOps == {"ADD", "SUB", "MUL", "DIV", "MOD", "SHL", "SHR", "BIT_AND", "BIT_OR", "BIT_XOR"}

Int64 == [t |-> "int", width |-> 64]
Size(pointee) == pointee.size * pointee.length
ArithmeticTypes == \A i \in {1, 2} : pair[i].ctype.t \in {"int", "float"}

(* Division rounds towards zero. *)
Abs(n) == IF n < 0 THEN -n ELSE n
Quotient(a, b) == IF (a < 0) = (b < 0) THEN Abs(a) \div Abs(b) ELSE -(Abs(a) \div Abs(b))
Remainder(a, b) == a - b * Quotient(a, b)

Bit(op, a, b) == CASE op = "BIT_AND" -> a & b [] op = "BIT_OR" -> a | b [] OTHER -> a ^^ b

---------------------------------------------------------------------------
(* ir.c: constants are folded on 64-bit numbers, DIV without sign and MOD  *)
(* with one.                                                               *)
constant_fold_binary_op(op, a, b) ==
  CASE op = "ADD" -> U64(a + b)         [] op = "SUB" -> U64(a - b)
    [] op = "MUL" -> U64(a * b)         [] op = "DIV" -> a \div b
    [] op = "SHL" -> U64(a * 2 ^ b)     [] op = "SHR" -> a \div 2 ^ b
    [] op = "MOD" -> U64(Remainder(Signed(a, 64), Signed(b, 64)))
    [] OTHER -> Bit(op, a, b)

constant_fold_unary_op(op, a) == IF op = "BIT_NOT" THEN U64(-1 - a) ELSE U64(-a)

AppendInstr(is, op, type, x, y, u) ==
  LET js == Append(is, Instr(op, type, x, y, "EQ", u)) IN Built(js, InstrValue(js))

build_binary_instr(is, op, x, y) ==
  IF x.t = "const" /\ y.t = "const"
    THEN Built(is, ConstInt(x.type, constant_fold_binary_op(op, x.u, y.u)))
    ELSE AppendInstr(is, op, x.type, x, y, 0)

build_unary_instr(is, op, x) ==
  IF x.t = "const" THEN Built(is, ConstInt(x.type, constant_fold_unary_op(op, x.u)))
  ELSE AppendInstr(is, op, x.type, x, Nothing, 0)

(* The field number, and the offset it stands for, are 32 bits wide. *)
build_field(is, p, number, size) ==
  AppendInstr(is, "FIELD", IrType(Pointer), p, Nothing, Low(size * Low(number, 32), 32))

---------------------------------------------------------------------------
(* expr.c *)
Gives(built, ctype) ==
  [outcome |-> IF built.outcome = "expr" THEN "value" ELSE built.outcome,
   instrs |-> built.instrs, term |-> Term(ctype, built.value)]

Refuses(how) == Gives(GaveUp(how), IntType)

OnConverted(conv, op, floatOp) ==
  Gives(build_binary_instr(conv.instrs, IF conv.left.ctype.t = "float" THEN floatOp ELSE op,
                           conv.left.value, conv.right.value), conv.left.ctype)

Arithmetical(is, left, right, op, floatOp) ==
  OnConverted(do_arithmetic_conversions(is, left, right), op, floatOp)

(* The index is widened and scaled, the address computed as an integer.    *)
\* Mutant: the index is scaled before it is widened.
Displaced_ScalesFirst(is, op, p, index, pointee) ==
  LET scaled == build_binary_instr(is, "MUL", index, ConstInt(index.type, Size(pointee)))
      wide == BuildTypeInstr(scaled.instrs, "ZEXT", scaled.value, Int64)
      asInt == BuildTypeInstr(wide.instrs, "CAST", p, Int64)
      sum == build_binary_instr(asInt.instrs, op, asInt.value, wide.value)
      asPtr == BuildTypeInstr(sum.instrs, "CAST", sum.value, IrType(Pointer))
  IN Gives(Built(asPtr.instrs, asPtr.value), Pointer)

Displaced(is, op, p, index, pointee) ==
  LET wide == BuildTypeInstr(is, "ZEXT", index, Int64)
      asInt == BuildTypeInstr(wide.instrs, "CAST", p, Int64)
      scaled == build_binary_instr(asInt.instrs, "MUL", wide.value, ConstInt(Int64, Size(pointee)))
      sum == build_binary_instr(scaled.instrs, op, asInt.value, scaled.value)
      asPtr == BuildTypeInstr(sum.instrs, "CAST", sum.value, IrType(Pointer))
  IN Gives(Built(asPtr.instrs, asPtr.value), Pointer)

ir_gen_add(is, left, right, pointee) ==
  LET pointers == {o \in {left, right} : o.ctype.t = "ptr"}
      p == IF left.ctype.t = "ptr" THEN left ELSE right
      other == IF left.ctype.t = "ptr" THEN right ELSE left
  IN CASE pointers = {} -> Arithmetical(is, left, right, "ADD", "ADDF")
       [] pointers = {left, right} -> Refuses("unreachable")
       [] OTHER ->
            IF other.ctype.t # "int" THEN Refuses("error")
            ELSE IF other.value.t = "const"
              THEN Gives(build_field(is, p.value, other.value.u * pointee.length, pointee.size), Pointer)
            ELSE Displaced(is, "ADD", p.value, other.value, pointee)

Difference(is, left, right, pointee) ==
  LET l == BuildTypeInstr(is, "CAST", left.value, Int64)
      r == BuildTypeInstr(l.instrs, "CAST", right.value, Int64)
      diff == build_binary_instr(r.instrs, "SUB", l.value, r.value)
      cast == BuildTypeInstr(diff.instrs, "CAST", diff.value, BoolIr)
  IN Gives(build_binary_instr(cast.instrs, "DIV", cast.value, ConstInt(BoolIr, Size(pointee))),
           IntType)

ir_gen_sub(is, left, right, pointee) ==
  CASE left.ctype.t = "int" /\ right.ctype.t = "int" -> Arithmetical(is, left, right, "SUB", "SUB")
    [] left.ctype.t = "ptr" /\ right.ctype.t = "ptr" -> Difference(is, left, right, pointee)
    [] left.ctype.t = "ptr" /\ right.ctype.t = "int" ->
         Displaced(is, "SUB", left.value, right.value, pointee)
    [] OTHER -> Refuses("unimplemented")

ir_gen_binary_operator(is, left, right, op, pointee) ==
  CASE op = "ADD" -> ir_gen_add(is, left, right, pointee)
    [] op = "SUB" -> ir_gen_sub(is, left, right, pointee)
    [] OTHER -> Arithmetical(is, left, right, op, op)

(* x op= right: what is stored, and with it the value of the expression.   *)
AsStored(gen, ctype) ==
  LET conv == convert_type(gen.instrs, gen.term, ctype)
  IN IF gen.outcome # "value" THEN gen
     ELSE [gen EXCEPT !.instrs = conv.instrs, !.term = conv.term]

ir_gen_assign_op(is, left, right, op, pointee) ==
  AsStored(ir_gen_binary_operator(is, left, right, op, pointee), left.ctype)

---------------------------------------------------------------------------
(* asm_gen.c and x64.enc: which instructions there are. *)
RegisterRows == [ADD |-> {8, 32, 64}, SUB |-> {32, 64}, BIT_AND |-> {32, 64},
                 BIT_OR |-> {32, 64}, BIT_XOR |-> {8, 32, 64}]

ImmediateRows(op, w) ==
  CASE w \notin {32, 64} \/ op = "BIT_XOR" -> {}
    [] op = "BIT_OR" -> {8}
    [] op = "ADD" /\ w = 32 -> {32}
    [] OTHER -> {8, 32}

(* is_const_and_fits, for an immediate of imm bits that is extended to w.  *)
Fits(c, w, imm, sext) ==
  /\ w = 64 \/ FitsImm(c, w)
  /\ Low(c, w) = IF sext THEN Low(Signed(c, imm), w) ELSE Low(c, imm)

MovEncodes(v, w) == v.t = "const" => w = 64 \/ Fits(v.u, w, w, TRUE)

(* maybe_move_const_to_reg: otherwise the constant is in a register. *)
KeptAsConst(c, sext) == IF sext THEN U64(Signed(c, 32)) = c ELSE c < Mod(32)

asm_gen_binary_instr(in) ==
  LET w == in.type.width
      sext == in.op # "BIT_XOR"
  IN /\ MovEncodes(in.x, w)
     /\ IF in.y.t = "const" /\ KeptAsConst(in.y.u, sext)
          THEN \E imm \in ImmediateRows(in.op, w) : Fits(in.y.u, w, imm, sext)
          ELSE w \in RegisterRows[in.op]

(* A shift by a constant has room for every amount less than the width.    *)
Selects(in) ==
  LET w == in.type.width
  IN CASE in.op \in {"LOAD", "CAST", "ADDF"} -> TRUE
       [] in.op = "FIELD" -> Fits(in.u, 64, 32, TRUE)
       [] in.op \in DOMAIN RegisterRows -> asm_gen_binary_instr(in)
       [] in.op \in {"BIT_NOT", "NEG"} -> w \in {32, 64}
       [] in.op = "MUL" ->
            w \in {32, 64} /\ \A v \in {in.x, in.y} : v.t = "const" => Fits(v.u, w, 32, TRUE)
       [] in.op \in {"DIV", "MOD"} ->
            w \in {32, 64} /\ MovEncodes(in.x, w) /\ MovEncodes(in.y, w)
       [] in.op \in {"SHL", "SHR"} -> w \in {32, 64} /\ MovEncodes(in.x, w)
       [] OTHER -> ConversionEncodes(in.op, in.x.type.width, w)

(* PRECONDITION(instr->type.t == IR_INT) *)
OfIntegers(in) ==
  in.op \in BinaryOps \cup {"BIT_NOT", "NEG"} => in.type.t = "int"

---------------------------------------------------------------------------
(* The processor.  IDIV faults where its quotient does not fit; shifts     *)
(* take their amount modulo the width.                                     *)
IdivFaults(a, b, w) ==
  Low(b, w) = 0 \/ Quotient(Signed(a, w), Signed(b, w)) = Mod(w) \div 2

Alu(op, a, b, w) ==
  CASE op = "ADD" -> Low(a + b, w)      [] op = "SUB" -> Low(a - b, w)
    [] op = "MUL" -> Low(a * b, w)
    [] op = "DIV" -> Low(Quotient(Signed(a, w), Signed(b, w)), w)
    [] op = "MOD" -> Low(Remainder(Signed(a, w), Signed(b, w)), w)
    [] op = "SHL" -> Low(a * 2 ^ (b % Bits[w]), w)
    [] op = "SHR" -> Low(a, w) \div 2 ^ (b % Bits[w])
    [] OTHER -> Bit(op, Low(a, w), Low(b, w))

Fault == -1000

(* What the register of each instruction holds; a fault stays one. *)
Execute(is, stale) ==
  LET reg[i \in 1..Len(is)] ==
        LET in == is[i]
            at(v) == IF v.t = "instr" THEN reg[v.u] ELSE v.u
            x == at(in.x)
            y == at(in.y)
            w == in.type.width
            from == in.x.type.width
        IN CASE in.op = "LOAD" -> in.u
             [] Fault \in {x, y} -> Fault
             [] in.op = "SEXT" -> Low(Signed(x, from), w)
             [] in.op \in {"ZEXT", "EXTF"} -> x
             [] in.op \in {"TRUNC", "CAST"} -> Low(x, w)
             [] in.op = "SINT_TO_FLOAT" -> Signed(x, from)
             [] in.op = "UINT_TO_FLOAT" -> UintToFloat(x, from, w, stale)
             [] in.op = "FIELD" -> Low(x + in.u, 64)
             [] in.op = "ADDF" -> x + y
             [] in.op = "BIT_NOT" -> Low(-1 - x, w)
             [] in.op = "NEG" -> Low(-x, w)
             [] in.op \in {"DIV", "MOD"} /\ IdivFaults(x, y, w) -> Fault
             [] OTHER -> Alu(in.op, x, y, w)
  IN reg

ValueOf(is, v, stale) == IF v.t = "instr" THEN Execute(is, stale)[v.u] ELSE v.u

(* asm_gen_pointer_instr: the offset becomes a displacement, which the     *)
(* processor sign-extends.                                                 *)
AccessAt(is, v) ==
  IF v.t = "instr" /\ is[v.u].op = "FIELD"
    THEN U64(ValueOf(is, is[v.u].x, 0) + Signed(is[v.u].u, 32))
    ELSE ValueOf(is, v, 0)

---------------------------------------------------------------------------
(* What C says (6.5.3.3, 6.5.5 to 6.5.12, 6.5.16): the reference. *)
Representable(n, t) ==
  LET m == Mod(IntWidth(t.rank))
  IN t.t = "int" => IF t.signed THEN 2 * n >= -m /\ 2 * n < m ELSE 0 <= n /\ n < m

CWraps(n, t) == IF t.t = "int" /\ ~t.signed THEN Low(n, IntWidth(t.rank)) ELSE n
CStored(n, t) ==
  IF t.t # "int" THEN n
  ELSE IF t.signed THEN Signed(n, IntWidth(t.rank)) ELSE Low(n, IntWidth(t.rank))

CResultType(op, a, b) == IF op \in {"SHL", "SHR"} THEN Promoted(a) ELSE CCommon(a, b)

CExact(op, n, m) ==
  CASE op = "ADD" -> n + m             [] op = "SUB" -> n - m
    [] op = "MUL" -> n * m             [] op = "DIV" -> Quotient(n, m)
    [] op = "MOD" -> Remainder(n, m)   [] op = "SHL" -> n * 2 ^ m
    [] op = "SHR" -> n \div 2 ^ m
    [] OTHER -> LET b == Bit(op, U64(n), U64(m))
                IN IF n < 0 \/ m < 0 THEN Signed(b, 64) ELSE b

(* The operands after the conversions of C. *)
CLeft(op, a, n, b) == CConvert(n, CResultType(op, a, b))
CRight(op, a, b, m) == CConvert(m, IF op \in {"SHL", "SHR"} THEN Promoted(b) ELSE CCommon(a, b))

CDefined(op, a, n, b, m) ==
  LET t == CResultType(op, a, b)
      x == CLeft(op, a, n, b)
      y == CRight(op, a, b, m)
  IN /\ t.t = "float" => op \in {"ADD", "SUB", "MUL", "DIV"}
     /\ op \in {"DIV", "MOD"} => y # 0
     /\ op \in {"SHL", "SHR"} => y \in 0..(Bits[IntWidth(t.rank)] - 1)
     /\ op = "SHL" => x >= 0
     /\ t.signed => Representable(CExact(IF op = "MOD" THEN "DIV" ELSE op, x, y), t)

CArithmetic(op, a, n, b, m) ==
  CWraps(CExact(op, CLeft(op, a, n, b), CRight(op, a, b, m)), CResultType(op, a, b))

(* Pointers: the sum or difference stays in memory, and two pointers are a *)
(* whole number of elements apart.                                         *)
CPointer(op, p, n, size) == IF op = "ADD" THEN p + n * size ELSE p - n * size

PointerDefined(op, size) ==
  LET v(i) == CValue(pair[i])
      isPtr(i) == pair[i].ctype.t = "ptr"
      valid(p, n) == CPointer(op, p, n, size) \in 1..(Mod(64) - 1)
  IN CASE \E i \in {1, 2} : isPtr(i) /\ v(i) = 0 -> FALSE
       [] isPtr(1) /\ isPtr(2) ->
            op = "SUB" /\ (v(1) - v(2)) % size = 0 /\ Representable(v(1) - v(2), Integer(LONG, TRUE))
       [] isPtr(1) /\ ~isPtr(2) -> op \in {"ADD", "SUB"} /\ valid(v(1), v(2))
       [] OTHER -> op = "ADD" /\ valid(v(2), v(1))

Defined(op, pointee) ==
  IF ArithmeticTypes
    THEN CDefined(op, pair[1].ctype, CValue(pair[1]), pair[2].ctype, CValue(pair[2]))
    ELSE /\ \A i \in {1, 2} : pair[i].ctype.t # "float" /\ pair[i].kind # "global"
         /\ PointerDefined(op, Size(pointee))

Meaning(op, pointee) ==
  LET v(i) == CValue(pair[i])
      isPtr(i) == pair[i].ctype.t = "ptr"
  IN CASE ArithmeticTypes -> CArithmetic(op, pair[1].ctype, v(1), pair[2].ctype, v(2))
       [] isPtr(1) /\ isPtr(2) -> Quotient(v(1) - v(2), Size(pointee))
       [] isPtr(1) /\ ~isPtr(2) -> CPointer(op, v(1), v(2), Size(pointee))
       [] OTHER -> CPointer(op, v(2), v(1), Size(pointee))

---------------------------------------------------------------------------
Pointed == IF ArithmeticTypes THEN {CHOOSE p \in Pointees : TRUE} ELSE Pointees

Emits(op, gen, m) ==
  /\ oper' = op
  /\ stage' = gen.outcome
  /\ instrs' = gen.instrs
  /\ expr' = gen.term
  /\ meaning' = m
  /\ UNCHANGED <<pair, outer, result>>

(* ir_gen_binary_expr *)
GenBinary(op, pointee) ==
  /\ stage = "operands" /\ Computed(pair) /\ Defined(op, pointee)
  /\ LET l == Load(<<>>, pair[1])
         r == Load(l, pair[2])
     IN Emits(op, ir_gen_binary_operator(r, OperandTerm(l, pair[1]), OperandTerm(r, pair[2]), op, pointee),
              Meaning(op, pointee))

(* BIT_NOT_EXPR, whose type is int, and UNARY_MINUS_EXPR *)
GenUnary(op) ==
  LET t == pair[1].ctype
      n == CConvert(CValue(pair[1]), Promoted(t))
      exact == IF op = "NEG" THEN -n ELSE -1 - n
      is == Load(<<>>, pair[1])
  IN /\ stage = "operands" /\ Computed(pair)
     /\ t.t = "int" \/ (t.t = "float" /\ op = "NEG" /\ pair[1].u # NaN)
     /\ Promoted(t).signed => Representable(exact, Promoted(t))
     /\ Emits(op, Gives(build_unary_instr(is, op, OperandTerm(is, pair[1]).value),
                    IF op = "BIT_NOT" THEN IntType ELSE t),
              CWraps(exact, Promoted(t)))

(* ir_gen_assign_expr *)
AssignOps == BinaryOps \ {"MOD"}

GenAssignOp(op, pointee) ==
  LET r == Load(<<>>, pair[2])
      l == Load(r, pair[1])
  IN /\ stage = "operands" /\ Computed(pair) /\ Defined(op, pointee)
     /\ pair[1].kind = "var" /\ pair[2].ctype.t # "ptr"
     /\ pair[2].ctype.t = "float" => pair[1].ctype.t = "float"
     /\ Emits(op, ir_gen_assign_op(l, OperandTerm(l, pair[1]), OperandTerm(r, pair[2]), op, pointee),
              CStored(Meaning(op, pointee), pair[1].ctype))

(* ir_gen_inc_dec: what is stored, or the value from before.  The operand  *)
(* is the first one of a pair whose second is the literal 1.               *)
One == Operand("const", IntType, 1)

OrBefore(gen, post, before) ==
  IF post /\ gen.outcome = "value" THEN [gen EXCEPT !.term = before] ELSE gen

GenIncDec(op, pointee, post) ==
  LET l == Load(<<>>, pair[1])
      left == OperandTerm(l, pair[1])
  IN /\ stage = "operands" /\ Computed(pair) /\ Defined(op, pointee)
     /\ pair[1].kind = "var" /\ pair[2] = One
     /\ Emits(op, OrBefore(ir_gen_assign_op(l, left, OperandTerm(l, One), op, pointee), post, left),
              IF post THEN CValue(pair[1]) ELSE CStored(Meaning(op, pointee), pair[1].ctype))

(* INDEX_EXPR *)
Accesses(gen) ==
  LET needed == {i \in 1..Len(gen.instrs) : gen.instrs[i].op # "FIELD"}
  IN /\ instrs' = gen.instrs /\ expr' = gen.term
     /\ IF \E i \in needed : ~Selects(gen.instrs[i])
          THEN stage' = "unimplemented" /\ result' = NoResult
          ELSE stage' = "accessed" /\ result' = AccessAt(gen.instrs, gen.term.value)

GenIndex(pointee) ==
  /\ stage = "operands" /\ Computed(pair)
  /\ ~ArithmeticTypes /\ Defined("ADD", pointee)
  /\ LET l == Load(<<>>, pair[1])
         r == Load(l, pair[2])
     IN Accesses(ir_gen_add(r, OperandTerm(l, pair[1]), OperandTerm(r, pair[2]), pointee))
  /\ meaning' = Meaning("ADD", pointee)
  /\ oper' = "ADD"
  /\ UNCHANGED <<pair, outer>>

(* ASSIGN_EXPR: the value is converted and stored with the size of its IR  *)
(* type, and the code for all instructions is generated, assembled and run.*)
GenStore(t) ==
  /\ stage = "value"
  /\ (expr.ctype.t = "int") = (t.t = "int") /\ (expr.ctype.t = "ptr") = (t.t = "ptr")
  /\ LET conv == convert_type(instrs, expr, t)
         v == conv.term.value
         all == {conv.instrs[i] : i \in 1..Len(conv.instrs)}
     IN /\ instrs' = conv.instrs /\ expr' = conv.term
        /\ CASE \E in \in all : ~OfIntegers(in) -> stage' = "assertion" /\ result' = NoResult
             [] (\A in \in all : OfIntegers(in)) /\ (\E in \in all : ~Selects(in)) ->
                  stage' = "unimplemented" /\ result' = NoResult
             [] OTHER ->
                  \E stale \in {0, 1} :
                    /\ result' = LET n == ValueOf(conv.instrs, v, stale)
                                 IN IF n = Fault THEN n ELSE CStored(n, t)
                    /\ stage' = CASE result' = Fault -> "fault"
                                  [] result' # Fault /\ v.type # IrType(t) -> "overrun"
                                  [] OTHER -> "stored"
  /\ meaning' = CStored(meaning, t)
  /\ UNCHANGED <<pair, outer, oper>>

InitArithmetic == Init /\ oper = "none"

(* Comparisons, which are also where every other computation ends. *)
Compares == Next /\ UNCHANGED oper

NextArithmetic ==
  \/ Compares
  \/ \E op \in BinaryOps, p \in Pointed : GenBinary(op, p)
  \/ \E op \in {"BIT_NOT", "NEG"} : GenUnary(op)
  \/ \E op \in AssignOps, p \in Pointed : GenAssignOp(op, p)
  \/ \E op \in {"ADD", "SUB"}, p \in Pointed, post \in BOOLEAN : GenIncDec(op, p, post)
  \/ \E p \in Pointed : GenIndex(p)
  \/ \E t \in StoredTypes : GenStore(t)

SpecArithmetic == InitArithmetic /\ [][NextArithmetic]_arithmeticVars
---------------------------------------------------------------------------
(* Where the code is known to differ from C.                               *)
Unary == oper \in {"BIT_NOT", "NEG"}
LeftType == pair[1].ctype
RightType == pair[2].ctype
Values == IF Unary THEN {pair[1]} ELSE {pair[1], pair[2]}
Exact == CExact(oper, CLeft(oper, LeftType, CValue(pair[1]), RightType),
                CRight(oper, LeftType, RightType, CValue(pair[2])))
UnaryExact == LET n == CConvert(CValue(pair[1]), Promoted(LeftType))
              IN IF oper = "NEG" THEN -n ELSE -1 - n
Folded == \A o \in Values : o.kind = "const" /\ o.ctype.t = "int"

(* Operands smaller than int are not promoted: char + char wraps. *)
NotPromoted ==
  /\ ~Unary /\ \A o \in Values : o.ctype.t = "int" /\ o.ctype.rank < INT
  /\ ~Representable(Exact, CommonType(LeftType, RightType))

(* IDIV is used for unsigned numbers, too; constants are divided without   *)
(* sign, and their remainder is taken with one.                            *)
DivisionSign ==
  /\ oper \in {"DIV", "MOD"} /\ ArithmeticTypes
  /\ LET t == CCommon(LeftType, RightType)
         high(o, w) == 2 * Low(CConvert(CValue(o), t), w) >= Mod(w)
         width == IF Folded THEN 64 ELSE IntWidth(t.rank)
     IN /\ IF Folded /\ oper = "DIV" THEN t.signed ELSE ~t.signed
        /\ \E o \in Values : high(o, width)

(* "@TODO: Emit arithmetic shifts for signed LHS." *)
NegativeShifted == oper = "SHR" /\ CValue(pair[1]) < 0

(* The left operand of a shift is converted to the type of the right one.  *)
ShiftWidens == oper = "SHL" /\ ~Representable(Exact, Promoted(LeftType)) /\ CommonType(LeftType, RightType) # LeftType

(* "@TODO: Determine type correctly.": ~ gives an int, whatever it is      *)
(* applied to; an int of 64 bits overruns the variable it is stored to.    *)
NotIsInt == oper = "BIT_NOT" /\ Promoted(LeftType) # IntType

(* The 64 bits of a constant are never cut to the width of its type. *)
FoldKeepsBits ==
  \/ /\ Folded /\ Unary /\ ~Representable(UnaryExact, Promoted(LeftType))
  \/ /\ Folded /\ ~Unary /\ ~Representable(Exact, CResultType(oper, LeftType, RightType))
  \/ ~ArithmeticTypes /\ \E o \in Values : o.kind = "const" /\ o.u # U64(CValue(o))

(* An index is widened without its sign, and a constant one is multiplied  *)
(* with 32 bits; a difference is cut to 32 bits.                           *)
FarPointer ==
  /\ ~ArithmeticTypes
  /\ \/ \E o \in Values : o.kind = "var" /\ o.ctype.t = "int" /\ CValue(o) < 0
     \/ \E i \in {1, 2}, p \in Pointees :
          pair[i].kind = "const" /\ ~Representable(Size(p) * CValue(pair[i]), IntType)
     \/ /\ \A o \in Values : o.ctype.t = "ptr"
        /\ ~Representable(CValue(pair[1]) - CValue(pair[2]), IntType)

Differs ==
  \/ NotPromoted \/ DivisionSign \/ NegativeShifted \/ ShiftWidens \/ NotIsInt
  \/ FoldKeepsBits \/ FarPointer
  \/ ~Unary /\ (ConstantChanges \/ NarrowToFloat \/ WideToFloat)

Computes == stage \in {"stored", "accessed", "fault", "overrun"}

(* There is code for every operator on variables of type int and longer.   *)
Accepted ==
  (oper # "none" /\ ~Unary /\ \A o \in Values : o.kind = "var" /\ o.ctype.t = "int" /\ o.ctype.rank >= INT)
    => stage \in {"value", "stored"} \/ DivisionSign

(* Whatever the operator, the types and which operands are constants, the  *)
(* number that is stored, and the address that is accessed, are those C    *)
(* asks for, for every expression C defines; also after compound           *)
(* assignments, ++ and --, and a store to a narrower or wider variable.    *)
(* The cases above are those that differ, among them the conversion of a   *)
(* small unsigned number to a floating one and of a long one to float.     *)
ArithmeticRight ==
  /\ Accepted
  /\ Computes => Differs \/ (stage \in {"stored", "accessed"} /\ result = meaning)
=============================================================================
