---------------------------- MODULE Comparisons ----------------------------
(***************************************************************************)
(* A C comparison on its way from the operands' types to the condition the *)
(* processor tests: the usual arithmetic conversions (ir_gen/convert.c),   *)
(* ir_gen_cmp and the folding of constants (ir_gen/expr.c, ir.c), and the  *)
(* selection of CMP, UCOMIS, Jcc and SETcc, which looks through            *)
(* comparisons of comparisons with 0 and 1 (backend/asm_gen.c).            *)
(*                                                                         *)
(* An expression is one comparison of two operands, compared further with  *)
(* the literals 0, 1 and 2.  It ends as the condition of a branch or as a  *)
(* value.  Integers have Bits[w] bits where the program has w.             *)
(***************************************************************************)
EXTENDS COperands, Sequences, TLC

CONSTANTS
  Pairs,      \* the pairs of operands that are compared
  Nested(_),  \* which of them are compared further (a bound)
  MaxOuter    \* how many comparisons are put around one (a bound)

VARIABLES
  pair,       \* the two operands
  stage,      \* "operands", "expr", "done" (Arithmetic has more), or how the compiler gave up
  instrs,     \* the instructions of the current IrBlock
  expr,       \* the Term of the expression so far
  meaning,    \* the value C gives it
  outer,      \* the number of comparisons around the first one
  result      \* what the generated code makes of it: 0, 1 or NoResult

vars == <<pair, stage, instrs, expr, meaning, outer, result>>

NoResult == -1
Cmps == {"EQ", "NEQ", "SGT", "SGTE", "SLT", "SLTE", "UGT", "UGTE", "ULT", "ULTE"}

---------------------------------------------------------------------------
(* IrValue: u is the constant, the number of the instruction or the        *)
(* address of the global.                                                  *)
IrValue(t, type, u) == [t |-> t, type |-> type, u |-> u]
ConstInt(type, u) == IrValue("const", type, u)
ConstFloat(type, u) == IrValue("constf", type, u)

Term(ctype, val) == [ctype |-> ctype, value |-> val]

(* An instruction that computes something from x and y; op is CMP or CMPF  *)
(* with a comparison, a conversion of x, or LOAD, whose u is what memory   *)
(* holds.                                                                  *)
Instr(op, type, x, y, cmp, u) ==
  [op |-> op, type |-> type, x |-> x, y |-> y, cmp |-> cmp, u |-> u]

Nothing == ConstInt(BoolIr, 0)
InstrValue(is) == IrValue("instr", is[Len(is)].type, Len(is))

BuildTypeInstr(is, op, val, type) ==
  IF val.type = type THEN [instrs |-> is, value |-> val]
  ELSE IF val.t = "const"
    THEN [instrs |-> is,
          value |-> IF type.t = "float" THEN ConstFloat(type, val.u)
                    ELSE ConstInt(type, val.u)]
  ELSE LET js == Append(is, Instr(op, type, val, Nothing, "EQ", 0))
       IN [instrs |-> js, value |-> InstrValue(js)]

---------------------------------------------------------------------------
(* convert.c *)
ConversionOp(from, to) ==
  CASE from.t = "int" /\ to.t = "int" /\ IrType(from).width > IrType(to).width -> "TRUNC"
    [] from.t = "int" /\ to.t \in {"int", "ptr"} ->
         IF from.signed /\ to.t = "int" THEN "SEXT" ELSE "ZEXT"
    [] from.t = "float" /\ to.t = "float" ->
         IF IrType(from).width > IrType(to).width THEN "TRUNCF" ELSE "EXTF"
    [] from.t = "int" /\ to.t = "float" ->
         IF from.signed THEN "SINT_TO_FLOAT" ELSE "UINT_TO_FLOAT"
    [] OTHER -> "CAST"

convert_type(is, term, target) ==
  IF term.ctype = target THEN [instrs |-> is, term |-> term]
  ELSE LET b == BuildTypeInstr(is, ConversionOp(term.ctype, target), term.value, IrType(target))
       IN [instrs |-> b.instrs, term |-> Term(target, b.value)]

(* The type both operands are converted to; at most one of them changes.   *)
Priority(t, anyFloat) == IF anyFloat /\ t.t # "float" THEN -1 ELSE t.rank

CommonType(l, r) ==
  LET anyFloat == "float" \in {l.t, r.t}
      s == IF l.signed THEN l ELSE r
      u == IF l.signed THEN r ELSE l
  IN IF anyFloat \/ l.signed = r.signed
       THEN IF Priority(l, anyFloat) < Priority(r, anyFloat) THEN r ELSE l
       ELSE IF u.rank >= s.rank THEN u ELSE s

do_arithmetic_conversions(is, left, right) ==
  LET common == CommonType(left.ctype, right.ctype)
      l == convert_type(is, left, common)
      r == convert_type(l.instrs, right, common)
  IN [instrs |-> r.instrs, left |-> l.term, right |-> r.term]

---------------------------------------------------------------------------
(* ir.c: comparisons of constants are folded on 64-bit numbers. *)
Compare(cmp, a, b) ==
  CASE cmp = "EQ" -> a = b                [] cmp = "NEQ" -> a # b
    [] cmp \in {"SGT", "UGT"} -> a > b    [] cmp \in {"SGTE", "UGTE"} -> a >= b
    [] cmp \in {"SLT", "ULT"} -> a < b    [] cmp \in {"SLTE", "ULTE"} -> a <= b

SignedCmps == {"SGT", "SGTE", "SLT", "SLTE"}
UnsignedCmps == {"UGT", "UGTE", "ULT", "ULTE"}

Truth(b) == IF b THEN 1 ELSE 0

constant_fold_cmp(cmp, a, b) ==
  Truth(IF cmp \in SignedCmps THEN Compare(cmp, Signed(a, 64), Signed(b, 64))
        ELSE Compare(cmp, a, b))

Unordered(a, b) == NaN \in {a, b}

(* IEEE comparison: with a NaN only # holds. *)
CompareFloats(cmp, a, b) ==
  IF Unordered(a, b) THEN cmp = "NEQ" ELSE Compare(cmp, a, b)

constant_fold_cmpf(cmp, a, b) == Truth(CompareFloats(cmp, a, b))

Built(is, val) == [outcome |-> "expr", instrs |-> is, value |-> val]
GaveUp(how) == [outcome |-> how, instrs |-> <<>>, value |-> Nothing]

build_cmp(is, cmp, x, y) ==
  IF x.t = "const" /\ y.t = "const"
    THEN Built(is, ConstInt(BoolIr, constant_fold_cmp(cmp, x.u, y.u)))
    ELSE LET js == Append(is, Instr("CMP", BoolIr, x, y, cmp, 0)) IN Built(js, InstrValue(js))

build_cmpf(is, cmp, x, y) ==
  CASE x.t = "constf" /\ y.t = "constf" /\ cmp \in UnsignedCmps -> GaveUp("unreachable")
    [] x.t = "constf" /\ y.t = "constf" /\ cmp \notin UnsignedCmps ->
         Built(is, ConstInt(BoolIr, constant_fold_cmpf(cmp, x.u, y.u)))
    [] OTHER ->
         LET js == Append(is, Instr("CMPF", BoolIr, x, y, cmp, 0)) IN Built(js, InstrValue(js))

---------------------------------------------------------------------------
(* expr.c *)
signed_cmp_to_unsigned_cmp(cmp) ==
  CASE cmp = "SGT" -> "UGT" [] cmp = "SGTE" -> "UGTE"
    [] cmp = "SLT" -> "ULT" [] cmp = "SLTE" -> "ULTE" [] OTHER -> cmp

FoldGlobals(is, cmp) == Built(is, ConstInt(BoolIr, Truth(cmp = "NEQ")))

PointerToOther(is, left, right, cmp) ==
  LET leftIsPtr == left.ctype.t = "ptr"
      p == IF leftIsPtr THEN left ELSE right
      other == IF leftIsPtr THEN right ELSE left
      c == convert_type(is, other, p.ctype)
  IN IF other.ctype.t # "int" \/ other.value.t # "const" \/ other.value.u # 0
       THEN GaveUp("error")
     ELSE IF p.value.t = "global" THEN FoldGlobals(is, cmp)
     ELSE IF leftIsPtr THEN build_cmp(c.instrs, cmp, left.value, c.term.value)
     ELSE build_cmp(c.instrs, cmp, c.term.value, right.value)

CompareConverted(conv, cmp) ==
  LET x == conv.left.value
      y == conv.right.value
      type == conv.left.ctype
  IN IF type.t = "float"
       THEN build_cmpf(conv.instrs, signed_cmp_to_unsigned_cmp(cmp), x, y)
     ELSE build_cmp(conv.instrs, IF type.signed THEN cmp ELSE signed_cmp_to_unsigned_cmp(cmp), x, y)

ir_gen_cmp(is, left, right, cmp) ==
  LET pointers == {o \in {left, right} : o.ctype.t = "ptr"}
  IN IF pointers = {left, right}
       THEN IF left.value.t = "global" /\ right.value.t = "global" THEN FoldGlobals(is, cmp)
            ELSE build_cmp(is, cmp, left.value, right.value)
     ELSE IF pointers # {} THEN PointerToOther(is, left, right, cmp)
     ELSE CompareConverted(do_arithmetic_conversions(is, left, right), cmp)

---------------------------------------------------------------------------
(* asm_gen.c: which condition is tested, and on which operands. *)
flip == [cmp \in Cmps |->
  CASE cmp = "SGT" -> "SLT"   [] cmp = "SLT" -> "SGT"
    [] cmp = "SGTE" -> "SLTE" [] cmp = "SLTE" -> "SGTE"
    [] cmp = "UGT" -> "ULT"   [] cmp = "ULT" -> "UGT"
    [] cmp = "UGTE" -> "ULTE" [] cmp = "ULTE" -> "UGTE"
    [] OTHER -> cmp]

\* Mutant: the operands are exchanged where the condition should be negated.
invert_cmp_Flips == [flip EXCEPT !["EQ"] = "NEQ", !["NEQ"] = "EQ"]

invert_cmp == [cmp \in Cmps |->
  CASE cmp = "EQ" -> "NEQ"   [] cmp = "NEQ" -> "EQ"
    [] cmp = "SGT" -> "SLTE" [] cmp = "SGTE" -> "SLT"
    [] cmp = "SLT" -> "SGTE" [] cmp = "SLTE" -> "SGT"
    [] cmp = "UGT" -> "ULTE" [] cmp = "UGTE" -> "ULT"
    [] cmp = "ULT" -> "UGTE" [] cmp = "ULTE" -> "UGT"]

(* Comparing with 0 or 1 can be seen through: c is the constant, and the   *)
(* comparison either says the same as the inner one or the opposite.       *)
Opposite(cmp, c) == (cmp = "EQ") = (c = 0)

HasInner(is, in) ==
  /\ in.op = "CMP" /\ in.cmp \in {"EQ", "NEQ"}
  /\ \E side \in {<<in.x, in.y>>, <<in.y, in.x>>} :
       /\ side[1].t = "const" /\ side[1].u \in {0, 1}
       /\ side[2].t = "instr" /\ is[side[2].u].op = "CMP"

get_inner_cmp(is) ==
  LET inner[i \in 1..Len(is)] ==
        LET in == is[i]
            c == IF in.x.t = "const" THEN in.x.u ELSE in.y.u
            arg == IF in.x.t = "const" THEN in.y.u ELSE in.x.u
            rest == inner[arg]
        IN IF HasInner(is, in)
             THEN [out |-> rest.out,
                   invert |-> IF Opposite(in.cmp, c) THEN ~rest.invert ELSE rest.invert]
             ELSE [out |-> i, invert |-> FALSE]
  IN inner

maybe_flip_conditional(in) ==
  IF in.x.t # "const" THEN in
  ELSE [in EXCEPT !.cmp = flip[in.cmp], !.x = in.y, !.y = in.x]

Selected(is, i) ==
  LET inner == get_inner_cmp(is)[i]
      in == maybe_flip_conditional(is[inner.out])
  IN IF inner.invert THEN [in EXCEPT !.cmp = invert_cmp[in.cmp]] ELSE in

(* The instructions x64.enc has a row for. *)
FitsImm(c, w) == U64(Signed(c, w)) = c \/ c < Mod(w)
MovesToReg(c) == U64(Signed(c, 32)) # c
CmpEncodes(x, y) ==
  /\ x.t \notin {"global", "const"} /\ y.t # "global"
  /\ (y.t = "const" /\ ~MovesToReg(y.u)) =>
        x.type.width \in {32, 64} \/ (x.type.width = 8 /\ FitsImm(y.u, 8))

ConversionEncodes(op, from, to) ==
  CASE op = "SEXT" -> <<from, to>> \in {<<8, 16>>, <<8, 32>>, <<8, 64>>, <<32, 64>>}
    [] op = "ZEXT" -> from < to /\ <<from, to>> # <<8, 16>>
    [] op = "SINT_TO_FLOAT" -> from \in {32, 64}
    [] OTHER -> TRUE

Encodes(is, i) ==
  LET in == is[i]
  IN CASE in.op = "LOAD" -> TRUE
       [] in.op = "CMP" -> LET s == Selected(is, i) IN s.op = "CMP" => CmpEncodes(s.x, s.y)
       [] in.op = "CMPF" -> TRUE
       [] OTHER -> ConversionEncodes(in.op, in.x.type.width, in.type.width)

---------------------------------------------------------------------------
(* The processor.  CMP compares at the width of its first operand; UCOMIS  *)
(* sets the flags of an unsigned comparison, all of them if it meets a     *)
(* NaN.  LT stands for SF # OF.                                            *)
CmpFlags(a, b, w) ==
  [ZF |-> Low(a, w) = Low(b, w), CF |-> Low(a, w) < Low(b, w), LT |-> Signed(a, w) < Signed(b, w)]

UcomisFlags(a, b) ==
  [ZF |-> a = b \/ Unordered(a, b), CF |-> a < b \/ Unordered(a, b), LT |-> FALSE]

Condition(cmp, f) ==
  CASE cmp = "EQ" -> f.ZF                 [] cmp = "NEQ" -> ~f.ZF
    [] cmp = "SGT" -> ~f.ZF /\ ~f.LT      [] cmp = "SGTE" -> ~f.LT
    [] cmp = "SLT" -> f.LT                [] cmp = "SLTE" -> f.ZF \/ f.LT
    [] cmp = "UGT" -> ~f.ZF /\ ~f.CF      [] cmp = "UGTE" -> ~f.CF
    [] cmp = "ULT" -> f.CF                [] cmp = "ULTE" -> f.ZF \/ f.CF

(* OP_UINT_TO_FLOAT moves its operand to the low part of a fresh register  *)
(* and converts all of it: a move of 8 or 16 bits leaves what was above,   *)
(* which is stale.  64 bits are converted in two halves, the high one      *)
(* multiplied with 2^32; for a float, MULSS takes the low half of that     *)
(* constant, a double, which is 0, and only the low 32 bits are left.      *)
UintToFloat(n, w, to, stale) ==
  CASE w < 32 -> n + stale * Mod(w)
    [] w = 32 -> n
    [] w = 64 -> IF to = 32 THEN Low(n, 32) ELSE n

(* What the register of each instruction holds if Pick(i) is the           *)
(* comparison that is made for instruction i.                              *)
Evaluate(is, Pick(_), stale) ==
  LET reg[i \in 1..Len(is)] ==
        LET in == is[i]
            at(v) == IF v.t = "instr" THEN reg[v.u] ELSE v.u
            x == at(in.x)
            w == in.x.type.width
            s == Pick(i)
        IN CASE in.op = "LOAD" -> in.u
             [] in.op = "SEXT" -> Low(Signed(x, w), in.type.width)
             [] in.op \in {"ZEXT", "EXTF"} -> x
             [] in.op = "SINT_TO_FLOAT" -> Signed(x, w)
             [] in.op = "UINT_TO_FLOAT" -> UintToFloat(x, w, in.type.width, stale)
             [] in.op \in {"CMP", "CMPF"} ->
                  Truth(Condition(s.cmp,
                    IF s.op = "CMP" THEN CmpFlags(at(s.x), at(s.y), s.x.type.width)
                    ELSE UcomisFlags(at(s.x), at(s.y))))
  IN reg

(* Comparisons are computed where they are used, by                        *)
(* asm_gen_relational_instr.                                               *)
Registers(is, stale) == Evaluate(is, LAMBDA i : Selected(is, i), stale)

(* The instructions whose code is needed for instruction i. *)
Uses(is) ==
  LET used[i \in 1..Len(is)] ==
        LET s == IF is[i].op \in {"CMP", "CMPF"} THEN Selected(is, i) ELSE is[i]
        IN {i} \cup UNION {used[v.u] : v \in {w \in {s.x, s.y} : w.t = "instr"}}
  IN used

---------------------------------------------------------------------------
(* What C says (6.3.1.1, 6.3.1.8, 6.5.8, 6.5.9): the reference. *)
Promoted(t) == IF t.t = "int" /\ t.rank < INT THEN IntType ELSE t

CCommon(a, b) ==
  LET l == Promoted(a)
      r == Promoted(b)
      s == IF l.signed THEN l ELSE r
      u == IF l.signed THEN r ELSE l
  IN CASE "float" \in {l.t, r.t} -> DOUBLE
       [] "ptr" \in {l.t, r.t} -> Pointer
       [] l.signed = r.signed -> IF l.rank < r.rank THEN r ELSE l
       [] u.rank >= s.rank -> u
       [] IntWidth(s.rank) > IntWidth(u.rank) -> s
       [] OTHER -> Integer(s.rank, FALSE)

CConvert(n, t) == IF t.t = "int" /\ ~t.signed THEN Low(n, IntWidth(t.rank)) ELSE n

CMeaning(cmp, a, n, b, m) ==
  LET t == CCommon(a, b) IN Truth(CompareFloats(cmp, CConvert(n, t), CConvert(m, t)))

(* A pointer and an integer can only be tested for equality. *)
Comparable(cmp, a, b) == (a.t = "ptr") # (b.t = "ptr") => cmp \in {"EQ", "NEQ"}

---------------------------------------------------------------------------
OperandTerm(is, o) ==
  Term(o.ctype,
    CASE o.kind = "var" -> IrValue("instr", IrType(o.ctype), Len(is))
      [] o.kind = "global" -> IrValue("global", IrType(o.ctype), o.u)
      [] o.kind = "const" -> IrValue(IF o.ctype.t = "float" THEN "constf" ELSE "const",
                                     IrType(o.ctype), o.u))

Load(is, o) ==
  IF o.kind # "var" THEN is
  ELSE Append(is, Instr("LOAD", IrType(o.ctype), Nothing, Nothing, "EQ", o.u))

Init ==
  /\ pair \in Pairs
  /\ stage = "operands"
  /\ instrs = <<>>
  /\ expr = Term(IntType, Nothing)
  /\ meaning = 0
  /\ outer = 0
  /\ result = NoResult

(* The result of ir_gen_cmp becomes the expression. *)
Becomes(gen) ==
  /\ stage' = gen.outcome
  /\ instrs' = gen.instrs
  /\ expr' = Term(IntType, gen.value)

(* Both operands are generated and compared: ir_gen_cmp_expr. *)
GenCompare(cmp) ==
  /\ stage = "operands"
  /\ Comparable(cmp, pair[1].ctype, pair[2].ctype)
  /\ LET l == Load(<<>>, pair[1])
         r == Load(l, pair[2])
     IN Becomes(ir_gen_cmp(r, OperandTerm(l, pair[1]), OperandTerm(r, pair[2]), cmp))
  /\ meaning' = CMeaning(cmp, pair[1].ctype, CValue(pair[1]), pair[2].ctype, CValue(pair[2]))
  /\ UNCHANGED <<pair, outer, result>>

(* The first operand alone is the expression. *)
GenOperand ==
  /\ stage = "operands"
  /\ stage' = "expr"
  /\ instrs' = Load(<<>>, pair[1])
  /\ expr' = OperandTerm(instrs', pair[1])
  /\ meaning' = CValue(pair[1])
  /\ UNCHANGED <<pair, outer, result>>

(* The expression is compared with an int literal; !e is e == 0. *)
GenOuter(cmp, c, literalFirst) ==
  /\ stage = "expr" /\ outer < MaxOuter /\ Nested(pair)
  /\ Comparable(cmp, expr.ctype, IntType)
  /\ LET lit == Term(IntType, ConstInt(BoolIr, c))
     IN IF literalFirst
          THEN /\ Becomes(ir_gen_cmp(instrs, lit, expr, cmp))
               /\ meaning' = CMeaning(cmp, IntType, c, expr.ctype, meaning)
          ELSE /\ Becomes(ir_gen_cmp(instrs, expr, lit, cmp))
               /\ meaning' = CMeaning(cmp, expr.ctype, meaning, IntType, c)
  /\ outer' = outer + 1
  /\ UNCHANGED <<pair, result>>

(* The code for the instructions in use is generated, assembled and run.   *)
(* asserted are the comparisons that asm_gen_relational_instr makes.       *)
Finish(used, asserted, encodes, Run(_)) ==
  LET bad == {i \in asserted : instrs[i].op = "CMP" /\ Selected(instrs, i).x.t = "global"}
      unencodable == {i \in used : ~Encodes(instrs, i)}
  IN IF bad # {} THEN stage' = "assertion" /\ result' = NoResult
     ELSE IF unencodable # {} \/ ~encodes THEN stage' = "unimplemented" /\ result' = NoResult
     ELSE /\ stage' = "done"
          /\ \E stale \in {0, 1} : result' = Run(stale)

(* OP_COND: a constant is decided here, a comparison is selected by        *)
(* asm_gen_cond_of_cmp, everything else is compared with 0.                *)
GenCond ==
  /\ stage = "expr"
  /\ LET v == expr.value
         used == IF v.t = "instr" THEN Uses(instrs)[v.u] ELSE {}
     IN CASE v.t = "const" -> stage' = "done" /\ result' = Truth(v.u # 0)
          [] v.t = "instr" /\ instrs[v.u].op \in {"CMP", "CMPF"} ->
               Finish(used, used \ {v.u}, TRUE, LAMBDA stale : Registers(instrs, stale)[v.u])
          [] OTHER ->
               Finish(used, used, v.type.t # "float" /\ CmpEncodes(v, ConstInt(v.type, 0)),
                      LAMBDA stale : Truth(Registers(instrs, stale)[v.u] # 0))
  /\ meaning' = Truth(meaning # 0)
  /\ UNCHANGED <<pair, instrs, expr, outer>>

(* The expression's value is used: asm_value. *)
GenValue ==
  /\ stage = "expr" /\ expr.ctype = IntType
  /\ LET v == expr.value
         used == IF v.t = "instr" THEN Uses(instrs)[v.u] ELSE {}
     IN IF v.t = "const" THEN stage' = "done" /\ result' = v.u
        ELSE Finish(used, used, TRUE, LAMBDA stale : Registers(instrs, stale)[v.u])
  /\ UNCHANGED <<pair, instrs, expr, meaning, outer>>

Ended == stage \notin {"operands", "expr"} /\ UNCHANGED vars

Literals == {0, 1, 2}

Next ==
  \/ \E cmp \in Cmps \ UnsignedCmps : GenCompare(cmp)
  \/ GenOperand
  \/ \E cmp \in {"EQ", "NEQ", "SLT"}, c \in Literals, first \in BOOLEAN : GenOuter(cmp, c, first)
  \/ GenCond
  \/ GenValue
  \/ Ended

Spec == Init /\ [][Next]_vars
---------------------------------------------------------------------------
TypeOK ==
  /\ pair \in Pairs
  /\ stage \in {"operands", "expr", "done", "error", "unreachable", "assertion", "unimplemented"}
               \cup {"value", "stored", "accessed", "fault", "overrun"}    \* of Arithmetic
  /\ \A i \in 1..Len(instrs) :
       /\ instrs[i].cmp \in Cmps
       /\ \A v \in {instrs[i].x, instrs[i].y} : v.t = "instr" => v.u \in 1..(i - 1)
  /\ expr.value.t = "instr" => expr.value.u \in 1..Len(instrs)
  /\ outer \in 0..MaxOuter

Right == stage = "done" => Low(result, 32) = Low(meaning, 32)

(* What the code leaves out, so that results may differ from C's.          *)
Types == {pair[1].ctype, pair[2].ctype}

(* do_arithmetic_conversions ("Implement this fully") does not promote     *)
(* small operands to int, nor pick the unsigned type when the signed one   *)
(* is of higher rank and no wider.                                         *)
TodoConversion ==
  /\ \A t \in Types : t.t = "int"
  /\ \E s, u \in Types :
       /\ s.signed /\ ~u.signed
       /\ \/ u.rank >= s.rank /\ u.rank < INT
          \/ u.rank = LONG /\ s.rank = LONG_LONG

(* The 64-bit number of a constant is kept by every conversion: it is      *)
(* wrong if C would change it, unless a narrower CMP drops the difference. *)
ConstantChanges ==
  LET t == CCommon(pair[1].ctype, pair[2].ctype)
      consts == {o \in {pair[1], pair[2]} : o.kind = "const" /\ o.ctype.t = "int"}
      folded == \A i \in {1, 2} : pair[i].kind = "const"
      differs(o) == LET n == CConvert(CValue(o), t)
                    IN CASE t.t = "float" -> o.u # n
                         [] t.t = "int" -> IF folded THEN o.u # U64(n)
                                           ELSE Low(o.u - n, IntWidth(t.rank)) # 0
                         [] OTHER -> FALSE
  IN \E o \in consts : differs(o)

NarrowToFloat ==
  \E i \in {1, 2} : /\ pair[i].kind = "var" /\ pair[i].ctype.t = "int" /\ ~pair[i].ctype.signed
                    /\ pair[i].ctype.rank < INT /\ pair[3 - i].ctype.t = "float"

(* Only the low 32 bits of an unsigned long are converted to float. *)
WideToFloat ==
  \E i \in {1, 2} : /\ pair[i].kind = "var" /\ pair[i].ctype.t = "int" /\ ~pair[i].ctype.signed
                    /\ CValue(pair[i]) >= Mod(32) /\ pair[3 - i].ctype = FLOAT

HasNaN == \E i \in {1, 2} : pair[i].ctype.t = "float" /\ pair[i].u = NaN

BothGlobals == \A i \in {1, 2} : pair[i].kind = "global"

(* Whatever chain of comparisons is built, instructions only use earlier   *)
(* ones, and get_inner_cmp is right: the inner comparison it finds says    *)
(* the same as the outer one if it returns false, the opposite otherwise.  *)
InnerAgrees ==
  LET plain == Evaluate(instrs, LAMBDA i : instrs[i], 0)
      inner == get_inner_cmp(instrs)
  IN /\ TypeOK
     /\ \A i \in 1..Len(instrs) :
          instrs[i].op \in {"CMP", "CMPF"} =>
            plain[i] = IF inner[i].invert THEN 1 - plain[inner[i].out] ELSE plain[inner[i].out]

(* Whatever the types of the operands, on whichever side constants stand   *)
(* and however many comparisons with 0, 1 and 2 are put around it, the     *)
(* branch is taken, and the value is 1, exactly if C says so; folded       *)
(* comparisons included.  The cases above are those that differ: mixed     *)
(* signs of small types and of long and long long, constants C would       *)
(* convert, an unsigned char or short and a floating number, an unsigned   *)
(* long of more than 32 bits and a float, NaN, two addresses.              *)
ResultRight ==
  /\ InnerAgrees
  /\ \/ TodoConversion \/ ConstantChanges \/ NarrowToFloat \/ WideToFloat
     \/ HasNaN \/ BothGlobals \/ Right
=============================================================================
