------------------------------- MODULE MCIrGen -------------------------------
(***************************************************************************)
(* src/src/ir_gen in four views, each on its own inputs: the control flow  *)
(* of functions (Statements), the bytes of initialized objects             *)
(* (Initializers), the types, names and storage that declarations make     *)
(* (Declarations), and the values of expressions (Arithmetic).  They share *)
(* no state, so a behaviour here is a behaviour of one of them, and the    *)
(* variables of the others rest.                                           *)
(***************************************************************************)
EXTENDS Statements, Initializers

CONSTANTS Units, Numbers,                                              \* Declarations
          Bits, Pairs, Nested(_), MaxOuter, Computed(_), StoredTypes, Pointees  \* Arithmetic

VARIABLES view,
          decls, done, heap, structs, aliases, scopes, globals, status,     \* Declarations
          pair, stage, instrs, expr, meaning, outer, result, oper           \* Arithmetic

D == INSTANCE Declarations
A == INSTANCE Arithmetic
V == INSTANCE COperands

ASSUME BitsAssumption ==
  /\ Bits \in [{8, 16, 32, 64} -> Nat]
  /\ 1 < Bits[8] /\ Bits[8] < Bits[16] /\ Bits[16] < Bits[32] /\ Bits[32] < Bits[64]

declarations == <<decls, done, heap, structs, aliases, scopes, globals, status>>
expressions == <<pair, stage, instrs, expr, meaning, outer, result, oper>>
irGenVars == <<view, vars, initVars, declarations, expressions>>

Rest == <<>>
StatementsRest == prog = Rest /\ unit = Empty /\ pc = Rest /\ vregs = Rest /\ want = Rest
ObjectsRest == object = Rest /\ type = Rest /\ phase = "rest" /\ c_init = Rest /\ stores = Rest /\ memory = Rest
DeclarationsRest == /\ decls = Rest /\ done = 0 /\ heap = Rest /\ structs = Rest /\ aliases = Rest
                    /\ scopes = Rest /\ globals = Rest /\ status = "rest"
ExpressionsRest == /\ pair = Rest /\ stage = "rest" /\ instrs = Rest /\ expr = Rest /\ meaning = 0
                   /\ outer = 0 /\ result = 0 /\ oper = "none"

IrGenInit ==
  \/ view = "statements" /\ Init /\ ObjectsRest /\ DeclarationsRest /\ ExpressionsRest
  \/ view = "initializers" /\ InitInit /\ StatementsRest /\ DeclarationsRest /\ ExpressionsRest
  \/ view = "declarations" /\ D!DeclInit /\ StatementsRest /\ ObjectsRest /\ ExpressionsRest
  \/ view = "expressions" /\ A!InitArithmetic /\ StatementsRest /\ ObjectsRest /\ DeclarationsRest

Functions == view = "statements" /\ Next /\ UNCHANGED <<view, initVars, declarations, expressions>>
Initializing == view = "initializers" /\ InitNext /\ UNCHANGED <<view, vars, declarations, expressions>>
Declaring == view = "declarations" /\ D!DeclNext /\ UNCHANGED <<view, vars, initVars, expressions>>
Computing == view = "expressions" /\ A!NextArithmetic /\ UNCHANGED <<view, vars, initVars, declarations>>

IrGenNext == Functions \/ Initializing \/ Declaring \/ Computing

(* The code of a function runs until it evaluates something. *)
IrGenSpec == IrGenInit /\ [][IrGenNext]_irGenVars
             /\ WF_irGenVars(view = "statements" /\ Silent /\ UNCHANGED <<view, initVars, declarations, expressions>>)

-----------------------------------------------------------------------------
(* Declarations!TypesRight: types, names and storage are those of C. *)
TypesRight == D!TypesRight

(* Comparisons!ResultRight: a comparison has the value C gives it. *)
ResultRight == view = "expressions" => A!ResultRight

(* Arithmetic!ArithmeticRight: so has every other computation. *)
ArithmeticRight == view = "expressions" => A!ArithmeticRight

-----------------------------------------------------------------------------
(* Statements: small functions built from every statement, each leaf of     *)
(* which evaluates something, and two functions with the labels of one.     *)
None == [t |-> "none", kids |-> <<>>]
Ask == [t |-> "leaf", kids |-> <<>>]
Lit1 == [t |-> "one", kids |-> <<>>]
Lit0 == [t |-> "zero", kids |-> <<>>]
Ex(t, kids) == [t |-> t, kids |-> kids]

St(t, e, kids) == [t |-> t, e |-> e, init |-> None, update |-> None, name |-> "", val |-> 0, kids |-> kids]
X == St("expr", Ask, <<>>)
B == St("break", None, <<>>)
C == St("continue", None, <<>>)
R == St("return", Ask, <<>>)
Block(kids) == St("compound", None, kids)
If(s) == St("if", Ask, <<s>>)
IfElse(s, r) == St("if", Ask, <<s, r>>)
While(s) == St("while", Ask, <<s>>)
Do(s) == St("do", Ask, <<s>>)
For(s, i, c, u) == [St("for", c, <<s>>) EXCEPT !.init = i, !.update = u]
Goto(l) == [St("goto", None, <<>>) EXCEPT !.name = l]
Labelled(l, s) == [St("label", None, <<s>>) EXCEPT !.name = l]
Case(v, s) == [St("case", None, <<s>>) EXCEPT !.val = v]
Default(s) == St("default", None, <<s>>)
Switch(kids) == St("switch", Ask, <<Block(kids)>>)

Exits == {X, B, C, R}
Bodies == Exits \cup {If(s) : s \in {B, C, R}}
          \cup {IfElse(s, r) : s, r \in {X, B, C}}
          \cup {Block(<<If(s), X>>) : s \in {B, C, R}}
          \cup {Switch(<<Case(1, s), Case(2, X), Default(r)>>) : s \in {B, C, X}, r \in {B, X}}
          \cup {Switch(<<Default(s), Case(0, Case(1, If(r))), X>>) : s \in {B, X}, r \in {B, C}}

LoopsOf(s) ==
  {While(s), Do(s), For(s, Ask, Ask, Ask), For(Block(<<X, s>>), None, None, None), For(s, None, Ask, None),
   St("while", Lit1, <<Block(<<X, s>>)>>), St("do", Lit0, <<s>>)}

Looped == UNION {LoopsOf(s) : s \in Bodies}
Twice == UNION {LoopsOf(Block(<<s, r>>)) : s \in UNION {LoopsOf(t) : t \in {B, If(C)}}, r \in {If(B), If(C)}}
InSwitch == {Switch(<<Case(0, s), Case(2, B), Default(If(B)), X>>) : s \in {While(If(B)), Do(If(C)), For(B, None, Ask, Ask)}}

Gotos ==
  {Block(<<Labelled("l", X), If(Goto("l")), X>>), Block(<<Goto("l"), X, Labelled("l", X)>>),
   Block(<<Goto("a"), While(Block(<<Labelled("b", X), If(B)>>)), R, Labelled("a", X), Goto("b"), X>>),
   Block(<<X, Goto("c"), Switch(<<Case(1, X), Labelled("c", If(B)), Default(X)>>), X>>)}

Asks == {Ask, Lit1, Lit0}
Simple == Asks \cup {Ex(t, <<l, r>>) : t \in {"and", "or"}, l, r \in Asks}
Operands == {Ask, Lit1, Ex("and", <<Ask, Ask>>), Ex("or", <<Ask, Ask>>), Ex("or", <<Lit0, Ask>>)}
Conds == Simple \cup {Ex(t, <<l, r>>) : t \in {"and", "or"}, l, r \in Operands}
         \cup {Ex("ternary", <<c, l, r>>) : c \in Operands, l, r \in {Ask, Ex("or", <<Ask, Ask>>)}}

MCPrograms ==
  {<<Block(<<s, X>>)>> : s \in Bodies \cup Looped \cup Twice \cup InSwitch \cup Gotos}
  \cup {<<Block(<<St("if", c, <<X, X>>), X>>)>> : c \in Conds} \cup {<<St("do", c, <<X>>)>> : c \in Conds}
  \cup {<<Block(<<X>>), g>> : g \in Gotos}

-----------------------------------------------------------------------------
(* Initializers: of types with gaps, tails, nesting and missing lengths,    *)
(* brace lists of one and two elements, of three for the smallest, each     *)
(* element with every designator and with each form its place may take.     *)
Word == [k |-> "int"]
Pointer == [k |-> "pointer"]
Arr(n, t) == [k |-> "array", n |-> n, elem |-> t]
StructT(fields) == [k |-> "struct", packed |-> FALSE, fields |-> fields]
Packed(fields) == [k |-> "struct", packed |-> TRUE, fields |-> fields]
UnionT(fields) == [k |-> "union", packed |-> FALSE, fields |-> fields]

Gap == StructT(<<Char, Word>>)
Tail1 == StructT(<<Word, Char>>)
Outer == StructT(<<Gap, Arr(2, Word)>>)
ObjectTypes == {Word, Arr(2, Word), Arr(0, Word), Arr(2, Arr(2, Word)), Arr(0, Arr(2, Char)), Arr(3, Char), Arr(4, Char), Arr(0, Char), Gap, Tail1, Outer,
          Arr(2, Gap), Arr(0, Gap), Packed(<<Char, Word>>), UnionT(<<Char, Word>>), StructT(<<Char, Pointer, Char, Char>>),
          StructT(<<Arr(2, Gap), Word>>), Arr(2, Tail1), StructT(<<UnionT(<<Word, Char>>), Char>>), StructT(<<Word, Arr(2, Arr(2, Char))>>)}

Digits == <<"1", "2", "3">>
Given(v) == [k |-> "value", v |-> v]
Braced(elems) == [k |-> "brace", elems |-> elems]
Elem(ds, init) == [ds |-> ds, init |-> init]
String == [k |-> "string", chars |-> <<"a", "b">>]

(* What may stand for a place of type t: one of these. *)
RECURSIVE Forms(_, _)
Forms(t, v) ==
  IF t.k \in Scalars THEN {Given(Digits[v])}
  ELSE LET Plain(x) == CHOOSE i \in Forms(FieldType(t, x), v) : i.k # "object"
       IN  {Braced(<<Elem(<<>>, Plain(1))>>)}
             \cup (IF t.k = "struct" THEN {[k |-> "object", v |-> "s"], Braced(<<Elem(<<2>>, Plain(2))>>)}
                   ELSE IF t.k = "array" /\ t.elem = Char THEN {String} ELSE {})

Completed(t) == IF t.k = "array" /\ t.n = 0 THEN [t EXCEPT !.n = 3] ELSE t

RECURSIVE Designators(_)
Designators(t) == {<<>>} \cup (IF t.k \in Scalars THEN {} ELSE UNION {{<<x>> \o p : p \in Designators(FieldType(t, x))} : x \in 1..c_type_num_fields(t)})

(* The element that is n-th in its list, with its number as value. *)
Elems(t, n) == UNION {{Elem(p, i) : i \in Forms(TypeAt(t, IF p = <<>> THEN <<1>> ELSE p), n)} : p \in Designators(t)}

(* An element without a designator takes the type of its place. *)
Fits(t, init) ==
  LET p == Places(t, init)
  IN  \A x \in DOMAIN p : p[x].path # <<>> /\ p[x].init \in Forms(TypeAt(t, p[x].path), x)

Lists(t) == {l \in {Braced(<<a>>) : a \in Elems(t, 1)} \cup {Braced(<<a, b>>) : a \in Elems(t, 1), b \in Elems(t, 2)}
               : Fits(t, l)}
Triples(t) == {l \in {Braced(<<a, b, c>>) : a \in Elems(t, 1), b \in Elems(t, 2), c \in Elems(t, 3)} : Fits(t, l)}
Shorter == {Arr(2, Word), Arr(0, Word), Gap, Tail1, Arr(3, Char)}

HasObject(init) == init.k = "object" \/ (init.k = "brace" /\ \E x \in DOMAIN init.elems : init.elems[x].init.k = "object")

Inits(t) == (IF t.k \in Scalars THEN {Given("1")} ELSE Lists(Completed(t))) \cup (IF t \in Shorter THEN Triples(Completed(t)) ELSE {})
              \cup (IF t.k = "array" /\ t.elem = Char THEN {String} ELSE {})

NoInit == [k |-> "none"]
MCObjects ==
  {o \in UNION {{[type |-> t, init |-> x, static |-> s] : x \in Inits(t), s \in BOOLEAN} : t \in ObjectTypes} :
     (o.static => ~HasObject(o.init)) /\ (o.type.k \in Scalars => o.static)}
  \cup {[type |-> t, init |-> NoInit, static |-> TRUE] : t \in {u \in ObjectTypes : u = Completed(u)}}

-----------------------------------------------------------------------------
(* Declarations: a struct used before, while and after it is completed, by  *)
(* itself and through typedefs, other structs and objects; and blocks that  *)
(* give a name another meaning.                                             *)
T(base, steps) == [base |-> base, steps |-> steps]
OfInt(steps) == T(<<"int">>, steps)
OfChar(steps) == T(<<"char">>, steps)
OfS(steps) == T(<<"tag", "s">>, steps)
OfA(steps) == T(<<"alias", "a">>, steps)
Tag(tag) == [d |-> "tag", tag |-> tag]
Defined(tag, kind, packed, fs) == [d |-> "struct", tag |-> tag, kind |-> kind, packed |-> packed, fields |-> fs]
TypedefA(t) == [d |-> "typedef", name |-> "a", type |-> t]
Enumerator(name, v) == [d |-> "enum", name |-> name, v |-> v]
Object(name, t, extern, len) == [d |-> "object", name |-> name, type |-> t, extern |-> extern, len |-> len]
Variable(name, t) == Object(name, t, FALSE, 0)
Push == [d |-> "push"]
Pop == [d |-> "pop"]

Mixed == <<OfChar(<<>>), OfInt(<<"n", "3">>), OfChar(<<"3">>)>>
OfFields == {<<OfInt(<<>>), OfChar(<<"3">>)>>, <<OfS(<<"pointer">>), OfChar(<<>>)>>, <<OfChar(<<>>), OfA(<<>>)>>, <<OfS(<<>>)>>}
StructS == {Defined("s", "struct", FALSE, fs) : fs \in OfFields} \cup {Defined("s", k, p, Mixed) : k \in {"struct", "union"}, p \in BOOLEAN}
StructT1 == Defined("t", "struct", FALSE, <<OfChar(<<>>), OfS(<<>>), OfS(<<"pointer", "2">>)>>)
AnyTypedef == {TypedefA(t) : t \in {OfS(<<>>), OfS(<<"2">>), OfChar(<<"open">>), OfChar(<<"n">>), OfS(<<"pointer">>)}}

Preambles ==
  {<<>>, <<Tag("s")>>} \cup {<<x>> : x \in StructS \cup AnyTypedef}
  \cup {<<x, y>> : x \in StructS \cup {Tag("s")}, y \in AnyTypedef \cup {StructT1}}
  \cup {<<x, y>> : x \in AnyTypedef, y \in StructS} \cup {<<Tag("s"), x, y>> : x \in AnyTypedef, y \in StructS}

Types == {OfS(<<>>), OfS(<<"2">>), OfA(<<>>), OfA(<<"3">>), T(<<"tag", "t">>, <<>>), OfInt(<<"n">>)}
OpenTypes == {OfS(<<"open">>), OfA(<<>>), OfChar(<<"2", "open">>), OfInt(<<"open">>)}
Variables == {Object("x", t, e, 0) : t \in Types \cup OpenTypes, e \in BOOLEAN} \cup {Object("x", t, FALSE, 3) : t \in OpenTypes}

Blocks ==
  {<<x, Push, y, Enumerator("n", 3), z, Pop, w>> :
     x \in {Variable("x", OfChar(<<"n">>)), Object("x", OfS(<<"pointer">>), TRUE, 0), Variable("n", OfInt(<<>>))},
     y \in {Variable("x", OfInt(<<"n">>)), Variable("n", OfInt(<<>>)), Defined("s", "struct", FALSE, <<OfInt(<<>>)>>)},
     z \in {Variable("y", OfInt(<<"n", "x">>)), Object("x", OfInt(<<"open">>), FALSE, 2), Variable("y", OfInt(<<"n">>)), TypedefA(OfInt(<<>>))},
     w \in {Variable("y", OfChar(<<"n">>)), Object("x", OfChar(<<"n">>), TRUE, 0), Variable("z", OfS(<<>>))}}
TwiceDeclared ==
  {<<Object("x", OfInt(<<"open">>), TRUE, 0), Object("x", OfInt(<<"3">>), FALSE, len)>> : len \in {0, 3}}
  \cup {<<TypedefA(OfChar(<<"open">>)), Object("x", OfA(<<>>), FALSE, 3), Object("y", OfA(<<>>), FALSE, 2)>>,
        <<Object("x", OfInt(<<"n">>), TRUE, 0), Object("x", OfInt(<<"2">>), FALSE, 0)>>}

MCUnits == {<<Enumerator("n", 2)>> \o p : p \in Blocks \cup TwiceDeclared \cup {q \o <<x>> : q \in Preambles, x \in Variables}}
             \cup {<<Enumerator("n", 2)>> \o p \o <<Push, x, Pop>> : p \in Preambles, x \in Variables}
MCNumbers == [x \in {"2", "3"} |-> IF x = "2" THEN 2 ELSE 3]

-----------------------------------------------------------------------------
(* Expressions: pairs of operands of every type. *)
\* Two bits more from one width to the next would be enough for every sign
\* to matter; one bit more is, too, and keeps the sets small.
MCBits == (8 :> 2) @@ (16 :> 3) @@ (32 :> 4) @@ (64 :> 5)

IntTypes == {V!Integer(V!CHAR, TRUE), V!Integer(V!CHAR, FALSE), V!Integer(V!SHORT, FALSE),
             V!Integer(V!INT, TRUE), V!Integer(V!INT, FALSE), V!Integer(V!LONG, TRUE),
             V!Integer(V!LONG, FALSE), V!Integer(V!LONG_LONG, TRUE)}

\* 0 and the numbers on both sides of the sign, and 1, which comparisons look for.
Edges(t) == LET m == 2 ^ (Bits[V!IntWidth(t.rank)] - 1) IN {0, m - 1, m, (2 * m) - 1} \cup {k \in {1} : t = V!IntType}

IntVars == UNION {{V!Operand("var", t, n) : n \in Edges(t)} : t \in IntTypes}

\* Literals are not negative and at least int; a minus negates 64 bits.
Positive(t) == {n \in Edges(t) : V!CValue(V!Operand("const", t, n)) >= 0}
IntConsts == UNION {{V!Operand("const", t, n) : n \in Positive(t) \cup {V!U64(-k) : k \in Positive(t)}}
                    : t \in {s \in IntTypes : s.rank >= V!INT}}

FloatVars == {V!Operand("var", t, n) : t \in {V!FLOAT, V!DOUBLE}, n \in {0, 2}}
FloatConsts == {V!Operand("const", t, n) : t \in {V!FLOAT, V!DOUBLE}, n \in {0, 2}}
NaNs == {V!Operand("var", V!DOUBLE, V!NaN)}
Floats == FloatVars \cup FloatConsts \cup NaNs

Ptrs == {V!Operand("var", V!Pointer, n) : n \in {0, 8, 9}}
Globals == {V!Operand("global", V!Pointer, n) : n \in {8, 9}}
Ints == IntVars \cup IntConsts

AllPairs == (Ints \X Ints) \cup (Floats \X (Floats \cup Ints)) \cup (Ints \X Floats)
              \cup ((Ptrs \cup Globals) \X (Ptrs \cup Globals \cup IntConsts))
              \cup (IntConsts \X (Ptrs \cup Globals)) \cup (Ptrs \X Floats)
              \cup (Ptrs \X IntVars) \cup (IntVars \X Ptrs)

\* Comparisons are put around these: int with int, floats and pointers.
ComparedAgain == {V!Operand("var", V!IntType, 0), V!Operand("var", V!IntType, V!U64(-1) % V!Mod(32)),
          V!Operand("const", V!IntType, 1), V!Operand("var", V!DOUBLE, 2), V!Operand("const", V!DOUBLE, 0),
          V!Operand("var", V!Pointer, 8)}
MCNested(p) == p[1] \in ComparedAgain /\ p[2] \in ComparedAgain

MCComputed(p) == p[1].u # V!NaN /\ p[2].u # V!NaN
MCStoredTypes == {V!Integer(V!CHAR, FALSE), V!IntType, V!Integer(V!INT, FALSE), V!Integer(V!LONG, TRUE), V!DOUBLE, V!Pointer}

\* An element of two bytes, and an array of three elements of one byte.
MCPointees == {[size |-> 2, length |-> 1], [size |-> 1, length |-> 3]}
=============================================================================
