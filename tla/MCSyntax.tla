--------------------------- MODULE MCSyntax ---------------------------------
(***************************************************************************)
(* src/src/syntax in six views, each on its own inputs: which lines the    *)
(* preprocessor keeps (Conditionals), how a condition is decided           *)
(* (Conditions, with the parser), what the text of a line becomes          *)
(* (MacroExpansion), what tokens the lexer makes of it (Lexer), where it   *)
(* says they are (SourceMap), and what the parser makes of them (Parser).  *)
(* They share no state, so a behaviour here is a behaviour of one of them, *)
(* and the variables of the others rest.                                   *)
(***************************************************************************)
EXTENDS Integers, Sequences, Conditions, Lexer

CONSTANTS Programs, MaxDepth, Sources, Macros, MaxFrames, Texts

VARIABLES view,
          files, readers, scopes, env,        \* Conditionals
          frames, params, depth, source,      \* MacroExpansion
          text, item, src, adj, phase, reader, toks,  \* SourceMap
          out, res

C == INSTANCE Conditionals
M == INSTANCE MacroExpansion
S == INSTANCE SourceMap WITH r <- reader, i <- item

conditionals == <<files, readers, scopes, env>>
macros == <<frames, params, depth, source>>
locations == <<text, item, src, adj, phase, reader, toks>>
syntaxVars == <<view, conditionals, macros, locations, lexVars, conditionVars, out, res>>

Rest == <<>>
ConditionalsRest == files = Rest /\ readers = Rest /\ scopes = Rest /\ env = Rest
MacrosRest == frames = Rest /\ params = Rest /\ depth = Rest /\ source = Rest
LocationsRest == /\ text = Rest /\ item = Rest /\ src = Rest /\ adj = Rest
                 /\ phase = Rest /\ reader = Rest /\ toks = Rest
LexerRest == chars = Rest /\ cursor = Rest /\ lexemes = Rest /\ lexing = "running"
ParserRest == input = Rest /\ pos = Rest /\ types = Rest /\ tree = Rest /\ verdict = "parsing" /\ cond = Undecided

SyntaxInit ==
  \/ view = "conditionals" /\ C!Init /\ MacrosRest /\ LocationsRest /\ ParserRest /\ LexerRest
  \/ view = "macros" /\ M!Init /\ ConditionalsRest /\ LocationsRest /\ ParserRest /\ LexerRest
  \/ view = "locations" /\ S!Init /\ res = "none" /\ ConditionalsRest /\ MacrosRest /\ ParserRest /\ LexerRest
  \/ /\ \/ view = "parser" /\ Init /\ cond = Undecided
        \/ view = "conditions" /\ ConditionInit
     /\ res = "none" /\ out = Rest /\ ConditionalsRest /\ MacrosRest /\ LocationsRest /\ LexerRest
  \/ /\ view = "lexer" /\ LexInit
     /\ res = "none" /\ out = Rest /\ ConditionalsRest /\ MacrosRest /\ LocationsRest /\ ParserRest

Conditionals == view = "conditionals" /\ C!Next /\ UNCHANGED <<view, macros, locations, lexVars, conditionVars>>
Expansion == view = "macros" /\ M!Next /\ UNCHANGED <<view, conditionals, locations, lexVars, conditionVars>>
Locations == view = "locations" /\ S!Next /\ UNCHANGED <<view, conditionals, macros, lexVars, conditionVars, res>>
Lexing == view = "lexer" /\ LexNext /\ UNCHANGED <<view, conditionals, macros, locations, conditionVars, out, res>>
Parsing ==
  /\ view \in {"parser", "conditions"} /\ ConditionNext
  /\ UNCHANGED <<view, conditionals, macros, locations, lexVars, out, res>>

SyntaxNext == Conditionals \/ Expansion \/ Locations \/ Lexing \/ Parsing

(* One thread, which keeps running. *)
SyntaxSpec == SyntaxInit /\ [][SyntaxNext]_syntaxVars /\ WF_syntaxVars(Conditionals \/ Expansion)

-----------------------------------------------------------------------------
(* Conditionals!OutputRight: the text of the sections taken, and no other. *)
OutputRight == view = "conditionals" => C!OutputRight

(* MacroExpansion!ExpansionRight: the text that C99 6.10.3 gives, but for   *)
(* the string that # makes of an argument with a macro in it.               *)
ExpansionRight == view = "macros" => M!ExpansionRight

(* SourceMap!LocationsRight: every token where it stands in the source. *)
LocationsRight == view = "locations" => S!LocationsRight

(***************************************************************************)
(* preprocess ends, also when a guarded file includes itself and however   *)
(* macros nest, as long as none leads back to itself and no file ends in a *)
(* #if, #elif, #define or #error without a newline: the loops that read    *)
(* those lines do not look for the end of the file.                        *)
(***************************************************************************)
Terminates ==
  (view = "conditionals" => C!NewlinesThere) => <>(res \notin {"running", "endless"})

-----------------------------------------------------------------------------
(* Conditionals: every main file of up to three lines, a #if with four      *)
(* basic ones, and conditionals between two more; files of up to two lines  *)
(* without the last newline, or three with two basic ones; with four        *)
(* headers, one guarded against including itself, one plain, one that       *)
(* leaves a conditional open, and one that ends without a newline.          *)
Line(k) == [k |-> k]
Cond(k, v) == [k |-> k, v |-> v]
Macro(k, m) == [k |-> k, m |-> m]
Include(file) == [k |-> "include", file |-> file]

CutLine(line) == [cut |-> TRUE] @@ line

Text == Line("text")
Headers ==
  [guarded |-> <<Macro("ifndef", "G"), Macro("define", "G"), Include("guarded"), Text, Line("endif")>>,
   plain |-> <<Text, Cond("if", "false"), Text, Line("endif")>>,
   open |-> <<Cond("if", "false")>>]
CutHeader == <<Text, CutLine(Macro("define", "M"))>>

Program(main) == [main |-> main] @@ Headers

BasicLines == {Text, Cond("if", "true"), Cond("if", "false"), Cond("elif", "true"),
               Cond("elif", "false"), Line("else"), Line("endif")}
OtherLines == {Cond("if", "bad"), Cond("elif", "bad"), Line("unknown"), Line("error"), Macro("define", "M"),
               Macro("undef", "M"), Macro("ifdef", "M"),
               Include("guarded"), Include("plain"), Include("open"), Include("missing")}
AnyLine == BasicLines \cup OtherLines

MCPrograms == {Program(main) : main \in UNION {[1..n -> AnyLine] : n \in 0..3}
                                 \cup {<<Cond("if", v)>> \o rest : v \in {"true", "false"}, rest \in [1..4 -> BasicLines]}
                                 \cup {<<x, y, Text, Line("else"), Text, Line("endif"), z>> :
                                         x, y, z \in AnyLine}}
  \cup {[cut |-> CutHeader] @@ Program(Append(main, line)) :
           main \in UNION {[1..n -> AnyLine] : n \in 0..1} \cup [1..2 -> BasicLines],
           line \in {CutLine(x) : x \in AnyLine} \cup {Include("cut")}}

-----------------------------------------------------------------------------
(* MacroExpansion: texts of up to three uses of nine macros that use each   *)
(* other, share parameter names and have one named like another's text.     *)
W(words) == [x \in 1..Len(words) |-> <<words[x]>>]
Object(words) == [params |-> <<>>, variadic |-> FALSE, body |-> W(words)]
Function(names, words) == [params |-> W(names), variadic |-> FALSE, body |-> W(words)]
Variadic(names, words) == [params |-> W(names), variadic |-> TRUE, body |-> W(words)]

MacroNames ==
  [O |-> Object(<<"y", "z">>), E |-> Object(<<>>), P |-> Object(<<"O", "F", "(", "O", ")">>),
   F |-> Function(<<"a">>, <<"a", "+", "a">>), G |-> Function(<<"a", "b">>, <<"F", "(", "b", ")", "a">>),
   K |-> Function(<<"y">>, <<"y", "O">>), V |-> Variadic(<<"a">>, <<"a", "[", "__VA_ARGS__", "]">>),
   S |-> Function(<<"a">>, <<"#", "a", "O", "a">>), U |-> Function(<<"a">>, <<"y">>)]

MCMacros == [x \in {<<n>> : n \in DOMAIN MacroNames} |-> MacroNames[x[1]]]

Short ==
  {W(x) : x \in {<<"x">>, <<"O">>, <<"E">>, <<"P">>, <<"F", "(", "O", ")">>, <<"K", "(", "x", ")">>,
                 <<"S", "(", "x", ")">>, <<"S", "(", "O", ")">>, <<"V", "(", "O", ")">>, <<"U", "(", "x", ")">>, <<"#", "x">>}}
Long ==
  {W(x) : x \in {<<"F", "(", "(", "x", ",", "O", ")", ")">>, <<"G", "(", "F", "(", "O", ")", ",", "a", ")">>,
                 <<"G", "(", "b", ",", "K", "(", "a", ")", ")">>, <<"K", "(", "K", "(", "O", ")", ")">>,
                 <<"V", "(", "x", ",", "y", ",", "F", "(", "a", ")", ")">>, <<"S", "(", "x", ",", "y", ")">>,
                 <<"F", "(", "G", "(", "x", ")", ")">>, <<"S", "(", "G", "(", "x", ")", ")">>,
                 <<"V", "(", "x", ",", "F", "(", "x", ",", "x", ")", ")">>, <<"G", "(", "x", ",", ")">>, <<"F", "(", "x">>}}

MCSources == {a \o b : a, b \in Short \cup Long} \cup {a \o b \o c : a, b, c \in Short}

-----------------------------------------------------------------------------
(* SourceMap: every source of up to four items, and with #include of three. *)
Item(t, len) == [t |-> t, len |-> len]
Mac(len, body) == [t |-> "mac", len |-> len, body |-> body]
Inc(body) == [t |-> "inc", len |-> 3, body |-> body]

Items == {Item("sym", 1), Item("sym", 2), Item("num", 2), Item("punct", 1), Item("ws", 1),
          Item("ws", 3), Item("nl", 1), Item("dir", 4), Item("cont", 2), Mac(3, <<>>),
          Mac(3, <<"s", " ", "p">>), Mac(2, <<"n", "p", "s">>), Mac(2, <<"p", "n">>), Mac(2, <<"n", "n">>)}

Wordlike == {"sym", "num", "mac"}
LineStart == {"nl", "dir", "inc"}

(* Words are kept apart, directives start lines, and a continuation follows *)
(* a character that does not name a macro.                                  *)
Readable(s) ==
  \A x \in 1..Len(s) :
    /\ s[x].t \in Wordlike /\ x > 1 => s[x - 1].t \notin Wordlike \cup {"cont"}
    /\ s[x].t \in {"dir", "inc"} /\ x > 1 => s[x - 1].t \in LineStart
    /\ s[x].t = "cont" => x > 1 /\ s[x - 1].t \notin {"mac", "cont", "dir", "inc"}

MCTexts == {s \in UNION {[1..n -> Items] : n \in 0..4} : Readable(s)}
             \cup {s \in [1..3 -> Items \cup {Inc(<<"s", "p">>)}] : Readable(s)}

-----------------------------------------------------------------------------
(* Parser: expressions with an operator inside an operator, statements in    *)
(* statements, and declarations of types derived three times, pointers to    *)
(* arrays aside; and the same texts cut short with five tokens behind them.  *)
Id(x) == <<"id", x>>
Num(x) == <<"constant", <<x>>>>
Bin(op, a, b) == <<"binary", op, a, b>>
Unary(op, a) == <<"unary", <<op>>, a>>

TypeName(word, d) == <<"type_name", <<<<"named", <<word>>>>>>, d>>
IntName == TypeName("int", <<"ident", <<>>>>)
PointerName == TypeName("T", <<"pointer", <<>>, <<"ident", <<>>>>>>)

Operators == {",", "=", "||", "&&", "|", "^", "&", "==", "<", ">>", "-", "*"}
Containing(e) ==
  {Bin(op, e, Id("b")) : op \in Operators \ {"="}} \cup {Bin(op, Id("a"), e) : op \in Operators \cup {"+="}}
   \cup {<<"?:", e, Id("a"), Id("b")>>, <<"?:", Id("a"), e, Id("b")>>, <<"?:", Id("a"), Id("b"), e>>,
         <<"cast", PointerName, e>>, Unary("-", e), Unary("++", e), <<"sizeof_expr", e>>,
         <<"index", e, Id("b")>>, <<"index", Id("a"), e>>, <<"call", e, <<>>>>, <<"call", Id("a"), <<Id("b"), e>>>>,
         <<"arrow", e, <<"m">>>>, <<"post++", e>>}
Operands == Containing(Id("x")) \cup {<<"sizeof_type", IntName>>, <<"cast", IntName, Num("1")>>, <<"dot", Id("x"), <<"m">>>>}
Exprs == UNION {Containing(e) : e \in Operands}

Simple(e) == <<"expr", e>>
Pointer(name) == <<"decl", <<<<"named", <<"T">>>>>>, <<<<"init", <<"pointer", <<>>, <<"ident", <<name>>>>>>, <<>>>>>>>>
Holding(s) ==
  {<<"if", Id("a"), s, <<>>>>, <<"if", Id("a"), Simple(Id("y")), s>>, <<"while", Id("a"), s>>, <<"switch", Id("a"), s>>,
   <<"do", s, Id("a")>>, <<"for", <<>>, Id("a"), Unary("++", Id("i")), s>>, <<"label", Id("l"), s>>, <<"case", Num("1"), s>>,
   <<"compound", <<Pointer("p"), s>>>>}
    \cup (IF EndsOpen(s) THEN {} ELSE {<<"if", Id("a"), s, Simple(Id("y"))>>})
Innermost == {Simple(<<>>), Simple(Bin("*", Id("t"), Id("p"))), Simple(<<"?:", Id("a"), Id("l"), Id("b")>>), <<"break">>,
              <<"continue">>, <<"goto", Id("l")>>, <<"return", <<>>>>, <<"compound", <<>>>>}
OneDeep == UNION {Holding(s) : s \in Innermost}
Statements == OneDeep \cup UNION {Holding(s) : s \in UNION {Holding(x) : x \in {Simple(<<>>)}}}

TypedefText == <<"typedef", "char", "T", ";">>
Unit(items) == TypedefText \o <<"int", "f", "(", "void", ")", "{">> \o StatementsText(items) \o <<"}">>
Input(entry, about, t, cut, beyond, meant) ==
  [entry |-> entry, about |-> about, text |-> t, cut |-> cut, beyond |-> beyond, meant |-> meant]
Derived(t) ==
  (IF t[1] = "array" THEN {} ELSE {<<"pointer", t>>})
    \cup (IF t[1] = "function" THEN {} ELSE {<<"array", Num("2"), t>>, <<"function", <<"int">>, <<t, <<"T">>>>, FALSE>>})
    \cup (IF t[1] \in {"array", "function"} THEN {} ELSE {<<"function", t, <<>>, FALSE>>, <<"function", t, <<<<"int">>>>, TRUE>>})
Basic == {<<"int">>, <<"T">>}
Twice == UNION {Derived(t) : t \in Basic \cup UNION {Derived(u) : u \in Basic}}
Types == Twice \cup UNION {Derived(t) : t \in Twice}
(* Declarations with the constructs that have no printed form above. *)
Named1(word) == <<<<"named", <<word>>>>>>
Declares(specs, d, init) == <<"decl", specs, <<<<"init", d, init>>>>>>
IdentX == <<"ident", <<"x">>>>
Fields == <<<<"field", Named1("int"), <<<<"pointer", <<>>, IdentX>>, <<"bitfield", <<"ident", <<"a">>>>, Num("2")>>>>>>>>
Brace(elems) == <<"brace", elems>>
Elem(ds, value) == <<"element", ds, value>>
Samples ==
  {<<<<"struct", "S", "{", "int", "*", "x", ",", "a", ":", "2", ";", "}", "__attribute__", "(", "(", "packed", ")", ")", "x", ";">>,
     Declares(<<<<"struct", <<"struct">>, <<"S">>, Fields, <<"attribute", <<"packed">>>>>>>>, IdentX, <<>>)>>,
   <<<<"static", "union", "S", "*", "const", "*", "x", ";">>,
     Declares(<<<<"storage", <<"static">>>>, <<"struct_tag", <<"union">>, <<"S">>>>>>,
              <<"pointer", <<<<"qualifier", <<"const">>>>>>, <<"pointer", <<>>, IdentX>>>>, <<>>)>>,
   <<<<"enum", "{", "A", ",", "B", "=", "1", ",", "}", ";">>,
     <<"decl", <<<<"enum", <<>>, <<<<"enumerator", <<"A">>, <<>>>>, <<"enumerator", <<"B">>, Num("1")>>>>>>>>, <<>>>>>>,
   <<<<"int", "x", "[", "]", "=", "{", "[", "1", "]", "=", "2", ",", "{", ".", "m", ".", "n", "=", "3", "}", ",", "}", ";">>,
     Declares(Named1("int"), <<"array", <<>>, IdentX>>,
              Brace(<<Elem(<<<<"[]", Num("1")>>>>, Num("2")),
                      Elem(<<>>, Brace(<<Elem(<<<<".", <<"m">>>>, <<".", <<"n">>>>>>, Num("3"))>>))>>))>>,
   <<<<"int", "x", "=", "(", "int", ")", "{", "1", "}", ";">>,
     Declares(Named1("int"), IdentX, <<"literal", IntName, <<Elem(<<>>, Num("1"))>>>>)>>}

(* What is printed, and whether its text is cut short, which is everywhere  *)
(* but behind the typedef of a body, where a unit ends.                      *)
Printed(about, meant, cut) == [about |-> about, meant |-> meant, cut |-> cut]
TextOf(p) ==
  CASE p.about = "body" -> Unit(p.meant)
    [] p.about = "types" -> (IF p.cut THEN <<>> ELSE TypedefText) \o TypeText(p.meant, <<"x">>) \o <<";">>
    [] p.about = "expr" -> ExprText(p.meant, 1)
Behind == {"x", "]", ")", ";", "T"}
InputsFor(p, t) ==
  LET entry == IF p.about = "expr" THEN "expr" ELSE "toplevel"
      ends == IF p.about = "body" THEN {Len(TypedefText)} ELSE {}
      next == [expr |-> "x", body |-> "]", types |-> "["]
      meant == IF p.about = "types" THEN <<<<<<"x">>, Adjusted(p.meant)>>>> ELSE p.meant
  IN  IF p.cut THEN {Input(entry, p.about, t, n, b, <<>>) : n \in (1..(Len(t) - 1)) \ ends, b \in Behind}
      ELSE {Input(entry, p.about, t, Len(t), next[p.about], meant)}

PrintedInputs ==
  {Printed("body", <<<<"return", e>>>>, FALSE) : e \in Exprs}
    \cup {Printed("body", <<s>>, FALSE) : s \in Statements}
    \cup {Printed("body", <<s>>, TRUE) : s \in Holding(<<"return", <<"cast", PointerName, Id("x")>>>>)}
    \cup {Printed("types", t, FALSE) : t \in Types}
    \cup {Printed("types", t, TRUE) : t \in {u \in Twice : Adjusted(u) = u}}
    \cup {Printed("expr", Bin(op, Bin(op, Id("a"), Id("b")), Bin(q, Id("c"), Id("d"))), FALSE) :
             op, q \in Operators \ {"="}}

MCInputs ==
  {Input("toplevel", "tree", s[1], Len(s[1]), ",", <<s[2]>>) : s \in Samples}
    \cup UNION {InputsFor(p, TextOf(p)) : p \in PrintedInputs}

-----------------------------------------------------------------------------
(* Conditions: operators in operators over numbers, a macro, an unknown name *)
(* and both forms of defined; lines that are no expressions, nothing and a   *)
(* macro for nothing among them, and lines that do not lex; two tokens may   *)
(* stand behind the last one.                                                *)
Env == [E |-> <<>>, N |-> <<"2">>, P |-> <<"(", "1", "+", "2", ")">>]
Meanings == [N |-> Num("2"), P |-> Bin("+", Num("1"), Num("2")), DN |-> Num("1"), DU |-> Num("0")]
Spelled(tok) ==
  CASE tok = "DN" -> <<"defined", "N">> [] tok = "DU" -> <<"defined", "(", "U", ")">> [] OTHER -> <<tok>>
SpelledOut(toks1) == FlattenSeq([k \in DOMAIN toks1 |-> Spelled(toks1[k])])

ConditionLine(about, t, beyond, meant) ==
  Input("line", about, t, Len(t), beyond, meant) @@ [env |-> Env, macros |-> Meanings]

Leaves == {Num("0"), Num("1"), Num("3"), Id("N"), Id("P"), Id("U"), Id("DN"), Id("DU")}
CondOps == BinaryOps \cup {"&&", "||", ","}
InnerExprs ==
  {Unary(op, Num("1")) : op \in UnaryOps} \cup {Unary("!", Id("U")), Unary("*", Num("1")), Num("1.0"), <<"call", Id("P"), <<>>>>}
    \cup {Bin(op, Num("1"), Num("0")) : op \in CondOps} \cup {Bin("&&", Id("DU"), Id("U")), Bin("||", Id("DN"), Id("U"))}
CondTrees ==
  Leaves \cup InnerExprs \cup {Bin(op, a, b) : op \in CondOps, a, b \in Leaves}
    \cup {Bin(op, a, b) : op \in CondOps, a \in InnerExprs, b \in {Num("0"), Num("3"), Id("U")}}
    \cup {Bin(op, b, a) : op \in CondOps, a \in InnerExprs, b \in {Num("0"), Num("3"), Id("U")}}
    \cup {<<"?:", a, b, c>> : a \in Leaves, b, c \in {Num("0"), Id("DN"), Id("U"), Bin("/", Num("1"), Num("0"))}}

NoExpressions ==
  {<<>>, <<"E">>, <<"@">>, <<"@", "1">>, <<"1", "+">>, <<"1", "+", "@", "1">>, <<"1", "1">>, <<"(", "1">>, <<"defined", "(", "N">>,
   <<"defined", "(">>, <<"defined", "(", "N", "N", ")">>, <<"defined", "N", "N">>, <<"defined", "1">>, <<"defined", "(", "1", ")">>}
MCLines ==
  {ConditionLine("condition", SpelledOut(ExprText(e, 1)), b, e) : e \in CondTrees, b \in {"x", ")"}}
    \cup {ConditionLine("condition", SpelledOut(ExprText(e, 1)) \o <<"@", "0">>, b, e) : e \in Leaves \cup InnerExprs, b \in {"x", ")"}}
    \cup {ConditionLine("condition", t, b, <<>>) : t \in NoExpressions, b \in {"x", ")"}}
    \cup {ConditionLine("loose", t, "x", <<>>) : t \in {<<"defined">>, <<"defined", "(", ")">>, <<"def", "N">>}}

-----------------------------------------------------------------------------
(* Lexer: characters of operators in every order, the inside of literals,   *)
(* numbers put together from their parts, and strings beside strings.       *)
Strings(set, n) == UNION {[1..k -> set] : k \in 0..n}
Joins(a, b) == {x \o y : x \in a, y \in b}
OperatorTexts == Strings({"+", "-", "=", ">", "<", "&", ".", "!", ":", "1", " "}, 3)
LiteralTexts ==
  LET quote == {<<"\"">>, <<"'">>}
  IN  Strings({"\"", "'", "\\", "0"}, 5) \cup Joins(Joins(quote, Strings({"\\", "0", "1", "8", "x", "n"}, 4)), quote)
NumberTexts ==
  Joins(Joins({<<>>, <<"0">>, <<"0", "x">>}, Strings({"1", "8", "."}, 3)),
        Joins({<<>>, <<"e", "1">>, <<"e", "-", "2">>, <<"p", "+", "1">>},
              {<<>>, <<"u">>, <<"L", "L">>, <<"l", "L">>, <<"f">>, <<"l", "U">>, <<" ", "1">>}))
Pieces == {<<"\"", "a", "\"">>, <<"\"", "\"">>, <<" ">>, <<"\n">>, <<";">>, FileWord, LineWord}
MCLexTexts ==
  OperatorTexts \cup LiteralTexts \cup NumberTexts \cup {FlattenSeq(s) : s \in Strings(Pieces, 4)}
    \cup {<<"a", "$">>, <<"~", "*", "/", "%", "=">>, <<"{", "a", "9", "}", "[", "]">>}
=============================================================================
