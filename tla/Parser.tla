------------------------------- MODULE Parser -------------------------------
(***************************************************************************)
(* The parser of src/src/syntax: the grammar of parse.peg as data, the     *)
(* recursive-descent functions that dsl/peg.py generates from it as one    *)
(* interpreter, and the hand-written parts of parse.c.                     *)
(*                                                                         *)
(* A token is its text.  A node of the tree is a tuple that starts with    *)
(* its kind; a list is the sequence of its nodes, and NULL is <<>>.  What  *)
(* lies in memory after the last token (beyond) is part of the input: identifier   *)
(* and direct_declarator_tail read a token without asking whether there is *)
(* one.  Of the parser's errors only that there is one is kept.            *)
(***************************************************************************)
EXTENDS Integers, Sequences, SequencesExt, Declarators

CONSTANT Inputs   \* what is parsed: [entry, text, cut, beyond, about, meant]

VARIABLES input, pos, types, tree, verdict

vars == <<input, pos, types, tree, verdict>>

Null == <<>>

Punctuation ==
  {"(", ")", "[", "]", "{", "}", ";", ",", ":", "?", ".", "->", "...", "=", "*", "/", "%", "+", "-", "<<", ">>",
   "<", ">", "<=", ">=", "==", "!=", "&", "^", "|", "&&", "||", "!", "~", "++", "--", "*=", "/=", "%=", "+=",
   "-=", "<<=", ">>=", "&=", "^=", "|="}
Literals == {"0", "1", "2", "3", "1.0", "text"}
Symbol(tok) == tok \notin Punctuation \cup Literals

builtin_types == {"void", "char", "short", "int", "long", "float", "double", "signed", "unsigned", "_Bool", "_Complex"}

-----------------------------------------------------------------------------
(* The combinators of parse.peg.  Node(kind, keep, ps) is seq(build, ...)   *)
(* where build puts the parts keep names, in that order, into a node;       *)
(* Part(k, ps) is seq with first, second or middle.                         *)
Tok(word) == [op |-> "tok", text |-> word]
Keyword(word) == [op |-> "keyword", text |-> word]
Name == [op |-> "symbol"]
Rule(name) == [op |-> "rule", name |-> name]
Hand(name) == [op |-> name]
Node(kind, keep, ps) == [op |-> "seq", kind |-> kind, keep |-> keep, parts |-> ps]
Part(k, ps) == [op |-> "part", keep |-> k, parts |-> ps]
Or(ps) == [op |-> "or", alts |-> ps]
Opt(p) == [op |-> "opt", p |-> p]
List(p) == [op |-> "list", p |-> p, empty |-> TRUE, sep |-> <<>>]
NonemptyList(p) == [op |-> "list", p |-> p, empty |-> FALSE, sep |-> <<>>]
CommaList(p) == [op |-> "list", p |-> p, empty |-> TRUE, sep |-> <<Tok(",")>>]
Fold(build, p, next) == [op |-> "fold", build |-> build, p |-> p, next |-> next]

Keywords(words) == Or([k \in DOMAIN words |-> Keyword(words[k])])
Toks(texts) == Or([k \in DOMAIN texts |-> Tok(texts[k])])

(* fold(build_binary_head, p, or(seq(build_binary_tail, ...))) *)
Binary(ops, p) == Fold("binary", Rule(p), Or([k \in DOMAIN ops |-> Node("tail", <<1, 2>>, <<Tok(ops[k]), Rule(p)>>)]))

DeclRules ==
  [external_decl |-> Or(<<Rule("function_definition"), Rule("decl")>>),
   function_definition |-> Node("function", <<1, 2, 3, 4>>, <<Rule("decl_specifiers"), Rule("declarator"),
                                                             Opt(List(Rule("decl"))), Rule("compound_statement")>>),
   decl_specifiers |-> NonemptyList(Or(<<Rule("storage_class_specifier"), Rule("type_specifier"),
                                         Rule("type_qualifier"), Rule("function_specifier")>>)),
   decl |-> Node("decl", <<1, 2>>, <<Rule("decl_specifiers"), Opt(CommaList(Rule("init_declarator"))), Tok(";")>>),
   init_declarator |-> Node("init", <<1, 2>>, <<Rule("declarator"), Opt(Part(2, <<Tok("="), Rule("initializer")>>))>>),
   storage_class_specifier |-> Node("storage", <<1>>, <<Keywords(<<"typedef", "extern", "static", "auto", "register">>)>>),
   type_specifier |-> Or(<<Node("named", <<1>>, <<Hand("named_type")>>), Rule("struct_or_union_specifier"),
                           Rule("enum_specifier")>>),
   struct_or_union_specifier |->
     Or(<<Node("struct", <<1, 2, 4, 6>>, <<Rule("struct_or_union"), Opt(Name), Tok("{"), List(Rule("field_decl")),
                                          Tok("}"), Opt(Rule("attribute"))>>),
          Node("struct_tag", <<1, 2>>, <<Rule("struct_or_union"), Name>>)>>),
   struct_or_union |-> Keywords(<<"struct", "union">>),
   field_decl |-> Node("field", <<1, 2>>, <<Rule("decl_specifiers"), CommaList(Rule("field_declarator")), Tok(";")>>),
   field_declarator |-> Or(<<Node("bitfield", <<1, 3>>, <<Opt(Rule("declarator")), Tok(":"), Rule("expr")>>),
                             Rule("declarator")>>),
   attribute |-> Node("attribute", <<4>>, <<Keyword("__attribute__"), Tok("("), Tok("("), Name, Tok(")"), Tok(")")>>),
   enum_specifier |-> Or(<<Node("enum", <<2, 4>>, <<Keyword("enum"), Opt(Name), Tok("{"), CommaList(Rule("enumerator")),
                                                   Opt(Tok(",")), Tok("}")>>),
                           Node("enum_tag", <<2>>, <<Keyword("enum"), Name>>)>>),
   enumerator |-> Node("enumerator", <<1, 2>>, <<Name, Opt(Part(2, <<Tok("="), Rule("assignment_expr")>>))>>),
   type_qualifier |-> Node("qualifier", <<1>>, <<Keywords(<<"const", "restrict", "volatile">>)>>),
   function_specifier |-> Node("inline", <<>>, <<Keyword("inline")>>),
   declarator |-> Or(<<Node("pointee", <<1, 2>>, <<Opt(Rule("pointer")), Hand("direct_declarator")>>),
                       Node("pointee", <<1>>, <<Rule("pointer")>>)>>),
   pointer |-> NonemptyList(Node("*", <<2>>, <<Tok("*"), Opt(List(Rule("type_qualifier")))>>)),
   direct_declarator_head |-> Or(<<Node("ident", <<1>>, <<Name>>), Part(2, <<Tok("("), Rule("declarator"), Tok(")")>>)>>),
   parameter_list |-> CommaList(Rule("parameter_decl")),
   parameter_decl |-> Or(<<Node("param", <<1, 2>>, <<Rule("decl_specifiers"), Rule("declarator")>>),
                           Node("param", <<1, 2>>, <<Rule("decl_specifiers"), Rule("abstract_declarator")>>),
                           Node("ellipsis", <<>>, <<Tok("...")>>)>>),
   type_name |-> Node("type_name", <<1, 2>>, <<Rule("decl_specifiers"), Opt(Rule("abstract_declarator"))>>),
   abstract_declarator |-> Or(<<Node("pointee", <<1, 2>>, <<Opt(Rule("pointer")), Hand("direct_abstract_declarator")>>),
                                Node("pointee", <<1>>, <<Rule("pointer")>>)>>),
   direct_abstract_declarator_head |-> Opt(Part(2, <<Tok("("), Rule("abstract_declarator"), Tok(")")>>)),
   initializer |-> Or(<<Rule("assignment_expr"),
                        Node("brace", <<2>>, <<Tok("{"), Rule("initializer_list"), Opt(Tok(",")), Tok("}")>>)>>),
   initializer_list |-> CommaList(Node("element", <<1, 2>>,
                          <<Opt(Part(1, <<List(Rule("designator")), Tok("=")>>)), Rule("initializer")>>)),
   designator |-> Or(<<Node("[]", <<2>>, <<Tok("["), Rule("expr"), Tok("]")>>), Node(".", <<2>>, <<Tok("."), Name>>)>>)]

StatementRules ==
  [statement |-> Or(<<Rule("labeled_statement"), Rule("compound_statement"), Rule("jump_statement"),
                      Rule("selection_statement"), Rule("iteration_statement"), Rule("expr_statement")>>),
   labeled_statement |-> Or(<<Node("label", <<1, 3>>, <<Hand("identifier"), Tok(":"), Rule("statement")>>),
                              Node("case", <<2, 4>>, <<Keyword("case"), Rule("expr"), Tok(":"), Rule("statement")>>)>>),
   compound_statement |-> Node("compound", <<2>>, <<Tok("{"), List(Or(<<Rule("decl"), Rule("statement")>>)), Tok("}")>>),
   expr_statement |-> Node("expr", <<1>>, <<Opt(Rule("expr")), Tok(";")>>),
   selection_statement |->
     Or(<<Node("if", <<3, 5, 6>>, <<Keyword("if"), Tok("("), Rule("expr"), Tok(")"), Rule("statement"),
                                   Opt(Part(2, <<Keyword("else"), Rule("statement")>>))>>),
          Node("switch", <<3, 5>>, <<Keyword("switch"), Tok("("), Rule("expr"), Tok(")"), Rule("statement")>>)>>),
   iteration_statement |->
     Or(<<Node("while", <<3, 5>>, <<Keyword("while"), Tok("("), Rule("expr"), Tok(")"), Rule("statement")>>),
          Node("do", <<2, 5>>, <<Keyword("do"), Rule("statement"), Keyword("while"), Tok("("), Rule("expr"), Tok(")"), Tok(";")>>),
          Node("for", <<3, 5, 7, 9>>, <<Keyword("for"), Tok("("), Opt(Rule("expr")), Tok(";"), Opt(Rule("expr")), Tok(";"),
                                       Opt(Rule("expr")), Tok(")"), Rule("statement")>>),
          Node("for_decl", <<3, 4, 6, 8>>, <<Keyword("for"), Tok("("), Rule("decl"), Opt(Rule("expr")), Tok(";"),
                                            Opt(Rule("expr")), Tok(")"), Rule("statement")>>)>>),
   jump_statement |-> Or(<<Node("goto", <<2>>, <<Keyword("goto"), Hand("identifier"), Tok(";")>>),
                           Node("continue", <<>>, <<Keyword("continue"), Tok(";")>>),
                           Node("break", <<>>, <<Keyword("break"), Tok(";")>>),
                           Node("return", <<2>>, <<Keyword("return"), Opt(Rule("expr")), Tok(";")>>)>>)]

ExprRules ==
  [primary_expr |-> Or(<<Hand("identifier"), Node("constant", <<1>>, <<[op |-> "literal"]>>),
                         Part(2, <<Tok("("), Rule("expr"), Tok(")")>>)>>),
   postfix_expr |->
     Or(<<Node("va_arg", <<3, 5>>, <<Keyword("__builtin_va_arg"), Tok("("), Rule("assignment_expr"), Tok(","),
                                    Rule("type_name"), Tok(")")>>),
          Fold("postfix", Rule("primary_expr"),
               Or(<<Node("index", <<2>>, <<Tok("["), Rule("expr"), Tok("]")>>),
                    Node("call", <<2>>, <<Tok("("), CommaList(Rule("assignment_expr")), Tok(")")>>),
                    Node("dot", <<2>>, <<Tok("."), Name>>), Node("arrow", <<2>>, <<Tok("->"), Name>>),
                    Node("post++", <<>>, <<Tok("++")>>), Node("post--", <<>>, <<Tok("--")>>)>>)),
          Node("literal", <<2, 5>>, <<Tok("("), Rule("type_name"), Tok(")"), Tok("{"), Rule("initializer_list"),
                                     Opt(Tok(",")), Tok("}")>>)>>),
   unary_expr |->
     Or(<<Rule("postfix_expr"), Node("unary", <<1, 2>>, <<Tok("++"), Rule("unary_expr")>>),
          Node("unary", <<1, 2>>, <<Tok("--"), Rule("unary_expr")>>),
          Node("unary", <<1, 2>>, <<Toks(<<"&", "*", "+", "-", "~", "!">>), Rule("cast_expr")>>),
          Node("sizeof_expr", <<2>>, <<Keyword("sizeof"), Rule("unary_expr")>>),
          Node("sizeof_type", <<3>>, <<Keyword("sizeof"), Tok("("), Rule("type_name"), Tok(")")>>)>>),
   cast_expr |-> Or(<<Rule("unary_expr"),
                      Node("cast", <<2, 4>>, <<Tok("("), Rule("type_name"), Tok(")"), Rule("cast_expr")>>)>>),
   multiplicative_expr |-> Binary(<<"*", "/", "%">>, "cast_expr"),
   additive_expr |-> Binary(<<"+", "-">>, "multiplicative_expr"),
   shift_expr |-> Binary(<<"<<", ">>">>, "additive_expr"),
   relational_expr |-> Binary(<<"<", ">", "<=", ">=">>, "shift_expr"),
   equality_expr |-> Binary(<<"==", "!=">>, "relational_expr"),
   and_expr |-> Binary(<<"&">>, "equality_expr"),
   xor_expr |-> Binary(<<"^">>, "and_expr"),
   or_expr |-> Binary(<<"|">>, "xor_expr"),
   logical_and_expr |-> Binary(<<"&&">>, "or_expr"),
   logical_or_expr |-> Binary(<<"||">>, "logical_and_expr"),
   conditional_expr |-> Or(<<Node("?:", <<1, 3, 5>>, <<Rule("logical_or_expr"), Tok("?"), Rule("expr"), Tok(":"),
                                                     Rule("conditional_expr")>>),
                             Rule("logical_or_expr")>>),
   assignment_expr |-> Fold("binary", Rule("conditional_expr"),
                            Node("tail", <<1, 2>>, <<Rule("assignment_operator"), Rule("assignment_expr")>>)),
   assignment_operator |-> Toks(<<"=", "*=", "/=", "%=", "+=", "-=", "<<=", ">>=", "&=", "^=", "|=">>),
   expr |-> Binary(<<",">>, "assignment_expr")]

Rules == DeclRules @@ StatementRules @@ ExprRules

-----------------------------------------------------------------------------
(* What a parser function leaves behind: its result, the position and the   *)
(* type table, which nothing takes back when the caller tries an            *)
(* alternative.                                                             *)
Success(at, tab, val) == [ok |-> TRUE, pos |-> at, types |-> tab, val |-> val]
Failure(at, tab) == [ok |-> FALSE, pos |-> at, types |-> tab, val |-> Null]

Inside(at) == at <= input.cut
Current(at) == IF Inside(at) THEN input.text[at] ELSE input.beyond
One(good, at, tab) == IF good THEN Success(at + 1, tab, <<Current(at)>>) ELSE Failure(at, tab)

(* The name that a declarator declares, for the type table. *)
RECURSIVE declarator_name(_)
declarator_name(d) == IF d[1] = "ident" THEN d[2][1] ELSE declarator_name(d[Len(d)])

IsTypedef(specs) == \E k \in DOMAIN specs : specs[k] = <<"storage", <<"typedef">>>>
TypesAfter(tab, node) ==
  IF node[1] = "decl" /\ IsTypedef(node[2]) THEN tab \cup {declarator_name(node[3][k][2]) : k \in DOMAIN node[3]}
  ELSE tab

(* build_next_pointer, build_pointee_declarator, build_terminal_pointer:   *)
(* the first asterisk is the outermost node.                               *)
Pointee(stars, inner) == FoldRight(LAMBDA star, d : <<"pointer", star[2], d>>, stars, inner)

Build(kind, keep, vals) ==
  IF kind = "pointee" THEN Pointee(vals[1], IF Len(vals) = 2 THEN vals[2] ELSE Null)
  ELSE <<kind>> \o [k \in DOMAIN keep |-> vals[keep[k]]]

\* Mutant: operators of one level group to the right.
FoldIn_Right(build, curr, next) ==
  IF build = "binary" /\ curr[1] = "binary" THEN <<"binary", curr[2], curr[3], <<"binary", next[2][1], curr[4], next[3]>>>>
  ELSE IF build = "binary" THEN <<"binary", next[2][1], curr, next[3]>> ELSE <<next[1], curr>> \o Tail(next)

(* build_binary_head and build_postfix_expr *)
FoldIn(build, curr, next) ==
  IF build = "binary" THEN <<"binary", next[2][1], curr, next[3]>> ELSE <<next[1], curr>> \o Tail(next)

RECURSIVE Parse(_, _, _), ParseSeq(_, _, _, _), ParseAlts(_, _, _, _), ParseFold(_, _), ParseList(_, _, _, _),
          ArrayTail(_, _, _)

Parse(p, at, tab) ==
  CASE p.op \in {"tok", "keyword"} -> One(Inside(at) /\ Current(at) = p.text, at, tab)
    [] p.op = "symbol" -> One(Inside(at) /\ Symbol(Current(at)), at, tab)
    [] p.op = "literal" -> One(Inside(at) /\ Current(at) \in Literals, at, tab)
    [] p.op = "named_type" -> One(Inside(at) /\ Symbol(Current(at)) /\ Current(at) \in tab, at, tab)
    [] p.op = "identifier" ->
         IF Symbol(Current(at)) /\ Current(at) # "sizeof" /\ Current(at) \notin tab
         THEN Success(at + 1, tab, <<"id", Current(at)>>) ELSE Failure(at, tab)
    [] p.op = "rule" -> Parse(Rules[p.name], at, tab)
    [] p.op = "opt" -> LET r == Parse(p.p, at, tab) IN Success(r.pos, r.types, r.val)
    [] p.op = "or" -> ParseAlts(p.alts, 1, at, tab)
    [] p.op = "seq" ->
         LET r == ParseSeq(p.parts, at, tab, <<>>)
         IN  IF ~r.ok THEN Failure(at, r.types)
             ELSE LET node == Build(p.kind, p.keep, r.val) IN Success(r.pos, TypesAfter(r.types, node), node)
    [] p.op = "part" ->
         LET r == ParseSeq(p.parts, at, tab, <<>>)
         IN  IF r.ok THEN Success(r.pos, r.types, r.val[p.keep]) ELSE Failure(at, r.types)
    [] p.op = "fold" -> LET r == Parse(p.p, at, tab) IN IF r.ok THEN ParseFold(p, r) ELSE Failure(at, r.types)
    [] p.op = "list" ->
         LET r == Parse(p.p, at, tab)
         IN  IF r.ok THEN ParseList(p, r.pos, r.types, <<r.val>>) ELSE [r EXCEPT !.ok = p.empty]
    [] p.op \in {"direct_declarator", "direct_abstract_declarator"} ->
         LET r == Parse(Rule(p.op \o "_head"), at, tab)
             head == IF r.val = Null THEN <<"ident", Null>> ELSE r.val
         IN  IF ~r.ok THEN r
             ELSE IF Current(r.pos) = "[" THEN ArrayTail(<<head>>, r, r.pos)
             ELSE IF Current(r.pos) = "(" THEN
               LET ps == Parse(Rule("parameter_list"), r.pos + 1, r.types)
               IN  IF Current(ps.pos) = ")" THEN Success(ps.pos + 1, ps.types, <<"function_of", ps.val, head>>)
                   ELSE Failure(r.pos, ps.types)
             ELSE Success(r.pos, r.types, head)

(* revert: a sequence that fails starts over where it began. *)
ParseSeq(ps, at, tab, vals) ==
  IF ps = <<>> THEN Success(at, tab, vals)
  ELSE LET r == Parse(Head(ps), at, tab)
       IN  IF r.ok THEN ParseSeq(Tail(ps), r.pos, r.types, Append(vals, r.val)) ELSE r

ParseAlts(ps, k, at, tab) ==
  IF k > Len(ps) THEN Failure(at, tab)
  ELSE LET r == Parse(ps[k], at, tab) IN IF r.ok THEN r ELSE ParseAlts(ps, k + 1, at, r.types)

ParseFold(p, curr) ==
  LET r == Parse(p.next, curr.pos, curr.types)
  IN  IF r.ok THEN ParseFold(p, [r EXCEPT !.val = FoldIn(p.build, curr.val, r.val)])
      ELSE [curr EXCEPT !.types = r.types]

(* A separator that no element follows stays read. *)
ParseList(p, at, tab, vals) ==
  LET s == ParseSeq(p.sep, at, tab, <<>>)
      r == Parse(p.p, s.pos, s.types)
  IN  IF ~s.ok THEN Success(at, s.types, vals)
      ELSE IF r.ok THEN ParseList(p, r.pos, r.types, Append(vals, r.val))
      ELSE Success(s.pos, r.types, vals)

(* The loop of direct_declarator_tail: dims is the head and the lengths     *)
(* read so far; each array is the element of the one before it.             *)
ArrayTail(dims, r, start) ==
  IF Current(r.pos) # "[" THEN
    Success(r.pos, r.types, FoldRight(LAMBDA len, d : <<"array", len, d>>, Tail(dims), Head(dims)))
  ELSE LET len == Parse(Rule("expr"), r.pos + 1, r.types)
       IN  IF Current(len.pos) = "]" THEN ArrayTail(Append(dims, len.val), [len EXCEPT !.pos = @ + 1], start)
           ELSE Failure(start, len.types)

-----------------------------------------------------------------------------
(* parse_toplevel adds one external declaration after the other; parse_expr *)
(* reads one expression, for #if, and knows no type.                        *)
Init ==
  /\ input \in Inputs
  /\ pos = 1 /\ tree = <<>> /\ verdict = "parsing"
  /\ types = IF input.entry = "expr" THEN {} ELSE builtin_types

Verdict(at) == IF at = input.cut + 1 THEN "accepted" ELSE "rejected"

ParseExternal ==
  /\ verdict = "parsing" /\ input.entry = "toplevel"
  /\ \E r \in {Parse(Rule("external_decl"), pos, types)} :
       /\ pos' = r.pos /\ types' = r.types
       /\ IF r.ok THEN tree' = Append(tree, r.val) /\ UNCHANGED verdict
          ELSE verdict' = Verdict(r.pos) /\ UNCHANGED tree
  /\ UNCHANGED input

ParseExpr ==
  /\ verdict = "parsing" /\ input.entry = "expr"
  /\ \E r \in {Parse(Rule("expr"), pos, types)} :
       pos' = r.pos /\ types' = r.types /\ tree' = r.val /\ verdict' = Verdict(r.pos)
  /\ UNCHANGED input

Finished == verdict # "parsing" /\ UNCHANGED vars

Next == ParseExternal \/ ParseExpr \/ Finished

Spec == Init /\ [][Next]_vars

-----------------------------------------------------------------------------
(* What C says: the text of an expression with the parentheses that         *)
(* precedence and associativity ask for (C99 6.5), of a statement (6.8) and *)
(* of a declaration of a name with a type (6.7.5), int, char or a typedef.  *)
Levels == <<{","}, {"=", "*=", "/=", "%=", "+=", "-=", "<<=", ">>=", "&=", "^=", "|="}, {"?:"}, {"||"}, {"&&"}, {"|"},
            {"^"}, {"&"}, {"==", "!="}, {"<", ">", "<=", ">="}, {"<<", ">>"}, {"+", "-"}, {"*", "/", "%"}>>
BinaryLevel(op) == CHOOSE k \in DOMAIN Levels : op \in Levels[k]
CastLevel == 14
UnaryLevel == 15
PostfixLevel == 16

Level(e) ==
  CASE e[1] = "binary" -> BinaryLevel(e[2])
    [] e[1] = "?:" -> 3
    [] e[1] = "cast" -> CastLevel
    [] e[1] \in {"unary", "sizeof_expr", "sizeof_type"} -> UnaryLevel
    [] e[1] \in {"index", "call", "dot", "arrow", "post++", "post--", "literal"} -> PostfixLevel
    [] OTHER -> PostfixLevel + 1

RECURSIVE TypeText(_, _), ParamTexts(_, _)
TypeText(t, inner) ==
  CASE t[1] = "pointer" -> TypeText(t[2], IF t[2][1] \in {"array", "function"} THEN <<"(", "*">> \o inner \o <<")">>
                                         ELSE <<"*">> \o inner)
    [] t[1] = "array" -> TypeText(t[3], inner \o <<"[">> \o (IF t[2] = Null THEN <<>> ELSE t[2][2]) \o <<"]">>)
    [] t[1] = "function" ->
         TypeText(t[2], inner \o <<"(">> \o (IF t[3] = <<>> /\ ~t[4] THEN <<"void">> ELSE ParamTexts(t[3], t[4])) \o <<")">>)
    [] OTHER -> <<t[1]>> \o inner

Commas(texts) == [k \in 1..(2 * Len(texts) - 1) |-> IF k % 2 = 1 THEN texts[(k + 1) \div 2] ELSE <<",">>]
ParamTexts(ts, variadic) ==
  FlattenSeq(Commas([k \in DOMAIN ts |-> TypeText(ts[k], IF ts[k][1] \in {"array", "function"} THEN <<"p">> ELSE <<>>)] \o (IF variadic THEN <<<<"...">>>> ELSE <<>>)))

(* What a declaration or a type name of the tree names; a typedef T is a    *)
(* type of its own here.                                                    *)
Named(specs, d) == decl_to_cdecl(decl_specifier_list_to_c_type(specs, [n \in {"T"} |-> <<n>>]), d, [n \in {"T"} |-> <<n>>])
TypeNameText(tn) == TypeText(Named(tn[2], tn[3]).type, <<>>)

Enclosed(needed, words) == IF needed THEN <<"(">> \o words \o <<")">> ELSE words

RECURSIVE ExprText(_, _), Bare(_)
ExprText(e, level) == Enclosed(Level(e) < level, Bare(e))

(* Assignments group to the right, other binary operators to the left. *)
Bare(e) ==
  CASE e[1] = "id" -> <<e[2]>>
    [] e[1] = "constant" -> e[2]
    [] e[1] = "binary" ->
         LET n == BinaryLevel(e[2])
         IN  ExprText(e[3], IF n = 2 THEN UnaryLevel ELSE n) \o <<e[2]>> \o ExprText(e[4], IF n = 2 THEN n ELSE n + 1)
    [] e[1] = "?:" -> ExprText(e[2], 4) \o <<"?">> \o ExprText(e[3], 1) \o <<":">> \o ExprText(e[4], 3)
    [] e[1] = "cast" -> <<"(">> \o TypeNameText(e[2]) \o <<")">> \o ExprText(e[3], CastLevel)
    [] e[1] = "unary" -> e[2] \o ExprText(e[3], IF e[2][1] \in {"++", "--"} THEN UnaryLevel ELSE CastLevel)
    [] e[1] = "sizeof_expr" -> <<"sizeof">> \o ExprText(e[2], UnaryLevel)
    [] e[1] = "sizeof_type" -> <<"sizeof", "(">> \o TypeNameText(e[2]) \o <<")">>
    [] e[1] = "index" -> ExprText(e[2], PostfixLevel) \o <<"[">> \o ExprText(e[3], 1) \o <<"]">>
    [] e[1] = "call" -> ExprText(e[2], PostfixLevel) \o <<"(">>
                          \o FlattenSeq(Commas([k \in DOMAIN e[3] |-> ExprText(e[3][k], 2)])) \o <<")">>
    [] e[1] \in {"dot", "arrow"} ->
         ExprText(e[2], PostfixLevel) \o <<IF e[1] = "dot" THEN "." ELSE "->">> \o e[3]
    [] e[1] \in {"post++", "post--"} -> ExprText(e[2], PostfixLevel) \o <<IF e[1] = "post++" THEN "++" ELSE "--">>

(* An else belongs to the nearest if. *)
RECURSIVE EndsOpen(_), StatementText(_)
EndsOpen(s) ==
  CASE s[1] = "if" -> s[4] = Null \/ EndsOpen(s[4])
    [] s[1] \in {"while", "for", "label", "case", "switch"} -> EndsOpen(s[Len(s)])
    [] OTHER -> FALSE

OptText(e) == IF e = Null THEN <<>> ELSE ExprText(e, 1)
InBrackets(e) == <<"(">> \o ExprText(e, 1) \o <<")">>
StatementText(s) ==
  CASE s[1] = "expr" -> OptText(s[2]) \o <<";">>
    [] s[1] = "compound" -> <<"{">> \o FlattenSeq([k \in DOMAIN s[2] |-> StatementText(s[2][k])]) \o <<"}">>
    [] s[1] = "if" -> <<"if">> \o InBrackets(s[2]) \o StatementText(s[3])
                        \o (IF s[4] = Null THEN <<>> ELSE <<"else">> \o StatementText(s[4]))
    [] s[1] \in {"while", "switch"} -> <<s[1]>> \o InBrackets(s[2]) \o StatementText(s[3])
    [] s[1] = "do" -> <<"do">> \o StatementText(s[2]) \o <<"while">> \o InBrackets(s[3]) \o <<";">>
    [] s[1] = "for" -> <<"for", "(">> \o OptText(s[2]) \o <<";">> \o OptText(s[3]) \o <<";">> \o OptText(s[4])
                         \o <<")">> \o StatementText(s[5])
    [] s[1] = "label" -> <<s[2][2], ":">> \o StatementText(s[3])
    [] s[1] = "case" -> <<"case">> \o ExprText(s[2], 3) \o <<":">> \o StatementText(s[3])
    [] s[1] = "goto" -> <<"goto", s[2][2], ";">>
    [] s[1] \in {"break", "continue"} -> <<s[1], ";">>
    [] s[1] = "return" -> <<"return">> \o OptText(s[2]) \o <<";">>
    [] s[1] = "decl" -> LET c == Named(s[2], s[3][1][2]) IN TypeText(c.type, c.name) \o <<";">>

StatementsText(items) == FlattenSeq([k \in DOMAIN items |-> StatementText(items[k])])

(* A type as the parser of declarations sees it: T is char, and a parameter *)
(* of array type is a pointer (C99 6.7.5.3).                                *)
RECURSIVE Adjusted(_)
Adjusted(t) ==
  CASE t[1] = "pointer" -> <<"pointer", Adjusted(t[2])>>
    [] t[1] = "array" -> <<"array", t[2], Adjusted(t[3])>>
    [] t[1] = "function" ->
         <<"function", Adjusted(t[2]),
           [k \in DOMAIN t[3] |-> IF t[3][k][1] = "array" THEN <<"pointer", Adjusted(t[3][k][3])>> ELSE Adjusted(t[3][k])],
           t[4]>>
    [] OTHER -> IF t = <<"T">> THEN <<"char">> ELSE t

(* What the tree of an input says: for declarations the names and types, for *)
(* a function its body.                                                      *)
Meaning ==
  CASE input.about = "types" -> Declared(tree).objects
    [] input.about = "body" -> tree[Len(tree)][5][2]
    [] input.about \in {"expr", "tree"} -> tree

Whole == input.cut = Len(input.text)

(***************************************************************************)
(* A complete text is accepted, and as what C reads in it: operators       *)
(* group by precedence, a parenthesised type name is a cast, an else       *)
(* joins the nearest if, declarators give the type they mirror.  A text    *)
(* that ends early is rejected, whatever lies in memory behind its last    *)
(* token.  (The lines of #if are the subject of Conditions.)               *)
(***************************************************************************)
ParsedAsMeant ==
  verdict # "parsing" /\ input.about \notin {"condition", "loose"} =>
    /\ verdict = "accepted" <=> Whole
    /\ Whole => Meaning = input.meant
=============================================================================
