----------------------------- MODULE Conditions -----------------------------
(***************************************************************************)
(* The condition of #if and #elif, src/src/syntax/preprocess.c:            *)
(* eval_pp_condition reads the line and answers defined, macroexpand       *)
(* replaces the macros, parse_expr parses what is left (Parser) and        *)
(* eval_pp_expr evaluates the tree, all of it as unsigned long, here of    *)
(* Width bits.                                                             *)
(*                                                                         *)
(* A line is an input of the parser with entry "line", the macros that are *)
(* defined (env, object-like, with bodies that hold no macro) and the tree *)
(* C reads in it, <<>> if none.  "@" is a character the lexer refuses, and *)
(* the tree is that of what stands before it.  Lines that are "loose"      *)
(* rather than a "condition" use a beginning of the word defined, or       *)
(* defined of no name, which C refuses and the code does not.              *)
(***************************************************************************)
EXTENDS Integers, Sequences, FiniteSetsExt, SequencesExt, Parser

CONSTANTS IfLines, \* the lines
          Width    \* the bits of unsigned long

VARIABLE cond      \* [at, chars, result]: token read next, condition_chars, outcome

conditionVars == <<vars, cond>>

Undecided == [at |-> 1, chars |-> <<>>, result |-> "none"]

ConditionInit ==
  /\ input \in IfLines
  /\ pos = 1 /\ types = {} /\ tree = <<>> /\ verdict = "parsing"
  /\ cond = Undecided

-----------------------------------------------------------------------------
Reading == input.entry = "line" /\ cond.result = "none"
Peek(k) == IF k <= Len(input.text) THEN input.text[k] ELSE "newline"

(* strneq compares as many characters as the symbol has: any beginning of   *)
(* the word, here "def", is taken for it.                                   *)
IsDefined(tok) == tok \in {"defined", "def"}

Finish(result) == cond' = [cond EXCEPT !.result = result] /\ UNCHANGED vars

(* read_symbol reads nothing when no name follows; that is not a macro. *)
ReadDefined ==
  LET bracketed == Peek(cond.at + 1) = "("
      start == IF bracketed THEN cond.at + 2 ELSE cond.at + 1
      named == Peek(start) # "newline" /\ Symbol(Peek(start))
      end == IF named THEN start + 1 ELSE start
      answer == IF named /\ Peek(start) \in DOMAIN input.env THEN "1" ELSE "0"
  IN  /\ Reading /\ IsDefined(Peek(cond.at))
      /\ IF bracketed /\ Peek(end) # ")" THEN Finish("error")
         ELSE /\ cond' = [cond EXCEPT !.at = IF bracketed THEN end + 1 ELSE end, !.chars = Append(@, answer)]
              /\ UNCHANGED vars

ReadToken ==
  /\ Reading /\ Peek(cond.at) # "newline" /\ ~IsDefined(Peek(cond.at))
  /\ cond' = [cond EXCEPT !.at = @ + 1, !.chars = Append(@, Peek(cond.at))]
  /\ UNCHANGED vars

(* macroexpand, and lex, whose result is ignored: what it made of the line *)
(* before a character it refuses is parsed.                                *)
Expanded(tokens) == FlattenSeq([k \in DOMAIN tokens |-> IF tokens[k] \in DOMAIN input.env THEN input.env[tokens[k]] ELSE <<tokens[k]>>])

Lexed(tokens) == LET bad == SelectInSeq(tokens, LAMBDA tok : tok = "@")
                 IN  IF bad = 0 THEN tokens ELSE SubSeq(tokens, 1, bad - 1)

ExpandLine ==
  LET tokens == Lexed(Expanded(cond.chars))
  IN  /\ Reading /\ Peek(cond.at) = "newline"
      /\ input' = [input EXCEPT !.entry = "expr", !.text = tokens, !.cut = Len(tokens)]
      /\ UNCHANGED <<pos, types, tree, verdict, cond>>

-----------------------------------------------------------------------------
(* eval_pp_expr: a value, *okay, and whether the machine stopped.  Shifts   *)
(* by the width or more, which C leaves open, count as that.                *)
Result(v) == [v |-> v % 2^Width, okay |-> TRUE, trap |-> FALSE]
Truth(b) == IF b THEN 1 ELSE 0
Unsupported == [v |-> 1, okay |-> FALSE, trap |-> FALSE]

Numbers == "0" :> 0 @@ "1" :> 1 @@ "2" :> 2 @@ "3" :> 3

UnaryOps == {"+", "-", "~", "!"}
Unary1(op, a) ==
  CASE op = "+" -> a [] op = "-" -> -a [] op = "~" -> 2^Width - 1 - a [] op = "!" -> Truth(a = 0)

Traps(op, b) == (op \in {"/", "%"} /\ b = 0) \/ (op \in {"<<", ">>"} /\ b >= Width)

BitsOf(x) == {k \in 0..(Width - 1) : (x \div 2^k) % 2 = 1}
FromBits(ks) == MapThenSumSet(LAMBDA k : 2^k, ks)

BinaryOps == {"*", "/", "%", "+", "-", "<<", ">>", "<", ">", "<=", ">=", "==", "!=", "&", "^", "|"}
Binary2(op, a, b) ==
  CASE op = "*" -> a * b [] op = "/" -> a \div b [] op = "%" -> a % b
    [] op = "+" -> a + b [] op = "-" -> a - b
    [] op = "<<" -> a * 2^b [] op = ">>" -> a \div 2^b
    [] op = "<" -> Truth(a < b) [] op = ">" -> Truth(a > b)
    [] op = "<=" -> Truth(a <= b) [] op = ">=" -> Truth(a >= b)
    [] op = "==" -> Truth(a = b) [] op = "!=" -> Truth(a # b)
    [] op = "&" -> FromBits(BitsOf(a) \cap BitsOf(b)) [] op = "|" -> FromBits(BitsOf(a) \cup BitsOf(b))
    [] op = "^" -> FromBits((BitsOf(a) \cup BitsOf(b)) \ (BitsOf(a) \cap BitsOf(b)))

Both(a, b, v) == [v |-> v % 2^Width, okay |-> a.okay /\ b.okay, trap |-> a.trap \/ b.trap]

(* The right operand of && and || is evaluated when C's own does. *)
Logical_Both(op, a, b) == Both(a, b, Truth(IF op = "&&" THEN a.v # 0 /\ b.v # 0 ELSE a.v # 0 \/ b.v # 0))

Logical(op, a, b) ==
  IF (op = "&&") = (a.v = 0) THEN [a EXCEPT !.v = Truth(a.v # 0)] ELSE Both(a, b, Truth(b.v # 0))

RECURSIVE eval_pp_expr(_)
eval_pp_expr(e) ==
  CASE e[1] = "constant" /\ e[2][1] \in DOMAIN Numbers -> Result(Numbers[e[2][1]])
    [] e[1] = "unary" /\ e[2][1] \in UnaryOps ->
         LET a == eval_pp_expr(e[3]) IN [a EXCEPT !.v = Unary1(e[2][1], a.v) % 2^Width]
    [] e[1] = "binary" /\ e[2] \in BinaryOps ->
         LET a == eval_pp_expr(e[3])
             b == eval_pp_expr(e[4])
         IN  IF a.trap \/ b.trap \/ Traps(e[2], b.v) THEN [Both(a, b, 0) EXCEPT !.trap = TRUE]
             ELSE Both(a, b, Binary2(e[2], a.v, b.v))
    [] e[1] = "binary" /\ e[2] \in {"&&", "||"} -> Logical(e[2], eval_pp_expr(e[3]), eval_pp_expr(e[4]))
    [] e[1] = "binary" /\ e[2] = "," -> eval_pp_expr(e[4])
    [] e[1] = "?:" ->
         LET a == eval_pp_expr(e[2])
             b == IF a.v # 0 THEN eval_pp_expr(e[3]) ELSE eval_pp_expr(e[4])
         IN  Both(a, b, b.v)
    [] OTHER -> Unsupported

(* parse_expr only asks whether it stands behind the last token, so that   *)
(* of no tokens it may accept nothing at all, a null pointer.              *)
Decide ==
  /\ input.entry = "expr" /\ input.about # "expr" /\ verdict # "parsing" /\ cond.result = "none"
  /\ IF verdict = "rejected" THEN Finish("error")
     ELSE IF tree = Null THEN Finish("crash")
     ELSE \E r \in {eval_pp_expr(tree)} :
            Finish(IF r.trap THEN "trap" ELSE IF ~r.okay THEN "error" ELSE IF r.v # 0 THEN "true" ELSE "false")

(* The parser's steps are those of Parser, which also parses its own inputs. *)
ParserStep == Next /\ UNCHANGED cond

Decided == cond.result # "none" /\ UNCHANGED conditionVars

ConditionNext == ReadDefined \/ ReadToken \/ ExpandLine \/ ParserStep \/ Decide \/ Decided

-----------------------------------------------------------------------------
(* What C says (C99 6.10.1, 6.6): the value of the tree in intmax_t, where  *)
(* macros gives the trees of macros and of uses of defined, and any other   *)
(* name is 0.  defined: whether C gives it a value; negative: an operation  *)
(* whose result depends on the sign met a negative operand; named: a name   *)
(* that is no macro was evaluated.                                          *)
Value(v) == [v |-> v, defined |-> v \in (-(2^(Width - 1)))..(2^(Width - 1) - 1), negative |-> FALSE, named |-> FALSE]
With(a, b, c) == [c EXCEPT !.defined = @ /\ a.defined /\ b.defined, !.negative = @ \/ a.negative \/ b.negative,
                           !.named = @ \/ a.named \/ b.named]

SignDependent == {"/", "%", ">>", "<", ">", "<=", ">="}
NoValue == [Value(0) EXCEPT !.defined = FALSE]

CBinary(op, a, b) ==
  IF op \in SignDependent /\ (a.v < 0 \/ b.v < 0) THEN [Value(0) EXCEPT !.negative = TRUE]
  ELSE IF Traps(op, b.v) \/ (op = "<<" /\ (a.v < 0 \/ b.v < 0)) THEN NoValue
  ELSE IF op \in {"&", "^", "|"} THEN
    LET bits == Binary2(op, a.v % 2^Width, b.v % 2^Width)
    IN  Value(IF bits >= 2^(Width - 1) THEN bits - 2^Width ELSE bits)
  ELSE Value(Binary2(op, a.v, b.v))

RECURSIVE CValue(_, _)
CValue(e, macros) ==
  CASE e[1] = "constant" -> IF e[2][1] \in DOMAIN Numbers THEN Value(Numbers[e[2][1]]) ELSE NoValue
    [] e[1] = "id" -> IF e[2] \in DOMAIN macros THEN CValue(macros[e[2]], macros) ELSE [Value(0) EXCEPT !.named = TRUE]
    [] e[1] = "unary" ->
         LET a == CValue(e[3], macros)
         IN  CASE e[2][1] = "~" -> With(a, a, Value(-a.v - 1))
               [] e[2][1] \in UnaryOps \ {"~"} -> With(a, a, Value(Unary1(e[2][1], a.v)))
               [] OTHER -> NoValue
    [] e[1] = "binary" /\ e[2] \in {"&&", "||"} ->
         LET a == CValue(e[3], macros)
             b == CValue(e[4], macros)
         IN  IF (e[2] = "&&") = (a.v = 0) THEN With(a, a, Value(Truth(a.v # 0))) ELSE With(a, b, Value(Truth(b.v # 0)))
    [] e[1] = "binary" /\ e[2] \in BinaryOps ->
         LET a == CValue(e[3], macros)
             b == CValue(e[4], macros)
         IN  IF ~a.defined \/ ~b.defined THEN NoValue ELSE With(a, b, CBinary(e[2], a, b))
    [] e[1] = "?:" ->
         LET a == CValue(e[2], macros)
             b == CValue(IF a.v # 0 THEN e[3] ELSE e[4], macros)
         IN  With(a, b, b)
    [] OTHER -> NoValue

(***************************************************************************)
(* A condition that is no expression is refused, but for one of no tokens: *)
(* there eval_pp_expr may follow a null pointer.  Of the others, where C   *)
(* gives a value and no sign matters, the section is taken exactly if C    *)
(* takes it: parts that &&, || and ?: do not evaluate never decide or      *)
(* refuse, defined sees the names before they are replaced, and a name     *)
(* that is no macro, which the code does not know what to do with, never   *)
(* lets the condition be decided the other way.  A line that does not lex, *)
(* which C refuses, is decided as if it ended before the character.        *)
(***************************************************************************)
ConditionRight ==
  cond.result # "none" /\ input.about = "condition" =>
    IF input.meant = <<>> THEN cond.result = "error" \/ (cond.result = "crash" /\ input.text = <<>>)
    ELSE LET c == CValue(input.meant, input.macros)
         IN  c.defined /\ ~c.negative =>
               \/ cond.result = (IF c.v # 0 THEN "true" ELSE "false")
               \/ cond.result \in {"error", "trap"} /\ c.named
=============================================================================
