------------------------------- MODULE Lexer --------------------------------
(***************************************************************************)
(* The lexer, src/src/syntax/lex.c: one step per token of lex_aux, the     *)
(* literals with their values, the strings that lex joins in the end, and  *)
(* the types that c_type.c gives numbers.                                  *)
(*                                                                         *)
(* A text is a sequence of characters, as the preprocessor leaves it: no   *)
(* comments, no continued lines, and every quote closed.  A token is a     *)
(* tuple that starts with its kind; an integer is <<"int", value, type>>   *)
(* and a floating number <<"float", significand, exponent, radix, type>>,  *)
(* the arguments of double_from_decimal_exponent or ldexp.  Widths are     *)
(* scaled: int has IntBits bits, long and long long have WordBits, and the *)
(* significand stops growing at SignificandLimit (2^52 in the code).       *)
(***************************************************************************)
EXTENDS Integers, Sequences, SequencesExt, FiniteSetsExt

CONSTANTS LexTexts, IntBits, WordBits, SignificandLimit,
          MaxExponent   \* of ten that the tables hold (22 in the code)

VARIABLES chars,     \* the text
          cursor,   \* reader->position, from 1
          lexemes,  \* the tokens
          lexing    \* "running", "done", "failed", "aborted" or "spins"

lexVars == <<chars, cursor, lexemes, lexing>>

Ascii ==
  <<" ", "!", "\"", "#", "$", "%", "&", "'", "(", ")", "*", "+", ",", "-", ".", "/", "0", "1", "2", "3", "4", "5", "6", "7",
    "8", "9", ":", ";", "<", "=", ">", "?", "@", "A", "B", "C", "D", "E", "F", "G", "H", "I", "J", "K", "L", "M", "N", "O",
    "P", "Q", "R", "S", "T", "U", "V", "W", "X", "Y", "Z", "[", "\\", "]", "^", "_", "backquote", "a", "b", "c", "d", "e", "f", "g",
    "h", "i", "j", "k", "l", "m", "n", "o", "p", "q", "r", "s", "t", "u", "v", "w", "x", "y", "z", "{", "|", "}", "~">>
Code == [c \in ToSet(Ascii) \cup {"\n"} |-> IF c = "\n" THEN 10 ELSE 31 + CHOOSE k \in DOMAIN Ascii : Ascii[k] = c]
CharsIn(a, b) == {c \in DOMAIN Code : Code[c] \in Code[a]..Code[b]}

Octal == CharsIn("0", "7")
Decimal == CharsIn("0", "9")
Hex == Decimal \cup CharsIn("a", "f") \cup CharsIn("A", "F")
InitialIdent == CharsIn("a", "z") \cup CharsIn("A", "Z") \cup {"_"}
Ident == InitialIdent \cup Decimal

-----------------------------------------------------------------------------
(* The reader.  What stands at and behind the end is no character. *)
AtEnd(k) == k > Len(chars)
Ch(k) == IF AtEnd(k) THEN "EOF" ELSE chars[k]
Run(k, set) == Min({j \in k..(Len(chars) + 1) : Ch(j) \notin set})   \* where characters of set end

(* append_string_or_char_literal: the preprocessor lets a text pass when    *)
(* every quote is closed by the next one that no backslash stands before.   *)
RECURSIVE Closed(_, _, _)
Closed(t, k, quote) ==
  IF k > Len(t) THEN quote = ""
  ELSE IF quote = "" THEN Closed(t, k + 1, IF t[k] \in {"\"", "'"} THEN t[k] ELSE "")
  ELSE IF t[k] = quote THEN Closed(t, k + 1, "")
  ELSE Closed(t, IF t[k] = "\\" THEN k + 2 ELSE k + 1, quote)

LexInit ==
  /\ chars \in {t \in LexTexts : Closed(t, 1, "")}
  /\ cursor = 1 /\ lexemes = <<>> /\ lexing = "running"

At(set) == lexing = "running" /\ Ch(cursor) \in set
Emit(token, end) == lexemes' = Append(lexemes, token) /\ cursor' = end /\ UNCHANGED <<chars, lexing>>
Stop(how) == lexing' = how /\ UNCHANGED <<chars, cursor, lexemes>>

(* lex: adjacent strings become one, also after an error. *)
Joined(tokens) ==
  FoldLeft(LAMBDA done, t :
             IF done # <<>> /\ t[1] = "string" /\ Last(done)[1] = "string"
             THEN Append(Front(done), <<"string", Last(done)[2] \o t[2]>>) ELSE Append(done, t),
           <<>>, tokens)
Conclude(how) == lexing' = how /\ lexemes' = Joined(lexemes) /\ UNCHANGED <<chars, cursor>>

-----------------------------------------------------------------------------
(* Numbers *)
digits(radix) == CASE radix = 8 -> Octal [] radix = 10 -> Decimal [] radix = 16 -> Hex

char_to_digit(c) ==
  Code[c] - (IF c \in Decimal THEN Code["0"] ELSE IF c \in CharsIn("a", "f") THEN Code["a"] - 10 ELSE Code["A"] - 10)

Number(cs, radix) == FoldLeft(LAMBDA x, c : x * radix + char_to_digit(c), 0, cs)

(* read_numeric_suffix: a repeated suffix is reported and read on. *)
SuffixChars == {"u", "U", "l", "L", "f", "F"}
RECURSIVE read_numeric_suffix(_, _)
read_numeric_suffix(k, suffix) ==
  CASE Ch(k) \in {"u", "U"} -> read_numeric_suffix(k + 1, suffix \cup {"u"})
    [] Ch(k) \in {"f", "F"} -> read_numeric_suffix(k + 1, suffix \cup {"f"})
    [] Ch(k) \in {"l", "L"} -> IF Ch(k + 1) = Ch(k) THEN read_numeric_suffix(k + 2, suffix \cup {"ll"})
                               ELSE read_numeric_suffix(k + 1, suffix \cup {"l"})
    [] OTHER -> suffix

Bits(type) == IF type \in {"int", "unsigned int"} THEN IntBits ELSE WordBits
IsSigned(type) == type \in {"int", "long", "long long"}
AsSigned(v) == IF v >= 2^(WordBits - 1) THEN v - 2^WordBits ELSE v

value_fits_in_type(type, v) ==
  IF IsSigned(type) THEN AsSigned(v) \in -(2^(Bits(type) - 1))..(2^(Bits(type) - 1) - 1)
  ELSE Bits(type) = WordBits \/ AsSigned(v) \in 0..(2^Bits(type) - 1)

Candidates(suffix) ==
  LET u == "u" \in suffix
      l == "l" \in suffix
      ll == "ll" \in suffix
  IN  CASE suffix = {} -> <<"int", "long", "long long">>
        [] l /\ ll -> <<>>   \* the ASSERT
        [] u /\ ~l /\ ~ll -> <<"unsigned int", "unsigned long", "unsigned long long">>
        [] ~u /\ l /\ ~ll -> <<"long", "long long">>
        [] u /\ l /\ ~ll -> <<"unsigned long", "unsigned long long">>
        [] ~u /\ ll /\ ~l -> <<"long long">>
        [] u /\ ll /\ ~l -> <<"unsigned long long">>
        [] OTHER -> <<>>      \* UNREACHABLE, for f alone

(* The first candidate that holds the value; UNREACHABLE without one. *)
type_of_int_literal(v, suffix) ==
  LET fitting == SelectSeq(Candidates(suffix), LAMBDA t : value_fits_in_type(t, v))
  IN  IF fitting = <<>> THEN "aborted" ELSE fitting[1]

type_of_float_literal(suffix) ==
  IF suffix = {"f"} THEN "float" ELSE IF suffix = {"l"} THEN "long double" ELSE "double"

ExponentChars(radix) == CASE radix = 8 -> {} [] radix = 10 -> {"e", "E"} [] radix = 16 -> {"p", "P"}

(* classify_numeric_literal: where the digits start, their base, and what   *)
(* stands behind the first run of them.                                     *)
Radix(k) ==
  IF Ch(k) # "0" THEN 10 ELSE IF Ch(k + 1) = "x" THEN 16 ELSE IF Ch(k + 1) \in Decimal THEN 8 ELSE 10
DigitsStart(k) == IF Radix(k) = 16 THEN k + 2 ELSE k
IsFloat(k) ==
  Radix(k) # 8 /\ Ch(Run(DigitsStart(k), digits(Radix(k)))) \in {"."} \cup ExponentChars(Radix(k))

LexInt ==
  /\ At(Decimal) /\ ~IsFloat(cursor)
  /\ LET radix == Radix(cursor)
         start == DigitsStart(cursor)
         end == Run(start, digits(radix))
         v == Number(SubSeq(chars, start, end - 1), radix) % 2^WordBits
     IN  Emit(<<"int", v, type_of_int_literal(v, read_numeric_suffix(end, {}))>>, Run(end, SuffixChars))

(* The loop over the significand: digits that no longer fit only count.     *)
(* A second point takes the place of the first.                             *)
Significand(cs, radix) ==
  FoldLeft(LAMBDA s, c :
             IF c = "." THEN [s EXCEPT !.past = 0, !.point = TRUE]
             ELSE LET t == IF s.value < SignificandLimit THEN [s EXCEPT !.value = @ * radix + char_to_digit(c)]
                           ELSE [s EXCEPT !.dropped = @ + 1]
                  IN  [t EXCEPT !.past = IF s.point THEN @ + 1 ELSE 0],
           [value |-> 0, dropped |-> 0, point |-> FALSE, past |-> 0], cs)

\* Mutant: digits that were dropped no longer count.
Scale_ForgetsDropped(s, radix) == (IF radix = 10 THEN 1 ELSE 4) * (0 - s.past)

Scale(s, radix) == (IF radix = 10 THEN 1 ELSE 4) * (s.dropped - s.past)

(* read_float_literal at k *)
ReadFloat(k, start, radix) ==
  LET end == Run(start, digits(radix) \cup {"."})
      s == Significand(SubSeq(chars, start, end - 1), radix)
      hasExponent == Ch(end) \in ExponentChars(radix)
      signed == hasExponent /\ Ch(end + 1) \in {"+", "-"}
      first == IF signed THEN end + 2 ELSE end + 1
      last == IF hasExponent THEN Run(first, Decimal) ELSE end
      written == IF hasExponent THEN Number(SubSeq(chars, first, last - 1), 10) ELSE 0
      exponent == (IF signed /\ Ch(end + 1) = "-" THEN -written ELSE written) + Scale(s, radix)
      type == type_of_float_literal(read_numeric_suffix(last, {}))
  IN  IF radix = 10 /\ exponent \notin (-MaxExponent)..MaxExponent THEN Stop("aborted")
      ELSE Emit(<<"float", s.value, exponent, radix, type>>, Run(last, SuffixChars))

LexFloat == At(Decimal) /\ IsFloat(cursor) /\ ReadFloat(cursor, DigitsStart(cursor), Radix(cursor))
LexPointFloat == At({"."}) /\ Ch(cursor + 1) \in Decimal /\ ReadFloat(cursor, cursor, 10)

-----------------------------------------------------------------------------
(* Characters and strings *)
SimpleEscapes ==
  [c \in {"\\", "'", "\"", "a", "b", "f", "n", "r", "t", "v"} |->
     CASE c = "a" -> 7 [] c = "b" -> 8 [] c = "f" -> 12 [] c = "n" -> 10 [] c = "r" -> 13 [] c = "t" -> 9 [] c = "v" -> 11
       [] OTHER -> Code[c]]

Bad == [v |-> -1, end |-> 0]
InByte(v, end) == IF v > 255 THEN Bad ELSE [v |-> v, end |-> end]

(* read_char_in_literal with read_octal_number, which takes every digit     *)
(* there is, and read_hex_number.                                           *)
read_char_in_literal(k) ==
  LET octalEnd == Run(k + 2, Decimal)
      hexEnd == Run(k + 2, Hex)
  IN  CASE Ch(k) = "EOF" -> [v |-> 255, end |-> k + 1]
        [] Ch(k) # "\\" -> [v |-> Code[Ch(k)], end |-> k + 1]
        [] Ch(k + 1) \in DOMAIN SimpleEscapes -> [v |-> SimpleEscapes[Ch(k + 1)], end |-> k + 2]
        [] Ch(k + 1) = "0" -> IF octalEnd > Run(k + 2, Octal) THEN Bad
                              ELSE InByte(Number(SubSeq(chars, k + 2, octalEnd - 1), 8), octalEnd)
        [] Ch(k + 1) = "x" -> IF hexEnd = k + 2 THEN Bad ELSE InByte(Number(SubSeq(chars, k + 2, hexEnd - 1), 16), hexEnd)
        [] OTHER -> Bad

LexChar ==
  /\ At({"'"})
  /\ \E c \in {read_char_in_literal(cursor + 1)} :
       IF c = Bad \/ Ch(c.end) # "'" THEN Conclude("failed") ELSE Emit(<<"int", c.v, type_of_int_literal(c.v, {})>>, c.end + 1)

(* Without a closing quote the loop goes on for ever. *)
RECURSIVE StringFrom(_, _)
StringFrom(k, vs) ==
  IF Ch(k) = "\"" THEN [how |-> "ok", end |-> k + 1, vs |-> vs]
  ELSE IF AtEnd(k) THEN [how |-> "spins"]
  ELSE LET c == read_char_in_literal(k) IN IF c = Bad THEN [how |-> "failed"] ELSE StringFrom(c.end, Append(vs, c.v))

LexString ==
  /\ At({"\""})
  /\ \E s \in {StringFrom(cursor + 1, <<>>)} :
       IF s.how = "ok" THEN Emit(<<"string", s.vs>>, s.end)
       ELSE IF s.how = "failed" THEN Conclude("failed") ELSE Stop("spins")

-----------------------------------------------------------------------------
(* Operators: what expect_char asks for behind the first character, in this *)
(* order.                                                                   *)
Single == {"~", "?", ":", ";", ",", "{", "}", "(", ")", "[", "]"}
Longer ==
  [c \in {"+", "-", "*", "/", "%", "&", "|", "^", "=", "!", "<", ">", "."} \cup Single |->
     CASE c \in {"+", "&", "|"} -> <<<<c, c>>, <<c, "=">>>>
       [] c = "-" -> <<<<"-", "-">>, <<"-", "=">>, <<"-", ">">>>>
       [] c \in {"*", "/", "%", "^", "=", "!"} -> <<<<c, "=">>>>
       [] c \in {"<", ">"} -> <<<<c, "=">>, <<c, c, "=">>, <<c, c>>>>
       [] c = "." -> <<<<".", ".", ".">>>>
       [] OTHER -> <<>>]

Stands(op) == \A k \in DOMAIN op : Ch(cursor + k - 1) = op[k]

LexOperator ==
  /\ At(DOMAIN Longer)
  /\ Ch(cursor) = "." => Ch(cursor + 1) \notin Decimal
  /\ \E op \in {SelectSeq(Longer[Ch(cursor)], Stands) \o <<<<Ch(cursor)>>>>} :
       Emit(<<"op", op[1]>>, cursor + Len(op[1]))

LexBlank == At({" ", "\n"}) /\ cursor' = cursor + 1 /\ UNCHANGED <<chars, lexemes, lexing>>

(* __LINE__ counts the newlines before the reader; __FILE__ is the name of  *)
(* the file.                                                                *)
LineWord == <<"_", "_", "L", "I", "N", "E", "_", "_">>
FileWord == <<"_", "_", "F", "I", "L", "E", "_", "_">>
FileName == <<Code["f"]>>
LexSymbol ==
  /\ At(InitialIdent)
  /\ LET end == Run(cursor, Ident)
         word == SubSeq(chars, cursor, end - 1)
         newlines == Cardinality({k \in 1..(end - 1) : chars[k] = "\n"})
     IN  Emit(CASE word = LineWord -> <<"int", newlines + 1, type_of_int_literal(newlines + 1, {})>>
                [] word = FileWord -> <<"string", FileName>>
                [] OTHER -> <<"symbol", word>>, end)

(* The ASSERT after read_symbol. *)
LexOther ==
  /\ lexing = "running" /\ ~AtEnd(cursor)
  /\ Ch(cursor) \notin InitialIdent \cup Decimal \cup DOMAIN Longer \cup {" ", "\n", "\"", "'"}
  /\ Stop("aborted")

LexEnd == lexing = "running" /\ AtEnd(cursor) /\ Conclude("done")

LexDone == lexing # "running" /\ UNCHANGED lexVars

LexNext ==
  \/ LexInt \/ LexFloat \/ LexPointFloat \/ LexChar \/ LexString \/ LexOperator \/ LexBlank \/ LexSymbol \/ LexOther
  \/ LexEnd \/ LexDone

-----------------------------------------------------------------------------
(* What C says (C99 6.4): the longest preprocessing token at each place,    *)
(* then the constant it is.                                                 *)
Punctuators ==
  {<<c>> : c \in DOMAIN Longer} \cup UNION {ToSet(Longer[c]) : c \in DOMAIN Longer}
Digraphs == {<<"<", ":">>, <<":", ">">>, <<"<", "%">>, <<"%", ">">>, <<"%", ":">>}

Signs == {"+", "-"}
IsPPNumber(w) ==
  /\ (w[1] \in Decimal) \/ (Len(w) > 1 /\ w[1] = "." /\ w[2] \in Decimal)
  /\ \A k \in DOMAIN w :
       \/ w[k] \in Ident \cup {"."}
       \/ (w[k] \in Signs) /\ (k > 1) /\ (w[k - 1] \in {"e", "E", "p", "P"})

(* Escaped(w, k): the character at k stands behind a backslash. *)
Backslashes(w, k) == (k - 1) - Max({j \in 0..(k - 1) : j = 0 \/ w[j] # "\\"})
IsQuoted(w, q) ==
  Len(w) > 1 /\ w[1] = q /\ \A k \in 2..Len(w) : (w[k] = q /\ Backslashes(w, k) % 2 = 0) <=> k = Len(w)

IsToken(w) ==
  \/ w[1] \in InitialIdent /\ ToSet(w) \subseteq Ident
  \/ IsPPNumber(w) \/ IsQuoted(w, "\"") \/ IsQuoted(w, "'")
  \/ w \in Punctuators \cup Digraphs

NoToken == [from |-> 0, to |-> 0]
RECURSIVE Words(_)
Words(k) ==
  IF AtEnd(k) THEN <<>>
  ELSE IF chars[k] \in {" ", "\n"} THEN Words(k + 1)
  ELSE LET ends == {e \in k..Len(chars) : IsToken(SubSeq(chars, k, e))}
       IN  IF ends = {} THEN <<NoToken>> ELSE <<[from |-> k, to |-> Max(ends)]>> \o Words(Max(ends) + 1)

(* A constant is the parts of some division of its spelling (6.4.4.1, 2).   *)
Cut(w, a, b) == SubSeq(w, a, b)
Lower(c) == IF c \in CharsIn("A", "Z") THEN Ascii[Code[c] + 1] ELSE c
IntSuffixes == {<<>>, <<"u">>, <<"l">>, <<"l", "l">>, <<"u", "l">>, <<"l", "u">>, <<"u", "l", "l">>, <<"l", "l", "u">>}
SuffixOf(w, k) == [j \in 1..(Len(w) - k) |-> Lower(w[k + j])]
SameCase(w) == \A k \in 1..(Len(w) - 1) : Lower(w[k]) = "l" /\ Lower(w[k + 1]) = "l" => w[k] = w[k + 1]
Prefixed(w) == Len(w) > 2 /\ w[1] = "0" /\ w[2] \in {"x", "X"}

CRadix(w) == IF Prefixed(w) THEN 16 ELSE IF w[1] = "0" THEN 8 ELSE 10
First(w) == IF Prefixed(w) THEN 3 ELSE 1
IntEnds(w) ==
  {k \in First(w)..Len(w) : ToSet(Cut(w, First(w), k)) \subseteq digits(CRadix(w)) /\ SuffixOf(w, k) \in IntSuffixes /\ SameCase(w)}

(* 6.4.4.1p5; octal and hexadecimal constants also try the unsigned types. *)
CType(v, suffix, radix) ==
  LET u == "u" \in ToSet(suffix)
      longs == Cardinality({k \in DOMAIN suffix : suffix[k] = "l"})
      ranks == <<"int", "unsigned int", "long", "unsigned long", "long long", "unsigned long long">>
      Holds(t) == v < 2^(Bits(t) - (IF IsSigned(t) THEN 1 ELSE 0))
      ok == {k \in (2 * longs + 1)..6 : Holds(ranks[k]) /\ (IF u THEN k % 2 = 0 ELSE k % 2 = 1 \/ radix # 10)}
  IN  IF ok = {} THEN "none" ELSE ranks[Min(ok)]

(* A floating constant: digits with at most one point, in hexadecimal with  *)
(* an exponent, in decimal with an exponent or a point.                     *)
FloatSplits(w) ==
  LET radix == IF Prefixed(w) THEN 16 ELSE 10
      Digits(a, b) == ToSet(Cut(w, a, b)) \subseteq digits(radix)
      Exponents(k) == {x \in (k + 1)..Len(w) : /\ w[k + 1] \in ExponentChars(radix)
                         /\ LET d == IF k + 2 <= Len(w) /\ w[k + 2] \in Signs THEN k + 3 ELSE k + 2
                            IN  d <= x /\ ToSet(Cut(w, d, x)) \subseteq Decimal}
  IN  {s \in [point : {0} \cup First(w)..Len(w), mant : First(w)..Len(w), exp : 0..Len(w), radix : {radix}] :
         /\ IF s.point = 0 THEN Digits(First(w), s.mant)
            ELSE /\ s.point <= s.mant /\ w[s.point] = "." /\ s.mant > First(w)
                 /\ Digits(First(w), s.point - 1) /\ Digits(s.point + 1, s.mant)
         /\ s.exp = 0 \/ s.exp \in Exponents(s.mant)
         /\ s.exp = 0 => radix = 10 /\ s.point # 0
         /\ SuffixOf(w, IF s.exp = 0 THEN s.mant ELSE s.exp) \in {<<>>, <<"f">>, <<"l">>}}

(* The number a split means: n * radix^-past * (10 or 2)^exponent. *)
FloatMeant(w, s) ==
  LET mantissa == SelectSeq(Cut(w, First(w), s.mant), LAMBDA c : c # ".")
      d == IF s.exp = 0 THEN 0 ELSE IF w[s.mant + 2] \in Signs THEN s.mant + 3 ELSE s.mant + 2
      e == IF s.exp = 0 THEN 0 ELSE Number(Cut(w, d, s.exp), 10)
  IN  [n |-> Number(mantissa, s.radix), exponent |-> (IF s.exp # 0 /\ w[s.mant + 2] = "-" THEN -e ELSE e)
         - (IF s.point = 0 THEN 0 ELSE (s.mant - s.point) * (IF s.radix = 16 THEN 4 ELSE 1)),
       radix |-> s.radix,
       type |-> LET x == SuffixOf(w, IF s.exp = 0 THEN s.mant ELSE s.exp)
                IN  IF x = <<>> THEN "double" ELSE IF x = <<"f">> THEN "float" ELSE "long double"]

(* The code's digits are those of the number, cut where they stop fitting. *)
Denotes(t, m) ==
  LET base == IF m.radix = 10 THEN 10 ELSE 2
      low == Min({t[3], m.exponent})
      mine == t[2] * base^(t[3] - low)
      next == (t[2] + 1) * base^(t[3] - low)
      exact == m.n * base^(m.exponent - low)
  IN  /\ t[4] = m.radix /\ t[5] = m.type
      /\ IF t[2] < SignificandLimit THEN mine = exact ELSE mine <= exact /\ exact < next

(* The characters of a literal (6.4.4.4); octal escapes have at most three  *)
(* digits.                                                                  *)
RECURSIVE CChars(_, _)
CChars(w, k) ==
  LET OctalLen == Max({n \in 1..3 : k + n < Len(w) /\ ToSet(Cut(w, k + 1, k + n)) \subseteq Octal})
      HexLen == Max({n \in 0..(Len(w) - k - 2) : ToSet(Cut(w, k + 2, k + 1 + n)) \subseteq Hex})
  IN  CASE k = Len(w) -> <<>>
        [] w[k] # "\\" -> <<Code[w[k]]>> \o CChars(w, k + 1)
        [] w[k + 1] \in DOMAIN SimpleEscapes -> <<SimpleEscapes[w[k + 1]]>> \o CChars(w, k + 2)
        [] w[k + 1] = "?" -> <<Code["?"]>> \o CChars(w, k + 2)
        [] w[k + 1] \in Octal -> <<Number(Cut(w, k + 1, k + OctalLen), 8)>> \o CChars(w, k + 1 + OctalLen)
        [] w[k + 1] = "x" -> <<IF HexLen = 0 THEN -1 ELSE Number(Cut(w, k + 2, k + 1 + HexLen), 16)>> \o CChars(w, k + 2 + HexLen)
        [] OTHER -> <<-1>>

(* A word is a token of C: neither a number that is no constant nor a       *)
(* literal with a character that is none, nor an empty or long character.   *)
Quoted(w) == w[1] \in {"\"", "'"}
IsConstant(w) ==
  IF Quoted(w) THEN /\ ToSet(CChars(w, 2)) \subseteq 0..255
                    /\ w[1] = "'" => Len(CChars(w, 2)) = 1
  ELSE IF w[1] \in Decimal \/ (w[1] = "." /\ Len(w) > 1 /\ w[2] \in Decimal)
    THEN FloatSplits(w) # {} \/ \E k \in IntEnds(w) :
           CType(Number(Cut(w, First(w), k), CRadix(w)), SuffixOf(w, k), CRadix(w)) # "none"
  ELSE TRUE

(* What the code leaves out: digraphs, 0X, numbers that start like an octal *)
(* one and are floating, unsigned types for octal and hexadecimal numbers,  *)
(* octal escapes that do not start with 0 or that more digits follow, \?.   *)
BadOctal(w, k) ==
  /\ w[k] = "\\" /\ k < Len(w) /\ Backslashes(w, k) % 2 = 0
  /\ \/ w[k + 1] \in (Octal \ {"0"}) \cup {"?"}
     \/ w[k + 1] = "0" /\ \E n \in 1..3 : /\ k + 1 + n <= Len(w) /\ ToSet(Cut(w, k + 2, k + n)) \subseteq Octal
                                          /\ w[k + 1 + n] \in (IF n = 3 THEN Decimal ELSE Decimal \ Octal)
LeftOut(w) ==
  \/ w \in Digraphs
  \/ Quoted(w) /\ \E k \in DOMAIN w : BadOctal(w, k)
  \/ Prefixed(w) /\ w[2] = "X"
  \/ Len(w) > 1 /\ w[1] = "0" /\ w[2] \in Decimal /\ FloatSplits(w) # {}
  \/ \E k \in IntEnds(w) : LET v == Number(Cut(w, First(w), k), CRadix(w))
                           IN  CType(v, SuffixOf(w, k), CRadix(w)) # CType(v, SuffixOf(w, k), 10)

Spelling(word) == SubSeq(chars, word.from, word.to)
WellFormed(words) ==
  \A k \in DOMAIN words : words[k] # NoToken /\ IsConstant(Spelling(words[k])) /\ ~LeftOut(Spelling(words[k]))

(* The value of a character constant is that of a char, which is signed    *)
(* (6.4.4.4p10, c_type.c); the code leaves the sign out.                   *)
CharValue(c) == IF c >= 128 THEN c - 256 ELSE c
CharMeant(v, c) == v = CharValue(c) \/ (CharValue(c) < 0 /\ v = CharValue(c) + 256)

(* What a token of the code is for C, and the end of adjacent strings. *)
Means(t, word) ==
  LET w == Spelling(word)
  IN  CASE w[1] = "'" -> t = <<"int", t[2], "int">> /\ CharMeant(t[2], CChars(w, 2)[1])
        [] w = LineWord -> t = <<"int", 1 + Cardinality({k \in 1..word.from : chars[k] = "\n"}), "int">>
        [] w[1] \in InitialIdent /\ w # LineWord -> t = <<"symbol", w>>
        [] w[1] \in DOMAIN Longer /\ w \in Punctuators -> t = <<"op", w>>
        [] FloatSplits(w) # {} -> t[1] = "float" /\ \E s \in FloatSplits(w) : Denotes(t, FloatMeant(w, s))
        [] OTHER -> \E k \in IntEnds(w) :
                      LET v == Number(Cut(w, First(w), k), CRadix(w)) IN t = <<"int", v, CType(v, SuffixOf(w, k), CRadix(w))>>

IsStringWord(word) == Spelling(word)[1] = "\"" \/ Spelling(word) = FileWord
StringValue(word) == IF Spelling(word) = FileWord THEN FileName ELSE CChars(Spelling(word), 2)

(* Every run of strings is one token. *)
Starts(words) == {k \in DOMAIN words : ~(IsStringWord(words[k]) /\ k > 1 /\ IsStringWord(words[k - 1]))}
RunOf(words, k) ==
  LET ends == {j \in k..Len(words) : \A x \in k..j : IsStringWord(words[x])}
  IN  FlattenSeq([j \in 1..(Max(ends) - k + 1) |-> StringValue(words[k + j - 1])])
Agrees(words) ==
  LET starts == SetToSortSeq(Starts(words), <)
  IN  /\ Len(starts) = Len(lexemes)
      /\ \A n \in DOMAIN starts :
           LET k == starts[n]
           IN  IF IsStringWord(words[k]) THEN lexemes[n] = <<"string", RunOf(words, k)>> ELSE Means(lexemes[n], words[k])

(* The decimal exponent left for the table: dropped digits add to it. *)
BeyondTables(w) ==
  \E s \in FloatSplits(w) :
    LET m == FloatMeant(w, s)
    IN  m.radix = 10 /\ (m.exponent \notin (-MaxExponent)..MaxExponent \/ m.n >= SignificandLimit)

(***************************************************************************)
(* A text that C divides into tokens is divided the same way, the longest  *)
(* token first, and every constant has the value and the type C gives it,  *)
(* but for character constants such as '\x81', negative in C, which are    *)
(* 256 more here; only decimal exponents beyond the tables may stop the    *)
(* compiler.  What LeftOut names is not covered.  No text in which every   *)
(* character constant has a character keeps the lexer busy for ever.       *)
(***************************************************************************)
LexedRight ==
  lexing # "running" =>
    \E words \in {Words(1)} :
      /\ WellFormed(words) => \/ lexing = "done" /\ Agrees(words)
                              \/ lexing = "aborted" /\ \E k \in DOMAIN words : BeyondTables(Spelling(words[k]))
      /\ lexing = "spins" => \E k \in 1..(Len(chars) - 1) : chars[k] = "'" /\ chars[k + 1] = "'"
=============================================================================
