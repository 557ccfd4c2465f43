--------------------------- MODULE MacroExpansion ---------------------------
(***************************************************************************)
(* Macro expansion in src/src/syntax/preprocess.c: the symbols read by     *)
(* preprocess_aux, substitute_macro_params, preprocess_string and          *)
(* macroexpand, which call each other recursively and share the output,    *)
(* the parameters in scope and the depth through PP.                       *)
(*                                                                         *)
(* Text is a sequence of tokens; a token is <<spelling>>, or <<"#">> \o    *)
(* text for a stringified text.  Blanks and ## are left out.               *)
(***************************************************************************)
EXTENDS Integers, FiniteSetsExt, SequencesExt

CONSTANTS
  Sources,    \* the texts to preprocess
  Macros,     \* macro_env: token |-> [params, variadic, body]
  MaxFrames   \* bound: nested calls

T(spelling) == <<spelling>>
VaArgs == T("__VA_ARGS__")

VARIABLES
  frames,  \* the calls of preprocess_aux and substitute_macro_params, the last one running
  params,  \* PP.curr_macro_params: token |-> text
  out,     \* PP.out_chars
  depth,   \* PP.macro_depth
  res,     \* "running", "ok" or the error
  source   \* the text of the file, for reference

vars == <<frames, params, out, depth, res, source>>

(* kind: "main", "arg" (macroexpand) and "body" (preprocess_string) read   *)
(* toks from k on; "call" is substitute_macro_params.                      *)
Frame(kind, toks) ==
  [kind |-> kind, toks |-> toks, k |-> 1, oldParams |-> <<>>, oldOut |-> <<>>,
   macro |-> <<>>, todo |-> <<>>, done |-> <<>>]

Init ==
  /\ source \in Sources
  /\ frames = <<Frame("main", source)>>
  /\ params = <<>> /\ out = <<>> /\ depth = 0 /\ res = "running"

Top == Last(frames)
ReadingText == res = "running" /\ Top.kind # "call"
AtEnd == Top.k > Len(Top.toks)
Tok == Top.toks[Top.k]

MovedTo(k) == [frames EXCEPT ![Len(frames)].k = k]
Push(fs, frame) == Len(fs) < MaxFrames /\ frames' = Append(fs, frame)

NoText == <<T("NULL")>>

(* An error is returned by every caller up to macroexpand, which answers   *)
(* NULL with the output freed; its caller takes NULL for the argument and  *)
(* goes on.  The frames between do not put params and depth back.          *)
Fail(error) ==
  LET args == {x \in 1..Len(frames) : frames[x].kind = "arg"}
      call == Max(args) - 1
  IN  IF args = {} THEN res' = error /\ UNCHANGED <<frames, params, out, depth, source>>
      ELSE /\ frames' = [SubSeq(frames, 1, call) EXCEPT ![call].todo = Tail(@), ![call].done = Append(@, NoText)]
           /\ out' = <<>>
           /\ UNCHANGED <<params, depth, res, source>>

(* strlen(NULL) *)
Crash == res' = "crash" /\ UNCHANGED <<frames, params, out, depth, source>>

Found(tok) == tok \in DOMAIN params \cup DOMAIN Macros
Macro(tok) == IF tok \in DOMAIN params THEN [params |-> <<>>, variadic |-> FALSE, body |-> params[tok]]
              ELSE Macros[tok]
FunctionLike(tok) == Macro(tok).params # <<>> \/ Macro(tok).variadic
Invoked == Top.k < Len(Top.toks) /\ Top.toks[Top.k + 1] = T("(")

-----------------------------------------------------------------------------
CopyToken ==
  /\ ReadingText /\ ~AtEnd /\ Tok # T("#")
  /\ Found(Tok) => FunctionLike(Tok) /\ ~Invoked
  /\ out' = Append(out, Tok)
  /\ frames' = MovedTo(Top.k + 1)
  /\ UNCHANGED <<params, depth, res, source>>

Stringify ==
  LET named == Top.k < Len(Top.toks) /\ Top.toks[Top.k + 1] \in DOMAIN params
  IN  /\ ReadingText /\ ~AtEnd /\ Tok = T("#")
      /\ IF depth = 0 \/ ~named THEN Fail("stray #")
         ELSE IF params[Top.toks[Top.k + 1]] = NoText THEN Crash
         ELSE /\ out' = Append(out, <<"#">> \o params[Top.toks[Top.k + 1]])
              /\ frames' = MovedTo(Top.k + 2)
              /\ UNCHANGED <<params, depth, res, source>>

ScopeOfObject == <<>>

ExpandObject ==
  /\ ReadingText /\ ~AtEnd /\ Found(Tok) /\ ~FunctionLike(Tok)
  /\ IF Macro(Tok).body = NoText THEN Crash
     ELSE /\ Push(MovedTo(Top.k + 1), [Frame("body", Macro(Tok).body) EXCEPT !.oldParams = params])
          /\ params' = ScopeOfObject
          /\ depth' = depth + 1
          /\ UNCHANGED <<out, res, source>>

(* How many brackets opened after a are still open at b. *)
Nesting(toks, a, b) == Cardinality({x \in a..b : toks[x] = T("(")}) - Cardinality({x \in a..b : toks[x] = T(")")})

(* The bracket that ends the arguments, and the pieces between commas; an  *)
(* empty piece is no argument.                                             *)
Closing(toks, open) == {x \in (open + 1)..Len(toks) : Nesting(toks, open, x) = 0}
Pieces(toks) ==
  LET cuts == {0, Len(toks) + 1} \cup {x \in 1..Len(toks) : toks[x] = T(",") /\ Nesting(toks, 1, x) = 0}
      at == SetToSortSeq(cuts, <)
      all == [x \in 1..(Len(at) - 1) |-> SubSeq(toks, at[x] + 1, at[x + 1] - 1)]
  IN  SelectSeq(all, LAMBDA s : s # <<>>)

Invoke ==
  LET close == Min(Closing(Top.toks, Top.k + 1))
  IN  /\ ReadingText /\ ~AtEnd /\ Found(Tok) /\ FunctionLike(Tok) /\ Invoked
      /\ IF Closing(Top.toks, Top.k + 1) = {} THEN Fail("unterminated")
         ELSE /\ Push(MovedTo(close + 1),
                      [Frame("call", <<>>) EXCEPT !.macro = Tok, !.todo = Pieces(SubSeq(Top.toks, Top.k + 2, close - 1))])
              /\ depth' = depth + 1
              /\ UNCHANGED <<params, out, res, source>>

(* macroexpand: an output of its own, in the scope of the invocation. *)
ExpandArg ==
  /\ res = "running" /\ Top.kind = "call" /\ Top.todo # <<>>
  /\ Push(frames, [Frame("arg", Head(Top.todo)) EXCEPT !.oldOut = out])
  /\ out' = <<>>
  /\ UNCHANGED <<params, depth, res, source>>

Answered(call) == [call EXCEPT !.todo = Tail(@), !.done = Append(@, out)]

EndOfArg ==
  /\ ReadingText /\ AtEnd /\ Top.kind = "arg"
  /\ frames' = [Front(frames) EXCEPT ![Len(frames) - 1] = Answered(@)]
  /\ out' = Top.oldOut
  /\ UNCHANGED <<params, depth, res, source>>

(* The extra arguments, with commas between them. *)
Rest(args, n) ==
  FoldLeft(LAMBDA text, x : IF x = n + 1 THEN args[x] ELSE text \o <<T(",")>> \o args[x],
           <<>>, [x \in 1..(Len(args) - n) |-> n + x])

Bound(macro, args) ==
  LET n == Len(macro.params)
      named == [x \in ToSet(macro.params) |-> args[CHOOSE y \in 1..n : macro.params[y] = x]]
  IN  IF Len(args) = n THEN named
      ELSE [x \in DOMAIN named \cup {VaArgs} |-> IF x = VaArgs THEN Rest(args, n) ELSE named[x]]

Substitute ==
  LET macro == Macro(Top.macro)
      wrong == IF macro.variadic THEN Len(Top.done) < Len(macro.params) ELSE Len(Top.done) # Len(macro.params)
  IN  /\ res = "running" /\ Top.kind = "call" /\ Top.todo = <<>>
      /\ IF wrong THEN Fail("wrong number of arguments")
         ELSE IF \E x \in (Len(macro.params) + 1)..Len(Top.done) : Top.done[x] = NoText THEN Crash
         ELSE /\ frames' = Append(Front(frames), [Frame("body", macro.body) EXCEPT !.oldParams = params])
              /\ params' = Bound(macro, Top.done)
              /\ UNCHANGED <<out, depth, res, source>>

EndOfBody_KeepsParams ==
  /\ ReadingText /\ AtEnd /\ Top.kind = "body"
  /\ frames' = Front(frames)
  /\ depth' = depth - 1
  /\ UNCHANGED <<params, out, res, source>>

EndOfBody ==
  /\ ReadingText /\ AtEnd /\ Top.kind = "body"
  /\ frames' = Front(frames)
  /\ params' = Top.oldParams
  /\ depth' = depth - 1
  /\ UNCHANGED <<out, res, source>>

EndOfFile ==
  /\ ReadingText /\ AtEnd /\ Top.kind = "main"
  /\ res' = "ok"
  /\ UNCHANGED <<frames, params, out, depth, source>>

Done == res # "running" /\ UNCHANGED vars

Step ==
  \/ CopyToken \/ Stringify \/ ExpandObject \/ Invoke \/ ExpandArg \/ EndOfArg \/ Substitute
  \/ EndOfBody \/ EndOfFile

Next == Step \/ Done

Spec == Init /\ [][Next]_vars /\ WF_vars(Step)

-----------------------------------------------------------------------------
(***************************************************************************)
(* C99 6.10.3 for macros that are not recursive: replace the first use by  *)
(* the body, with the expanded arguments in place, and look again.  What # *)
(* makes a string of is the spelling of the argument, or, unless spelling, *)
(* the expanded argument.                                                  *)
(***************************************************************************)
RECURSIVE Expanded(_, _)
Expanded(text, spelling) ==
  IF text = <<>> THEN <<>>
  ELSE LET tok == Head(text)
           isMacro == tok \in DOMAIN Macros
           function == isMacro /\ (Macros[tok].params # <<>> \/ Macros[tok].variadic)
           called == function /\ Len(text) > 1 /\ text[2] = T("(")
       IN  IF ~isMacro \/ (function /\ ~called) THEN <<tok>> \o Expanded(Tail(text), spelling)
           ELSE IF ~function THEN Expanded(Macros[tok].body \o Tail(text), spelling)
           ELSE IF Closing(text, 2) = {} THEN <<T("error")>>
           ELSE LET close == Min(Closing(text, 2))
                    macro == Macros[tok]
                    raw == Pieces(SubSeq(text, 3, close - 1))
                    args == [x \in 1..Len(raw) |-> Expanded(raw[x], spelling)]
                    value == Bound(macro, args)
                    named == Bound(macro, IF spelling THEN raw ELSE args)
                    replaced == [x \in 1..Len(macro.body) |->
                                   IF macro.body[x] = T("#") THEN <<>>
                                   ELSE IF x > 1 /\ macro.body[x - 1] = T("#")
                                     THEN <<<<"#">> \o named[macro.body[x]]>>
                                   ELSE IF macro.body[x] \in DOMAIN value THEN value[macro.body[x]]
                                   ELSE <<macro.body[x]>>]
                IN  IF Len(args) < Len(macro.params) \/ (~macro.variadic /\ Len(args) # Len(macro.params))
                      THEN <<T("error")>>
                    ELSE Expanded(FlattenSeq(replaced) \o SubSeq(text, close + 1, Len(text)), spelling)

C99Text == Expanded(source, TRUE)

Flawed == T("error") \in ToSet(C99Text) \/ T("#") \in ToSet(source)

(* A string made by # should spell the name of a macro. *)
StringOfMacro == \E tok \in ToSet(C99Text) : \E x \in 2..Len(tok) : tok[x] \in DOMAIN Macros

(* Back in the file no parameter is in scope and the depth is 0, so that # *)
(* and ## are refused there and locations are tracked again; everywhere    *)
(* the depth is the number of macros being expanded.                       *)
ContextRestored ==
  /\ Len(frames) = 1 => params = <<>>
  /\ depth = Cardinality({x \in 1..Len(frames) : frames[x].kind \in {"body", "call"}})

(***************************************************************************)
(* Where macros are not recursive, every function-like name is followed by *)
(* its arguments and no argument list comes from another macro, the text   *)
(* that preprocess_aux writes is that of C99: parameters hide macros, are  *)
(* not visible in the macros their body uses, and arguments are expanded   *)
(* where they stand.  One thing differs: substitute_macro_params keeps the *)
(* expanded argument only, so that # makes a string of it where C99 asks   *)
(* for the spelling; of an argument without macros these are the same.     *)
(* Each expansion puts back what it replaced, unless the text has an error *)
(* and is to be refused.                                                   *)
(***************************************************************************)
ExpansionRight ==
  /\ ContextRestored \/ Flawed
  /\ res # "running" =>
       IF Flawed THEN res # "ok"
       ELSE res = "ok" /\ out = IF StringOfMacro THEN Expanded(source, FALSE) ELSE C99Text
=============================================================================
