------------------------------ MODULE SourceMap ------------------------------
(***************************************************************************)
(* How a token of the preprocessed text finds its way back to the place in *)
(* the source it came from: preprocess_aux and add_adjustment_to of        *)
(* src/src/syntax/preprocess.c record adjustments, and advance and back_up *)
(* of src/src/syntax/reader.c, driven by lex_aux of src/src/syntax/lex.c,  *)
(* apply them again.                                                       *)
(*                                                                         *)
(* The source is a sequence of items [t, len]: "sym", "num" and "punct"    *)
(* tokens, "ws" (blanks or a comment), "nl", "cont" (a backslash and a     *)
(* newline), "dir" (a directive line), "mac" (an object-like macro, with   *)
(* the characters it expands to) and "inc" (an include line, with the      *)
(* characters of the file).  A character is "s", "n", "p", " ", "nl" or    *)
(* "bs".                                                                   *)
(***************************************************************************)
EXTENDS Integers, FiniteSetsExt, SequencesExt

CONSTANT Texts   \* the sources to compile

Main == "main.c"
Header == "header.h"

VARIABLES
  text,   \* the source
  i, src, \* the item being read, and its offset in the file
  out,    \* PP.out_chars; with each character, where its token should be said to be
  adj,    \* PP.out_adjustments
  phase,  \* "preprocess", "lex", "done", or the assertion that failed
  r,      \* the lexer's Reader: [pos, off, next], off being adjusted_position
  toks    \* the tokens' source ranges, with the place wanted

vars == <<text, i, src, out, adj, phase, r, toks>>

Init ==
  /\ text \in Texts
  /\ i = 1 /\ src = 0 /\ out = <<>>
  /\ adj = <<[type |-> "normal", loc |-> 0, at |-> <<Main, 0>>]>>
  /\ phase = "preprocess"
  /\ r = [pos |-> 0, off |-> 0, next |-> 0] /\ toks = <<>>

-----------------------------------------------------------------------------
(* The preprocessor. *)
Item == text[i]
Reading(kinds) == phase = "preprocess" /\ i <= Len(text) /\ Item.t \in kinds

(* add_adjustment_to outside of nested expansions: those have an array of  *)
(* their own, which preprocess_string throws away.                         *)
Adjusted(adjs, location, type, at) ==
  LET prev == Last(adjs)
      new(t) == [type |-> t, loc |-> location, at |-> at]
  IN  IF prev.type = "begin" /\ type = "normal" THEN adjs
      ELSE IF prev.loc # location THEN Append(adjs, new(type))
      ELSE Append(Front(adjs), new(IF prev.type = "end" /\ type = "normal" THEN "end" ELSE type))

Chars(classes, at(_)) == [x \in 1..Len(classes) |-> [c |-> classes[x], at |-> at(x)]]
Copied(classes) == Chars(classes, LAMBDA x : <<Main, src + x - 1>>)

(* advance: a character takes the line continuation behind it with it. *)
Continued == IF i < Len(text) /\ text[i + 1].t = "cont" THEN 1 ELSE 0

Consume(n) == i' = i + 1 + Continued /\ src' = src + n + 2 * Continued

(* skip_whitespace_and_comments and the separator that stands for it. *)
SkipBlank ==
  LET end == Min({x \in i..(Len(text) + 1) : x > Len(text) \/ text[x].t \notin {"ws", "nl", "cont"}})
      run == SubSeq(text, i, end - 1)
      length == FoldLeft(LAMBDA n, x : n + x.len, 0, run)
      newlines == SelectSeq(run, LAMBDA x : x.t = "nl")
      shown == IF newlines = <<>> THEN <<" ">> ELSE [x \in 1..Len(newlines) |-> "nl"]
  IN  /\ Reading({"ws", "nl"})
      /\ i' = end /\ src' = src + length
      /\ out' = out \o Copied(shown)
      /\ adj' = IF length > Len(newlines) THEN Adjusted(adj, Len(out'), "normal", <<Main, src'>>) ELSE adj
      /\ UNCHANGED <<text, phase, r, toks>>

(* A symbol is copied from the buffer with a line continuation at its end. *)
CopySymbol ==
  /\ Reading({"sym"})
  /\ Consume(Item.len)
  /\ out' = out \o Copied([x \in 1..Item.len |-> "s"] \o IF Continued = 1 THEN <<"bs", "nl">> ELSE <<>>)
  /\ UNCHANGED <<text, adj, phase, r, toks>>

(* Anything else is appended by itself, without it. *)
CopyChars ==
  /\ Reading({"num", "punct"})
  /\ Consume(Item.len)
  /\ out' = out \o Copied([x \in 1..Item.len |-> IF Item.t = "num" THEN "n" ELSE "p"])
  /\ UNCHANGED <<text, adj, phase, r, toks>>

HandleDirective ==
  /\ Reading({"dir"})
  /\ Consume(Item.len)
  /\ adj' = Adjusted(adj, Len(out), "normal", <<Main, src'>>)
  /\ UNCHANGED <<text, out, phase, r, toks>>

ExpandMacro ==
  /\ Reading({"mac"})
  /\ Consume(Item.len)
  /\ out' = out \o Chars(Item.body, LAMBDA x : <<Main, src>>)
  /\ adj' = Adjusted(Adjusted(adj, Len(out), "begin", <<Main, src>>), Len(out'), "end", <<Main, src'>>)
  /\ UNCHANGED <<text, phase, r, toks>>

IncludeFile ==
  /\ Reading({"inc"})
  /\ Consume(Item.len)
  /\ out' = out \o Chars(Item.body, LAMBDA x : <<Header, x - 1>>)
  /\ adj' = Adjusted(Adjusted(adj, Len(out), "normal", <<Header, 0>>), Len(out'), "normal", <<Main, src'>>)
  /\ UNCHANGED <<text, phase, r, toks>>

-----------------------------------------------------------------------------
(* The reader of the preprocessed text. *)
Peek(p) == IF p < Len(out) THEN out[p + 1].c ELSE "eof"

Advance_CountsInMacros(q) ==
  IF q.next < Len(adj) /\ adj[q.next + 1].loc = q.pos + 1
    THEN [pos |-> q.pos + 1, off |-> adj[q.next + 1].at[2], next |-> q.next + 1]
  ELSE [q EXCEPT !.pos = @ + 1, !.off = @ + 1]

Advance(q) ==
  LET p == Min({x \in (q.pos + 1)..(Len(out) + 1) :
                  (x - q.pos) % 2 = 1 /\ ~(Peek(x) = "bs" /\ Peek(x + 1) = "nl")})
  IN  IF q.next < Len(adj) /\ adj[q.next + 1].loc = p
        THEN [pos |-> p, off |-> adj[q.next + 1].at[2], next |-> q.next + 1]
      ELSE IF q.next >= 1 /\ adj[q.next].type = "begin"
        THEN [q EXCEPT !.pos = p, !.off = adj[q.next].at[2]]
      ELSE [q EXCEPT !.pos = p, !.off = @ + p - q.pos]

BackUp(q) ==
  [pos |-> q.pos - 1, off |-> q.off - 1,
   next |-> IF q.next >= 1 /\ adj[q.next].loc = q.pos THEN q.next - 1 ELSE q.next]

AdvanceOver(q, classes) ==
  FoldLeft(LAMBDA a, x : IF Peek(a.pos) \in classes THEN Advance(a) ELSE a, q, [x \in 1..Len(out) |-> x])

-----------------------------------------------------------------------------
(* The lexer. *)
Lex ==
  /\ phase = "preprocess" /\ i > Len(text)
  /\ phase' = IF adj[1].loc = 0 /\ adj[1].type = "normal" THEN "lex" ELSE "first adjustment"
  /\ r' = [r EXCEPT !.next = 1]
  /\ UNCHANGED <<text, i, src, out, adj, toks>>

At(classes) == phase = "lex" /\ Peek(r.pos) \in classes

(* The file of every token is that of the first adjustment. *)
Token(after) ==
  /\ r' = after
  /\ toks' = Append(toks, [start |-> <<adj[1].at[1], r.off>>, end |-> after.off - 1,
                           want |-> out[r.pos + 1].at])
  /\ UNCHANGED <<text, i, src, out, adj, phase>>

LexBlank ==
  /\ At({" ", "nl"})
  /\ r' = Advance(r)
  /\ UNCHANGED <<text, i, src, out, adj, phase, toks>>

LexPunct == At({"p"}) /\ Token(Advance(r))

(* The symbol is looked at, put back and read again. *)
LexSymbol ==
  LET back == BackUp(Advance(r))
  IN  /\ At({"s"})
      /\ IF Peek(back.pos) = "s" THEN Token(AdvanceOver(back, {"s", "n"}))
         ELSE phase' = "no symbol" /\ UNCHANGED <<text, i, src, out, adj, r, toks>>

(* classify_numeric_literal reads the digits; position and                 *)
(* adjusted_position are put back, next_adjustment is not.                 *)
LexNumber ==
  LET back == BackUp(Advance(r))
      classified == AdvanceOver(back, {"n"})
  IN  /\ At({"n"})
      /\ Token(AdvanceOver([back EXCEPT !.next = classified.next], {"n"}))

Finish ==
  /\ phase = "lex" /\ r.pos >= Len(out)
  /\ phase' = "done"
  /\ UNCHANGED <<text, i, src, out, adj, r, toks>>

Done == phase \in {"done", "first adjustment", "no symbol"} /\ UNCHANGED vars

Next ==
  \/ SkipBlank \/ CopySymbol \/ CopyChars \/ HandleDirective \/ ExpandMacro \/ IncludeFile
  \/ Lex \/ LexBlank \/ LexPunct \/ LexSymbol \/ LexNumber \/ Finish \/ Done

Spec == Init /\ [][Next]_vars

-----------------------------------------------------------------------------
Located == \A x \in 1..Len(toks) : toks[x].start = toks[x].want

Has(kinds) == \E x \in 1..Len(text) : text[x].t \in kinds

(* No continuation, no include, no macro that ends in a number of several  *)
(* digits, and some character before the first directive or macro.         *)
Tracked ==
  /\ ~Has({"cont", "inc"})
  /\ \A x \in 1..Len(text) : text[x].t = "mac" => ~IsSuffix(<<"n", "n">>, text[x].body)
  /\ text # <<>> => text[1].t \notin {"dir", "mac"}

(* The adjustments the reader has applied are those up to its position. *)
NoAdjustmentMissed ==
  phase \in {"lex", "done"} => r.next = Cardinality({x \in 1..Len(adj) : adj[x].loc <= r.pos})

(***************************************************************************)
(* Every token is reported where it stands in the source, and those of a   *)
(* macro where the macro is used, however comments, directives and macros  *)
(* before it moved it.  The reader never loses step with the adjustments:  *)
(* as it looks for one location at a time, one that is passed by, or out   *)
(* of order, would stop all later ones.                                    *)
(***************************************************************************)
LocationsRight == NoAdjustmentMissed /\ (Tracked => Located)
=============================================================================
