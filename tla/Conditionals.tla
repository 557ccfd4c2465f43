---------------------------- MODULE Conditionals ----------------------------
(***************************************************************************)
(* Directives of the preprocessor, src/src/syntax/preprocess.c:            *)
(* preprocess_aux with skip_to_next_directive, handle_pp_directive,        *)
(* start_pp_if and preprocess_file.  One step handles one line.            *)
(*                                                                         *)
(* A file is a sequence of lines [k, ...]: "text", "if" and "elif" with a  *)
(* condition v that is "true", "false" or cannot be evaluated ("bad"),     *)
(* "ifdef", "ifndef", "define" and "undef" with a macro name m, "include"  *)
(* with a file, "else", "endif", "error", and "unknown" for any other      *)
(* directive.  The last line of a file may be cut: no newline ends it.     *)
(***************************************************************************)
EXTENDS Integers, FiniteSetsExt, SequencesExt

CONSTANTS
  Programs,    \* the sets of files to preprocess: each a function from names
  MaxDepth     \* bound: files open at a time

Main == "main"

VARIABLES
  files,    \* the file system
  readers,  \* PP.reader and the old_reader of each preprocess_file below it
  scopes,   \* PP.pp_scope_stack, of [condition, position]
  env,      \* PP.macro_env: the names that are defined
  out,      \* PP.out_chars: the text lines, by file and line
  res       \* "running", "ok", "endless", or the error that was reported

vars == <<files, readers, scopes, env, out, res>>

Init ==
  /\ files \in Programs
  /\ readers = <<[file |-> Main, line |-> 1]>>
  /\ scopes = <<>> /\ env = {} /\ out = <<>> /\ res = "running"

Reader == Last(readers)
LastLine == Reader.line = Len(files[Reader.file])
AtEnd == Reader.line > Len(files[Reader.file])
Line == files[Reader.file][Reader.line]
Cut(line) == "cut" \in DOMAIN line

IgnoringChars == scopes # <<>> /\ ~Last(scopes).condition

(* The next line is of one of these kinds, and preprocess_aux is there. *)
At(kinds) == res = "running" /\ ~AtEnd /\ Line.k \in kinds

(* A loop that looks only for the newline reads beyond the end of a file   *)
(* without one, as long as there is memory for what it appends.            *)
ReadsOn == res' = "endless" /\ UNCHANGED <<files, readers, scopes, env, out>>

NextLine == readers' = [readers EXCEPT ![Len(readers)].line = @ + 1]

Report(error) == res' = error /\ UNCHANGED <<files, readers, scopes, env, out>>

-----------------------------------------------------------------------------
(* Text *)
CopyText ==
  /\ At({"text"}) /\ ~IgnoringChars
  /\ out' = Append(out, <<Reader.file, Reader.line>>)
  /\ NextLine
  /\ UNCHANGED <<files, scopes, env, res>>

SkipToNextDirective ==
  LET later == {x \in Reader.line..Len(files[Reader.file]) : files[Reader.file][x].k # "text"}
  IN  /\ At({"text"}) /\ IgnoringChars
      /\ IF later = {} THEN Report("unterminated")
         ELSE /\ readers' = [readers EXCEPT ![Len(readers)].line = Min(later)]
              /\ UNCHANGED <<files, scopes, env, out, res>>

-----------------------------------------------------------------------------
(* Conditionals *)
(* start_pp_if *)
PushScope(condition) ==
  Append(scopes, [condition |-> condition /\ ~IgnoringChars, position |-> "then"])

SetScopes(s) == scopes' = s /\ NextLine /\ UNCHANGED <<files, env, out, res>>

(* eval_pp_condition: what is wrong with a condition may show before or    *)
(* only after the end of the line has been found.                          *)
Evaluated ==
  /\ Line.v = "bad" => Report("condition") \/ (Cut(Line) /\ ReadsOn)
  /\ Line.v # "bad" => ReadsOn

If ==
  /\ At({"if"})
  /\ IF ~IgnoringChars /\ (Line.v = "bad" \/ Cut(Line)) THEN Evaluated
     ELSE SetScopes(PushScope(Line.v = "true"))

Ifdef ==
  /\ At({"ifdef", "ifndef"})
  /\ SetScopes(PushScope((Line.m \in env) = (Line.k = "ifdef")))

Top == scopes[Len(scopes)]
SetTop(scope) == [scopes EXCEPT ![Len(scopes)] = scope]

Elif_ForgetsTaken ==
  /\ At({"elif"})
  /\ IF scopes = <<>> THEN Report("elif without if")
     ELSE IF Top.condition
       THEN SetScopes(SetTop([condition |-> FALSE, position |-> "then"]))
     ELSE IF Line.v = "bad" \/ Cut(Line) THEN Evaluated
     ELSE SetScopes(IF Top.position = "then" /\ Line.v = "true"
                    THEN SetTop([Top EXCEPT !.condition = TRUE]) ELSE scopes)

(* Behind the section taken the condition is left unread, as text that is   *)
(* skipped.                                                                *)
Elif ==
  /\ At({"elif"})
  /\ IF scopes = <<>> THEN Report("elif without if")
     ELSE IF Top.condition
       THEN IF LastLine THEN Report("unterminated")
            ELSE SetScopes(SetTop([condition |-> FALSE, position |-> "else"]))
     ELSE IF Line.v = "bad" \/ Cut(Line) THEN Evaluated
     ELSE SetScopes(IF Top.position = "then" /\ Line.v = "true"
                    THEN SetTop([Top EXCEPT !.condition = TRUE]) ELSE scopes)

(* Without any scope ARRAY_LAST reads far outside the array. *)
Else ==
  LET outer == Len(scopes) >= 2 => scopes[Len(scopes) - 1].condition
  IN  /\ At({"else"})
      /\ IF scopes = <<>> THEN Report("undefined behaviour")
         ELSE IF Top.position = "else" THEN Report("duplicate else")
         ELSE SetScopes(SetTop([condition |-> ~Top.condition /\ outer, position |-> "else"]))

Endif ==
  /\ At({"endif"})
  /\ IF scopes = <<>> THEN Report("unmatched endif") ELSE SetScopes(Front(scopes))

-----------------------------------------------------------------------------
(* The other directives, which a false conditional skips with what is      *)
(* behind the name as with text.                                           *)
SkipDirective ==
  /\ At({"define", "undef", "include", "error", "unknown"}) /\ IgnoringChars
  /\ IF LastLine /\ Line.k # "unknown" THEN Report("unterminated")
     ELSE NextLine /\ UNCHANGED <<files, scopes, env, out, res>>

DefinedBy_Nothing(line) == env

DefinedBy(line) == IF line.k = "define" THEN env \cup {line.m} ELSE env \ {line.m}

Define ==
  /\ At({"define", "undef"}) /\ ~IgnoringChars
  /\ IF Line.k = "define" /\ Cut(Line) THEN ReadsOn
     ELSE env' = DefinedBy(Line) /\ NextLine /\ UNCHANGED <<files, scopes, out, res>>

(* look_up_include_path and preprocess_file; the directive is finished     *)
(* when the file has been read.  A path with nothing behind it counts as   *)
(* not terminated.                                                         *)
Include ==
  /\ At({"include"}) /\ ~IgnoringChars
  /\ Len(readers) < MaxDepth
  /\ IF Cut(Line) THEN Report("unterminated include path")
     ELSE IF Line.file \notin DOMAIN files THEN Report("file not found")
     ELSE /\ readers' = Append([readers EXCEPT ![Len(readers)].line = @ + 1],
                               [file |-> Line.file, line |-> 1])
          /\ UNCHANGED <<files, scopes, env, out, res>>

Unknown ==
  /\ At({"unknown"}) /\ ~IgnoringChars
  /\ Report("invalid directive")

Error ==
  /\ At({"error"}) /\ ~IgnoringChars
  /\ IF Cut(Line) THEN ReadsOn ELSE Report("error")

EndOfFile ==
  /\ res = "running" /\ AtEnd
  /\ IF Len(readers) = 1 THEN res' = "ok" /\ UNCHANGED readers
     ELSE readers' = Front(readers) /\ UNCHANGED res
  /\ UNCHANGED <<files, scopes, env, out>>

Done == res # "running" /\ UNCHANGED vars

Step ==
  \/ CopyText \/ SkipToNextDirective
  \/ If \/ Ifdef \/ Elif \/ Else \/ Endif
  \/ SkipDirective \/ Define \/ Include \/ Unknown \/ Error \/ EndOfFile

Next == Step \/ Done

Spec == Init /\ [][Next]_vars /\ WF_vars(Step)

-----------------------------------------------------------------------------
(***************************************************************************)
(* What the directives of C99 6.10.1 mean for one list of lines L, said    *)
(* without a stack.                                                        *)
(***************************************************************************)
Opens == {"if", "ifdef", "ifndef"}
Branches == {"elif", "else"}

Count(L, kinds, a, b) == Cardinality({x \in a..b : L[x].k \in kinds})
Inside(L, j, i) == \A x \in j..(i - 1) : Count(L, Opens, j, x) > Count(L, {"endif"}, j, x)

Enclosing(L, i) == {j \in 1..(i - 1) : L[j].k \in Opens /\ Inside(L, j, i)}

(* The #if at j and its #elif and #else lines, up to line i. *)
Sections(L, j, i) ==
  {j} \cup {x \in (j + 1)..i : /\ L[x].k \in Branches
                              /\ Inside(L, j, x) /\ ~\E y \in Enclosing(L, x) : y > j}

(* The conditional a line of its own belongs to: its #if. *)
Owner(L, i) == Max(Enclosing(L, i))

Meaning(L) ==
  LET active[i \in 1..Len(L)] ==
        LET definedAt(m, b) ==
              LET last == {x \in 1..(b - 1) : L[x].k \in {"define", "undef"} /\ L[x].m = m /\ active[x]}
              IN  last # {} /\ L[Max(last)].k = "define"
            holds(b) == CASE L[b].k = "else" -> TRUE
                          [] L[b].k \in {"if", "elif"} -> L[b].v = "true"
                          [] L[b].k = "ifdef" -> definedAt(L[b].m, b)
                          [] L[b].k = "ifndef" -> ~definedAt(L[b].m, b)
            taken(j) == LET s == Max(Sections(L, j, i - 1))
                        IN  holds(s) /\ \A b \in Sections(L, j, i - 1) \ {s} : ~holds(b)
            outer == IF L[i].k \in Branches \cup {"endif"}
                     THEN Enclosing(L, i) \ {Owner(L, i)} ELSE Enclosing(L, i)
        IN  \A j \in outer : taken(j)
      firstTrue(j, i) ==
        \A b \in Sections(L, j, i - 1) : L[b].k \in {"if", "elif"} => L[b].v # "true"
  IN  [active |-> active,
       (* No earlier section of the conditional of line i is taken. *)
       open |-> [i \in 1..Len(L) |-> L[i].k \in Branches => firstTrue(Owner(L, i), i)]]

WellNested(L) ==
  /\ Count(L, Opens, 1, Len(L)) = Count(L, {"endif"}, 1, Len(L))
  /\ \A i \in 1..Len(L) : L[i].k \in Branches \cup {"endif"} => Enclosing(L, i) # {}
  /\ \A i \in 1..Len(L) : L[i].k \in Branches =>
       \A b \in Sections(L, Owner(L, i), i - 1) : L[b].k # "else"

Needed(L, i) == Meaning(L).active[i] /\ (L[i].k = "elif" => Meaning(L).open[i])

(* Directives that are wrong, and those the code cannot read to the end.   *)
NeedsNewline(line) == Cut(line) /\ line.k \in {"if", "elif", "define", "error"}
Wrong(line) == \/ line.k \in {"unknown", "error"} \/ NeedsNewline(line)
               \/ line.k \in {"if", "elif"} /\ line.v = "bad"
               \/ line.k = "include" /\ Cut(line)
WrongLines(L) == {i \in 1..Len(L) : Needed(L, i) /\ Wrong(L[i])}

(* The main file with what it includes in place. *)
Flat == LET lines(x) == IF files[Main][x].k = "include" /\ ~Cut(files[Main][x]) /\ files[Main][x].file \in DOMAIN files
                        THEN [y \in 1..Len(files[files[Main][x].file]) |->
                                [line |-> files[files[Main][x].file][y], at |-> <<files[Main][x].file, y>>]]
                        ELSE <<[line |-> files[Main][x], at |-> <<Main, x>>]>>
        IN  FlattenSeq([x \in 1..Len(files[Main]) |-> lines(x)])
Lines == [x \in 1..Len(Flat) |-> Flat[x].line]

TextLines(L) == {i \in 1..Len(L) : L[i].k = "text" /\ Meaning(L).active[i]}
TextOf(L) == [x \in 1..Cardinality(TextLines(L)) |->
                Flat[CHOOSE i \in TextLines(L) : Cardinality({y \in TextLines(L) : y <= i}) = x].at]

(* A file that includes to nothing the second time. *)
Guarded(file) ==
  /\ file \in DOMAIN files
  /\ \E m \in {files[file][1].m} : /\ files[file][1] = [k |-> "ifndef", m |-> m]
                                   /\ files[file][2] = [k |-> "define", m |-> m]

(* Programs on which the code and the standard are meant to agree: no      *)
(* #elif of a conditional that is skipped as a whole, and after an #elif   *)
(* that follows the section taken, no #else and no odd condition.          *)
Supported(L) ==
  /\ WellNested(L)
  /\ \A x \in DOMAIN files[Main] : files[Main][x].k = "include" /\ files[Main][x].file \in DOMAIN files
                                   => WellNested(files[files[Main][x].file])
  /\ \A i \in 1..Len(L) : L[i].k = "elif" => Meaning(L).active[i]
  /\ \A i \in 1..Len(L) :
       L[i].k = "else" \/ (L[i].k = "elif" /\ L[i].v = "bad") =>
         \A b \in Sections(L, Owner(L, i), i - 1) \ {Owner(L, i)} : Meaning(L).open[b]
  /\ \A x \in 1..Len(L) : L[x].k = "include" => Cut(L[x]) \/ ~Meaning(L).active[x] \/ Guarded(L[x].file)

(***************************************************************************)
(* On supported programs exactly the text of the sections taken is copied, *)
(* in order, whatever is nested in the others, and an error is reported    *)
(* exactly when a directive in a section taken is wrong.  The exception is *)
(* a first wrong line that is only wrong because it ends the file: there   *)
(* handle_pp_directive never comes back.                                   *)
(***************************************************************************)
OutputRight ==
  res # "running" /\ Supported(Lines) =>
    IF WrongLines(Lines) = {} THEN res = "ok" /\ out = TextOf(Lines)
    ELSE IF NeedsNewline(Lines[Min(WrongLines(Lines))]) THEN res = "endless"
    ELSE res \in {"condition", "invalid directive", "error", "unterminated include path"}

(* No file ends in a directive that is looked for the newline of.          *)
NewlinesThere ==
  \A f \in DOMAIN files : files[f] # <<>> => ~NeedsNewline(Last(files[f]))
=============================================================================
