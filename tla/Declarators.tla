----------------------------- MODULE Declarators -----------------------------
(***************************************************************************)
(* From the specifiers and the declarator of a declaration to the type it  *)
(* gives its name: named_type_specifier_to_ctype of c_type.c, and          *)
(* decl_to_cdecl and direct_declarator_to_cdecl of decl.c.                 *)
(*                                                                         *)
(* Trees are those of module Parser.  A type is <<"int">> and so on,       *)
(* <<"pointer", t>>, <<"array", length, t>> or                             *)
(* <<"function", result, parameters, variadic>>; <<"error">> stands for a  *)
(* fatal error.                                                            *)
(***************************************************************************)
EXTENDS Integers, Sequences, SequencesExt

Error == <<"error">>

(* The specifier sequences that stand for a built-in type. *)
Spellings ==
  [void |-> {<<"void">>}, _Bool |-> {<<"_Bool">>}, float |-> {<<"float">>}, double |-> {<<"double">>},
   char |-> {<<"char">>, <<"signed", "char">>}, unsigned_char |-> {<<"unsigned", "char">>},
   short |-> {<<"short">>, <<"signed", "short">>, <<"short", "int">>, <<"signed", "short", "int">>},
   unsigned_short |-> {<<"unsigned", "short">>, <<"unsigned", "short", "int">>},
   int |-> {<<"int">>, <<"signed">>, <<"signed", "int">>},
   unsigned_int |-> {<<"unsigned">>, <<"unsigned", "int">>},
   long |-> {<<"long">>, <<"signed", "long">>, <<"long", "int">>, <<"signed", "long", "int">>},
   unsigned_long |-> {<<"unsigned", "long">>, <<"unsigned", "long", "int">>},
   long_long |-> {<<"long", "long">>, <<"signed", "long", "long">>, <<"long", "long", "int">>,
                  <<"signed", "long", "long", "int">>},
   unsigned_long_long |-> {<<"unsigned", "long", "long">>, <<"unsigned", "long", "long", "int">>},
   long_double |-> {<<"long", "double">>}]

(* matches_sequence takes specifiers in their order, all of them. *)
named_type_specifier_to_ctype(words, typedefs) ==
  LET built == {t \in DOMAIN Spellings : words \in Spellings[t]}
  IN  IF built # {} THEN <<CHOOSE t \in built : TRUE>>
      ELSE IF words[1] \in DOMAIN typedefs THEN typedefs[words[1]]
      ELSE Error

(* Leading qualifiers are skipped; one after a specifier is an assertion    *)
(* that fails in matches_sequence, and a tag is a type of its own.          *)
RECURSIVE decl_specifier_list_to_c_type(_, _)
decl_specifier_list_to_c_type(specs, typedefs) ==
  IF specs = <<>> THEN Error
  ELSE CASE specs[1][1] = "qualifier" -> decl_specifier_list_to_c_type(Tail(specs), typedefs)
         [] specs[1][1] = "struct_tag" -> <<"struct", specs[1][3][1]>>
         [] specs[1][1] = "named" ->
              IF \A k \in DOMAIN specs : specs[k][1] = "named"
              THEN named_type_specifier_to_ctype([k \in DOMAIN specs |-> specs[k][2][1]], typedefs)
              ELSE Error
         [] OTHER -> Error

decay_to_pointer(t) == IF t[1] = "array" THEN <<"pointer", t[3]>> ELSE t

RECURSIVE decl_to_cdecl(_, _, _), ParameterTypes(_, _)

decl_to_cdecl(t, d, typedefs) ==
  CASE d = <<>> -> [name |-> <<>>, type |-> t]
    [] d # <<>> /\ d[1] = "ident" -> [name |-> d[2], type |-> t]
    [] d # <<>> /\ d[1] = "pointer" -> decl_to_cdecl(<<"pointer", t>>, d[3], typedefs)
    [] d # <<>> /\ d[1] = "array" ->
         LET elem == decl_to_cdecl(t, d[3], typedefs) IN [elem EXCEPT !.type = <<"array", d[2], @>>]
    [] d # <<>> /\ d[1] = "function_of" ->
         LET variadic == d[2] # <<>> /\ Last(d[2])[1] = "ellipsis"
             listed == ParameterTypes(d[2], typedefs)
             nullary == listed = <<<<"void">>>>
             wrong == \/ Error \in Range(listed)
                      \/ nullary /\ variadic
                      \/ \E k \in 1..(Len(d[2]) - 1) : d[2][k][1] = "ellipsis"
         IN  IF wrong THEN [name |-> <<>>, type |-> Error]
             ELSE decl_to_cdecl(<<"function", t, IF nullary THEN <<>> ELSE listed, variadic>>, d[3], typedefs)

(* Arrays decay; void is an error unless it is first and has no name. *)
ParameterTypes(params, typedefs) ==
  LET given == SelectSeq(params, LAMBDA p : p[1] = "param")
      Of(k) == LET c == decl_to_cdecl(decl_specifier_list_to_c_type(given[k][2], typedefs), given[k][3], typedefs)
               IN  IF c.type = <<"void">> /\ (k > 1 \/ c.name # <<>>) THEN Error ELSE decay_to_pointer(c.type)
  IN  [k \in DOMAIN given |-> Of(k)]

(* ir_gen_toplevel: typedefs add to the environment, other declarations     *)
(* have at most one declarator.                                             *)
Declare(env, decl) ==
  LET storage == decl[2] # <<>> /\ decl[2][1][1] = "storage"
      typedef == storage /\ decl[2][1][2] = <<"typedef">>
      base == decl_specifier_list_to_c_type(IF storage THEN Tail(decl[2]) ELSE decl[2], env.typedefs)
      Of(k) == decl_to_cdecl(base, decl[3][k][2], env.typedefs)
  IN  IF typedef THEN [env EXCEPT !.typedefs = @ @@ [n \in {Of(k).name[1] : k \in DOMAIN decl[3]} |->
                                                      Of(CHOOSE k \in DOMAIN decl[3] : Of(k).name = <<n>>).type]]
      ELSE IF Len(decl[3]) > 1 THEN [env EXCEPT !.objects = Append(@, Error)]
      ELSE [env EXCEPT !.objects = @ \o [k \in DOMAIN decl[3] |-> <<Of(k).name, Of(k).type>>]]

Declared(decls) == FoldLeft(Declare, [typedefs |-> <<>>, objects |-> <<>>], decls)
=============================================================================
