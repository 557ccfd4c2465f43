---------------------------- MODULE Declarations ----------------------------
(***************************************************************************)
(* The types and objects that a sequence of declarations makes: tags,      *)
(* typedefs and scopes (ir_gen/decl.c, ir_gen.c, statement.c, context.c)   *)
(* over CType structures that are shared and changed in place              *)
(* (ir_gen/c_type.c).                                                      *)
(*                                                                         *)
(* A declaration is one item:                                              *)
(*   [d |-> "tag", tag]                    struct tag;                     *)
(*   [d |-> "struct", tag, kind, packed, fields]                           *)
(*   [d |-> "typedef", name, type]                                         *)
(*   [d |-> "enum", name, v]               enum { name = v };              *)
(*   [d |-> "object", name, type, extern, len]                             *)
(*                                         len complete initializers, not  *)
(*                                         all zero; 0: none               *)
(*   [d |-> "push"], [d |-> "pop"]         the braces of a block           *)
(* A type is a base (<<"int">>, <<"char">>, <<"tag", x>> or <<"alias", x>>) *)
(* and the derivations from it, in order: "pointer", "open" for an array   *)
(* without a length, or the name of a constant for one with it.  Memory    *)
(* that holds CTypes is the sequence heap; a pointer is an index.          *)
(***************************************************************************)
EXTENDS Integers, Sequences, SequencesExt, FiniteSetsExt, Layout

CONSTANTS Units,    \* the translation units: sequences of items
          Numbers   \* what the literals are that stand for array lengths

VARIABLES
  decls,     \* the translation unit
  done,      \* how many of its items are processed
  heap,      \* the CTypes
  structs,   \* type_env.struct_types: <<name, CType>>
  aliases,   \* type_env.typedef_types: <<name, CType>>
  scopes,    \* the scopes, innermost last: bindings in the order of ARRAY_APPEND
  globals,   \* the globals of the IrModule: [name, size, defined]
  status     \* "ok" or "error"

declVars == <<decls, done, heap, structs, aliases, scopes, globals, status>>

INT == 1
CHAR == 2
InitHeap == <<[k |-> "scalar", size |-> 4], [k |-> "scalar", size |-> 1]>>

-----------------------------------------------------------------------------
(* c_type.c.  The IR type of an array is one flat array in memory of its   *)
(* own: the copy of a CType shares it.  It holds a copy of the type of its  *)
(* elements.                                                                *)
Unknown == 0
Complete(h, t) == h[t].k # "struct" \/ ~h[t].incomplete

(* size_of_ir_type and align_of_ir_type of what c_type_to_ir_type returns.  *)
(* Of an incomplete struct, and of an array of no elements, it is an error. *)
SizeOf(h, t) ==
  CASE h[t].k = "scalar" -> h[t].size
    [] h[t].k = "pointer" -> 8
    [] h[t].k = "array" -> h[h[t].ir].n * h[h[t].ir].elem.size
    [] h[t].k = "struct" -> h[t].layout.size
AlignOf(h, t) ==
  CASE h[t].k = "array" -> h[h[t].ir].elem.align
    [] h[t].k = "struct" -> h[t].layout.align
    [] OTHER -> SizeOf(h, t)
HasSize(h, t) == Complete(h, t) /\ SizeOf(h, t) # 0

(* They append what they allocate; the CType is the last of it. *)
pointer_type(h, t) == Append(h, [k |-> "pointer", to |-> t])

array_type(h, t) ==
  h \o <<[k |-> "ir", n |-> IF h[t].k = "array" THEN h[h[t].ir].n ELSE 0,
          elem |-> IF h[t].k = "array" THEN h[h[t].ir].elem ELSE [size |-> SizeOf(h, t), align |-> AlignOf(h, t)]],
         [k |-> "array", elem |-> t, n |-> Unknown, incomplete |-> TRUE, ir |-> Len(h) + 1]>>

set_array_type_length(h, t, n) ==
  LET e == h[t].elem
  IN  [h EXCEPT ![t].n = n, ![t].incomplete = FALSE,
                ![h[t].ir].n = n * (IF h[e].k = "array" THEN h[h[e].ir].n ELSE 1)]

search(table, name) ==
  LET hits == {x \in DOMAIN table : table[x][1] = name} IN IF hits = {} THEN Unknown ELSE table[Min(hits)][2]

NoBinding == [name |-> "", type |-> Unknown, v |-> 0, storage |-> 0, item |-> 0]

\* Mutant: of the bindings of one name the last is found, of the outermost scope.
binding_for_name_Outermost(ss, name) ==
  LET with == {x \in DOMAIN ss : \E y \in DOMAIN ss[x] : ss[x][y].name = name}
  IN  IF with = {} THEN NoBinding
      ELSE LET s == ss[Min(with)] IN s[Min({y \in DOMAIN s : s[y].name = name})]

(* context.c: from the innermost scope out, the oldest binding first. *)
binding_for_name(ss, name) ==
  LET with == {x \in DOMAIN ss : \E y \in DOMAIN ss[x] : ss[x][y].name = name}
  IN  IF with = {} THEN NoBinding
      ELSE LET s == ss[Max(with)] IN s[Min({y \in DOMAIN s : s[y].name = name})]

(* eval_constant_expr of a length: 0 if it is not a constant. *)
Length(ss, name) == IF name \in DOMAIN Numbers THEN Numbers[name] ELSE binding_for_name(ss, name).v

-----------------------------------------------------------------------------
(* decl_specifier_list_to_c_type and decl_to_cdecl: c is what they read and *)
(* change, [heap, structs, ok]; t the type they return.                     *)
Fail(c) == [c EXCEPT !.ok = FALSE]

BaseType(c, base) ==
  CASE base[1] = "int" -> [c |-> c, t |-> INT]
    [] base[1] = "char" -> [c |-> c, t |-> CHAR]
    [] base[1] = "alias" -> LET t == search(aliases, base[2]) IN [c |-> IF t = Unknown THEN Fail(c) ELSE c, t |-> t]
    [] base[1] = "tag" ->
         LET t == search(c.structs, base[2])
             fresh == Len(c.heap) + 1
         IN  IF t # Unknown THEN [c |-> c, t |-> t]
             ELSE [c |-> [c EXCEPT !.heap = Append(@, [k |-> "struct", incomplete |-> TRUE]),
                                   !.structs = Append(@, <<base[2], fresh>>)], t |-> fresh]

Derive(r, step) ==
  LET h == r.c.heap
      made == IF step = "pointer" THEN pointer_type(h, r.t) ELSE array_type(h, r.t)
      sized == IF step \in {"pointer", "open"} THEN made ELSE set_array_type_length(made, Len(made), Length(scopes, step))
  IN  IF ~r.c.ok THEN r
      ELSE IF step # "pointer" /\ (~Complete(h, r.t) \/ (step # "open" /\ Length(scopes, step) = 0)) THEN [r EXCEPT !.c = Fail(@)]
      ELSE [c |-> [r.c EXCEPT !.heap = sized], t |-> Len(made)]

TypeOf(c, type) == FoldLeft(Derive, BaseType(c, type.base), type.steps)

Context == [heap |-> heap, structs |-> structs, ok |-> TRUE]

(* The fields of a struct, one after the other. *)
FieldsOf(c, fields) ==
  FoldLeft(LAMBDA s, f : IF ~s.c.ok THEN s ELSE LET r == TypeOf(s.c, f) IN [c |-> r.c, ts |-> Append(s.ts, r.t)],
           [c |-> c, ts |-> <<>>], fields)

(* infer_array_size_from_initializer completes the type it is given. *)
OpenArray(h, t) == h[t].k = "array" /\ h[t].incomplete
Inferred(h, t, len) == IF OpenArray(h, t) /\ len > 0 THEN set_array_type_length(h, t, len) ELSE h

-----------------------------------------------------------------------------
DeclInit ==
  /\ decls \in Units
  /\ done = 0 /\ heap = InitHeap /\ structs = <<>> /\ aliases = <<>>
  /\ scopes = <<<<>>>> /\ globals = <<>> /\ status = "ok"

Item == decls[done + 1]
Processing(kind) == status = "ok" /\ done < Len(decls) /\ Item.d = kind
Counted == done' = done + 1 /\ UNCHANGED decls
Bound(binding) == [scopes EXCEPT ![Len(scopes)] = Append(@, binding)]

(* struct tag; *)
DeclareTag ==
  /\ Processing("tag")
  /\ \E r \in {BaseType(Context, <<"tag", Item.tag>>)} : heap' = r.c.heap /\ structs' = r.c.structs
  /\ Counted /\ UNCHANGED <<aliases, scopes, globals, status>>

(* struct tag { fields }; completes the CType of the tag. *)
DefineStruct ==
  /\ Processing("struct")
  /\ \E r \in {BaseType(Context, <<"tag", Item.tag>>)} :
     \E f \in {FieldsOf(r.c, Item.fields)} :
       IF f.c.heap[r.t].incomplete /\ f.c.ok /\ \A x \in DOMAIN f.ts : HasSize(f.c.heap, f.ts[x])
       THEN /\ heap' = [f.c.heap EXCEPT ![r.t] =
                          [k |-> "struct", incomplete |-> FALSE, fields |-> f.ts,
                           layout |-> StructLayout(Item.kind, Item.packed, [x \in DOMAIN f.ts |-> SizeOf(f.c.heap, f.ts[x])],
                                                   [x \in DOMAIN f.ts |-> AlignOf(f.c.heap, f.ts[x])])]]
            /\ structs' = f.c.structs /\ UNCHANGED status
       ELSE status' = "error" /\ UNCHANGED <<heap, structs>>
  /\ Counted /\ UNCHANGED <<aliases, scopes, globals>>

(* The alias gets a copy of the CType.  In a block the storage class        *)
(* specifier is not a type specifier, an error.                             *)
Typedef ==
  /\ Processing("typedef")
  /\ \E r \in {TypeOf(Context, Item.type)} :
       IF r.c.ok /\ Len(scopes) = 1
       THEN /\ heap' = Append(r.c.heap, r.c.heap[r.t]) /\ structs' = r.c.structs
            /\ aliases' = Append(aliases, <<Item.name, Len(r.c.heap) + 1>>) /\ UNCHANGED status
       ELSE status' = "error" /\ UNCHANGED <<heap, structs, aliases>>
  /\ Counted /\ UNCHANGED <<scopes, globals>>

DefineEnumerator ==
  /\ Processing("enum")
  /\ scopes' = Bound([NoBinding EXCEPT !.name = Item.name, !.type = INT, !.v = Item.v, !.item = done + 1])
  /\ Counted /\ UNCHANGED <<heap, structs, aliases, globals, status>>

(* add_decl_to_scope: the object is a local of the size its type has now. *)
DeclareLocal ==
  /\ Processing("object") /\ Len(scopes) > 1
  /\ \E r \in {TypeOf(Context, Item.type)} :
     \E h \in {IF r.c.ok THEN Inferred(r.c.heap, r.t, Item.len) ELSE heap} :
       IF r.c.ok /\ ~Item.extern /\ HasSize(h, r.t)
       THEN /\ heap' = h /\ structs' = r.c.structs /\ UNCHANGED status
            /\ scopes' = Bound([NoBinding EXCEPT !.name = Item.name, !.type = r.t, !.storage = SizeOf(h, r.t), !.item = done + 1])
       ELSE status' = "error" /\ UNCHANGED <<heap, structs, scopes>>
  /\ Counted /\ UNCHANGED <<aliases, globals>>

(* ir_global_for_decl and ir_gen_toplevel: the first declaration of a name  *)
(* makes the global, with a copy of its IR type.                            *)
Global(h, t) ==
  LET known == {x \in DOMAIN globals : globals[x].name = Item.name}
  IN  IF known = {} THEN [name |-> Item.name, size |-> SizeOf(h, t), storage |-> 0] ELSE globals[Min(known)]

(* is_zero: a pointer is not, also without an initializer. *)
RECURSIVE HoldsPointer(_, _), LeavesUnset(_, _), DataSize(_, _)
HoldsPointer(h, t) ==
  CASE h[t].k = "scalar" -> FALSE
    [] h[t].k = "pointer" -> TRUE
    [] h[t].k = "array" -> HoldsPointer(h, h[t].elem)
    [] h[t].k = "struct" -> \E x \in DOMAIN h[t].fields : HoldsPointer(h, h[t].fields[x])

(* zero_initializer sets as many constants of an array as it has rows.      *)
LeavesUnset(h, t) ==
  CASE h[t].k = "array" -> h[h[t].ir].n > h[t].n \/ LeavesUnset(h, h[t].elem)
    [] h[t].k = "struct" -> \E x \in DOMAIN h[t].fields : LeavesUnset(h, h[t].fields[x])
    [] OTHER -> FALSE

(* The bytes that write_const writes: in front of a field as many as are    *)
(* missing up to its offset, behind the last one none.                      *)
DataSize(h, t) ==
  CASE h[t].k = "array" -> h[t].n * DataSize(h, h[t].elem)
    [] h[t].k = "struct" ->
         LET fs == h[t].fields
             at == h[t].layout.offsets
             Gap(x) == IF x = 1 THEN at[1] ELSE at[x] - (at[x - 1] + SizeOf(h, fs[x - 1]))
             Written(n, x) == n + (IF Gap(x) > 0 THEN Gap(x) ELSE 0) + DataSize(h, fs[x])
         IN  FoldLeft(Written, 0, [x \in DOMAIN fs |-> x])
    [] OTHER -> SizeOf(h, t)

(* generate_asm_module: zeros take the size of the global's type in .bss,   *)
(* any other constant its bytes in .data.  Unset is what depends on memory  *)
(* that nothing was written to.                                             *)
Unset == -1
Storage(h, t, len) ==
  IF len = 0 /\ LeavesUnset(h, t) THEN Unset
  ELSE IF len > 0 \/ HoldsPointer(h, t) THEN DataSize(h, t)
  ELSE Global(h, t).size

DeclareGlobal ==
  /\ Processing("object") /\ Len(scopes) = 1
  /\ \E r \in {TypeOf(Context, Item.type)} :
     \E h \in {IF r.c.ok THEN Inferred(r.c.heap, r.t, Item.len) ELSE heap} :
       IF r.c.ok /\ Complete(h, r.t) /\ (Item.extern \/ (~OpenArray(h, r.t) /\ (Item.len > 0 \/ Global(h, r.t).size # 0)))
       THEN \E g \in {[Global(h, r.t) EXCEPT !.storage = IF Item.extern THEN @ ELSE Storage(h, r.t, Item.len)]} :
            /\ heap' = h /\ structs' = r.c.structs /\ UNCHANGED status
            /\ globals' = SelectSeq(globals, LAMBDA other : other.name # g.name) \o <<g>>
            /\ scopes' = Bound([NoBinding EXCEPT !.name = Item.name, !.type = r.t, !.item = done + 1])
       ELSE status' = "error" /\ UNCHANGED <<heap, structs, scopes, globals>>
  /\ Counted /\ UNCHANGED aliases

PushScope ==
  /\ Processing("push")
  /\ scopes' = Append(scopes, <<>>)
  /\ Counted /\ UNCHANGED <<heap, structs, aliases, globals, status>>

PopScope ==
  /\ Processing("pop")
  /\ scopes' = Front(scopes)
  /\ Counted /\ UNCHANGED <<heap, structs, aliases, globals, status>>

Declared == (status = "error" \/ done = Len(decls)) /\ UNCHANGED declVars

DeclNext ==
  \/ DeclareTag \/ DefineStruct \/ Typedef \/ DefineEnumerator \/ DeclareLocal \/ DeclareGlobal
  \/ PushScope \/ PopScope \/ Declared

-----------------------------------------------------------------------------
(* What C means by the unit.  Item j is visible at k if its block is open.  *)
DepthAt(k) == Cardinality({j \in 1..(k - 1) : decls[j].d = "push"}) - Cardinality({j \in 1..(k - 1) : decls[j].d = "pop"})
VisibleAt(k) == {j \in 1..(k - 1) : \A m \in (j + 1)..k : DepthAt(m) >= DepthAt(j)}
Declares(kinds, name, k) ==
  LET js == {j \in VisibleAt(k) : decls[j].d \in kinds /\ decls[j].name = name}
  IN  {j \in js : \A m \in js : DepthAt(m) <= DepthAt(j)}
Completes(tag, k) == {j \in VisibleAt(k) : decls[j].d = "struct" /\ decls[j].tag = tag}

LengthAt(step, k) ==
  IF step \in DOMAIN Numbers THEN Numbers[step]
  ELSE LET js == Declares({"enum", "object"}, step, k)
       IN  IF js = {} \/ decls[Max(js)].d = "object" THEN 0 ELSE decls[Max(js)].v

Bad == {"invalid", "element"}
Open == {"open", "rows"}
Invalid == [k |-> "invalid"]
LeastMultiple(align, from) == Min({n \in from..(from + align) : n % align = 0})

(* The type, written at item k, as it is at item now: an incomplete struct  *)
(* has size 0, and so has an array without a length.  The offset of a field *)
(* is the least that its alignment allows.  What the type holds: pointers,  *)
(* arrays of arrays ("rows"), and structs with padding behind the last      *)
(* field, or unions ("ragged").                                             *)
RECURSIVE TypeMeant(_, _, _), Fields(_), FieldOffset(_, _)
TypeMeant(type, k, now) ==
  LET base == CASE type.base[1] = "int" -> [k |-> "object", size |-> 4, align |-> 4, holds |-> {}]
                [] type.base[1] = "char" -> [k |-> "object", size |-> 1, align |-> 1, holds |-> {}]
                [] type.base[1] = "alias" ->
                     LET js == Declares({"typedef"}, type.base[2], k)
                     IN  IF js = {} THEN Invalid ELSE TypeMeant(decls[Max(js)].type, Max(js), now)
                [] type.base[1] = "tag" ->
                     LET js == Completes(type.base[2], now)
                         j == Max(js)
                         fs == Fields(j)
                         ends == {FieldOffset(j, x) + fs[x].size : x \in DOMAIN fs}
                         align == IF decls[j].packed THEN 1 ELSE Max({fs[x].align : x \in DOMAIN fs})
                         size == LeastMultiple(align, Max(ends))
                         ragged == decls[j].kind = "union" \/ size > Max(ends)
                     IN  IF js = {} THEN [k |-> "object", size |-> 0, align |-> 1, holds |-> {}]
                         ELSE [k |-> "object", size |-> size, align |-> align,
                               holds |-> UNION {fs[x].holds : x \in DOMAIN fs} \cup (IF ragged THEN {"ragged"} ELSE {})]
      Step(t, step) ==
        IF t.k \in Bad THEN t
        ELSE IF step = "pointer" THEN [k |-> "object", size |-> 8, align |-> 8, holds |-> {"pointer"}]
        ELSE IF t.k \in Open THEN [k |-> "element"]
        ELSE IF t.size = 0 \/ (step # "open" /\ LengthAt(step, k) = 0) THEN Invalid
        ELSE [t EXCEPT !.k = IF step # "open" THEN "array" ELSE IF t.k = "array" THEN "rows" ELSE "open",
                       !.size = IF step = "open" THEN 0 ELSE @ * LengthAt(step, k),
                       !.holds = IF t.k = "array" THEN @ \cup {"rows"} ELSE @]
  IN  FoldLeft(Step, base, type.steps)
Fields(j) == [x \in DOMAIN decls[j].fields |-> TypeMeant(decls[j].fields[x], j, j)]
FieldOffset(j, x) ==
  IF decls[j].kind = "union" \/ x = 1 THEN 0
  ELSE LET end == FieldOffset(j, x - 1) + Fields(j)[x - 1].size
       IN  IF decls[j].packed THEN end ELSE LeastMultiple(Fields(j)[x].align, end)

(* The size of an object of the type, len initializers given.  The length   *)
(* of an open array comes from them.                                        *)
ElementOf(type) == [type EXCEPT !.steps = Front(@)]
RECURSIVE SizeMeant(_, _, _, _)
SizeMeant(type, k, now, len) ==
  LET t == TypeMeant(type, k, now)
  IN  IF t.k \in Bad THEN 0
      ELSE IF t.k \notin Open THEN t.size
      ELSE IF type.steps # <<>> THEN len * TypeMeant(ElementOf(type), k, now).size
      ELSE LET j == Max(Declares({"typedef"}, type.base[2], k)) IN SizeMeant(decls[j].type, j, now, len)

(* Item k is one that C and this compiler accept: a block has no typedef    *)
(* and no extern, a struct no flexible member, and no array has a length    *)
(* that is not known.                                                       *)
ValidAt(k) ==
  LET i == decls[k]
  IN  CASE i.d = "struct" -> Completes(i.tag, k) = {} /\ \A x \in DOMAIN i.fields : Fields(k)[x].k \notin Bad /\ Fields(k)[x].size > 0
        [] i.d = "typedef" -> TypeMeant(i.type, k, k).k \notin Bad /\ DepthAt(k) = 0
        [] i.d = "object" -> /\ TypeMeant(i.type, k, k).k \notin Bad
                             /\ IF i.extern THEN DepthAt(k) = 0 ELSE SizeMeant(i.type, k, k, i.len) > 0
        [] OTHER -> TRUE

(* The declarations this compiler is known to treat otherwise than C.       *)
(* A typedef copies a struct that is completed later,                       *)
AliasOfIncomplete(k) ==
  \E j \in 1..k : decls[j].d = "typedef" /\ decls[j].type.steps = <<>> /\ TypeMeant(decls[j].type, j, j) # TypeMeant(decls[j].type, j, k + 1)
(* an open array in a typedef is completed by the first object of it,       *)
OpenAliasCompleted(k) ==
  \E j \in 1..k : /\ decls[j].d = "object" /\ decls[j].len > 0 /\ decls[j].type.steps = <<>> /\ TypeMeant(decls[j].type, j, j).k \in Open
                  /\ \E m \in 1..k : m # j /\ decls[m].d \in {"object", "typedef"} /\ decls[m].type.base = decls[j].type.base
(* a global keeps the open array of its first declaration,                  *)
OpenFirst(k) ==
  \E j \in 1..k, m \in 1..k : /\ decls[j].d = "object" /\ decls[j].extern /\ TypeMeant(decls[j].type, j, j).k \in Open
                             /\ m > j /\ decls[m].d = "object" /\ decls[m].name = decls[j].name /\ DepthAt(m) = 0
(* an extern struct must be complete,                                       *)
ExternIncomplete(k) ==
  \E j \in 1..k : decls[j].d = "object" /\ decls[j].extern /\ TypeMeant(decls[j].type, j, j).k = "object" /\ TypeMeant(decls[j].type, j, j).size = 0
(* a name declared twice in a scope as different things is not an error,    *)
Redeclared(k) ==
  \E m \in 1..k : \E j \in VisibleAt(m) :
    /\ {decls[j].d, decls[m].d} \subseteq {"object", "enum", "typedef"}
    /\ decls[j].name = decls[m].name /\ DepthAt(j) = DepthAt(m)
    /\ \/ {decls[j].d, decls[m].d} # {"object"} \/ DepthAt(j) > 0
       \/ TypeMeant(decls[j].type, j, m).k \notin Open /\ TypeMeant(decls[j].type, j, m) # TypeMeant(decls[m].type, m, m)
(* an open array of arrays has one row, and an open array is an element,    *)
(* where each should be an error,                                           *)
OpenRows(k) ==
  \E j \in 1..k :
    \/ decls[j].d = "object" /\ decls[j].len = 0 /\ TypeMeant(decls[j].type, j, j).k \in {"rows", "element"}
    \/ decls[j].d = "typedef" /\ TypeMeant(decls[j].type, j, j).k = "element"
    \/ decls[j].d = "struct" /\ \E x \in DOMAIN decls[j].fields : Fields(j)[x].k \in {"rows", "element"}
(* and tags have no scope.                                                  *)
TagInBlock(k) == \E j \in 1..k : decls[j].d \in {"tag", "struct"} /\ DepthAt(j) > 0

Supported(k) == ~(AliasOfIncomplete(k) \/ OpenAliasCompleted(k) \/ OpenFirst(k) \/ ExternIncomplete(k) \/ Redeclared(k) \/ OpenRows(k) \/ TagInBlock(k))

ObjectNames == {decls[j].name : j \in {m \in DOMAIN decls : decls[m].d \in {"object", "enum"}}}

(* What is known of the storage of a global that item j defines: in .data, *)
(* where a pointer is also if it is zero, padding behind the last field is *)
(* left out and all members of a union are written; and without an         *)
(* initializer the rows of arrays of arrays are not set.                   *)
StorageKept(j) ==
  LET holds == TypeMeant(decls[j].type, j, j).holds
      data == decls[j].len > 0 \/ "pointer" \in holds
  IN  ~(data /\ "ragged" \in holds) /\ ~(decls[j].len = 0 /\ "rows" \in holds)

(***************************************************************************)
(* The compiler stops at the first declaration that is not one it accepts, *)
(* and until then every struct has the layout of the ABI, every name finds *)
(* the declaration that C's scopes give it, with a type of the size C says *)
(* it has now, every local has storage of that size, and so has every      *)
(* global, but for those that StorageKept leaves out: although a tag is    *)
(* completed in place behind the types derived from it, an array's length  *)
(* is filled in after its type is made, and the type is shared.            *)
(* (decl.c:231, c_type.c:238, context.c:6, ir_gen.c:205, statement.c:387)  *)
(***************************************************************************)
TypesRight ==
  done > 0 /\ Supported(done) =>
    /\ (status = "ok") = ValidAt(done)
    /\ status = "ok" =>
         /\ \A j \in VisibleAt(done + 1) : decls[j].d = "struct" =>
              heap[search(structs, decls[j].tag)].layout.offsets = [x \in DOMAIN decls[j].fields |-> FieldOffset(j, x)]
         /\ \A name \in ObjectNames :
              LET js == Declares({"enum", "object"}, name, done + 1)
                  j == Max(js)
                  b == binding_for_name(scopes, name)
                  size == SizeMeant(decls[j].type, j, done + 1, decls[j].len)
              IN  IF js = {} THEN b = NoBinding
                  ELSE /\ b.item \in js
                       /\ IF decls[j].d = "enum" THEN b.v = decls[j].v
                          ELSE IF DepthAt(j) > 0 THEN b.storage = size /\ SizeOf(heap, b.type) = size
                          ELSE LET g == CHOOSE x \in Range(globals) : x.name = name
                                   defining == {m \in js : ~decls[m].extern}
                               IN  /\ SizeOf(heap, b.type) = size
                                   /\ IF defining = {} THEN g.storage = 0
                                      ELSE StorageKept(Max(defining)) => g.storage = size
=============================================================================
