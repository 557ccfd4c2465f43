---------------------------- MODULE Initializers ----------------------------
(***************************************************************************)
(* The initializer of a declaration or of a compound literal, from its     *)
(* syntax tree to the bytes of the object: ir_gen/initializer.c and, for   *)
(* objects of static storage, write_const and is_zero of backend/asm_gen.c.*)
(*                                                                         *)
(* A type is [k |-> "int"], "char" or "pointer", [k |-> "array", n, elem]  *)
(* (n = 0: the length is missing) or [k |-> "struct" or "union", packed,   *)
(* fields].  An initializer is a value, a string, an object of struct type *)
(* or a brace list of elements [ds, init]; a designator is the position it *)
(* selects, from 1.  Values are names; a byte is the value and its number.   *)
(***************************************************************************)
EXTENDS Integers, Sequences, SequencesExt, FiniteSetsExt, Layout

CONSTANT Objects   \* what is initialized: [type, init, static]

VARIABLES
  object,   \* the declaration
  type,     \* its type, completed
  phase,    \* "infer", "make", "clear", "store", "const", "done"
  c_init,   \* the CInitializer
  stores,   \* the stores still to be executed
  memory    \* the object: from offsets to bytes

initVars == <<object, type, phase, c_init, stores, memory>>

Scalars == {"int", "char", "pointer"}
Char == [k |-> "char"]
ScalarSize(k) == CASE k = "char" -> 1 [] k = "int" -> 4 [] k = "pointer" -> 8

RECURSIVE Size(_), Align(_)
LayoutOf(t) == StructLayout(t.k, t.packed, [x \in DOMAIN t.fields |-> Size(t.fields[x])], [x \in DOMAIN t.fields |-> Align(t.fields[x])])
Size(t) == IF t.k \in Scalars THEN ScalarSize(t.k) ELSE IF t.k = "array" THEN t.n * Size(t.elem) ELSE LayoutOf(t).size
Align(t) == IF t.k \in Scalars THEN ScalarSize(t.k) ELSE IF t.k = "array" THEN Align(t.elem) ELSE LayoutOf(t).align

c_type_num_fields(t) == IF t.k = "array" THEN t.n ELSE Len(t.fields)
FieldType(t, x) == IF t.k = "array" THEN t.elem ELSE t.fields[x]
FieldOffset(t, x) == IF t.k = "array" THEN (x - 1) * Size(t.elem) ELSE LayoutOf(t).offsets[x]

ZERO == "0"
Byte(value, x) == <<value, IF value = ZERO THEN 0 ELSE x>>
Bytes(value, size) == [x \in 1..size |-> Byte(value, x - 1)]

-----------------------------------------------------------------------------
(* CInitializers.  u is NULL, the array of the elements or the value of a   *)
(* leaf; a node that memset cleared has no type and counts as compound.     *)
(* Corrupt is what is left when the code reads or writes outside an array   *)
(* of elements, or takes a value for one; also where it gives up.           *)
Null == <<>>
NoType == [k |-> "none"]
Cleared == [type |-> NoType, t |-> "compound", u |-> Null]
Corrupt == [type |-> NoType, t |-> "corrupt", u |-> Null]
Leaf(t, value) == [type |-> t, t |-> "leaf", u |-> value]
Elements(t) == [x \in 1..c_type_num_fields(t) |-> Cleared]

\* Mutant: the nested designators of one element clear those of the last.
Opened_Again(node, t) ==
  IF node.t # "compound" THEN Corrupt ELSE [node EXCEPT !.type = t, !.u = Elements(t)]

(* A designator goes on into the node: its elements are allocated once. *)
Opened(node, t) ==
  IF node.t # "compound" THEN Corrupt ELSE [node EXCEPT !.type = t, !.u = IF @ = Null THEN Elements(t) ELSE @]

RECURSIVE make_c_initializer(_, _, _), Listed(_, _, _), Element(_, _, _)

(* A string gives an array its own elements, as many as it has characters;  *)
(* braces do not change the kind of a node that was a leaf.                 *)
make_c_initializer(t, init, node) ==
  CASE init.k = "string" /\ t.k = "array" ->
         [type |-> t, t |-> "compound",
          u |-> [x \in 1..(Len(init.chars) + 1) |-> Leaf(Char, IF x > Len(init.chars) THEN ZERO ELSE init.chars[x])]]
    [] init.k = "brace" ->
         IF node.t = "leaf" THEN Corrupt ELSE Listed(init.elems, 1, [node EXCEPT !.type = t, !.u = Elements(t)])
    [] init.k = "value" /\ t.k \notin Scalars -> Corrupt
    [] OTHER -> Leaf(t, init.v)

(* curr_elem_index belongs to the whole brace list, at whatever depth the   *)
(* last designator was.                                                     *)
Listed(elems, index, node) ==
  IF elems = <<>> THEN node
  ELSE LET r == Element(Head(elems), index, node) IN Listed(Tail(elems), r.index + 1, r.node)

Element(e, index, node) ==
  LET x == IF e.ds = <<>> THEN index ELSE Head(e.ds)
      t == FieldType(node.type, x)
  IN  IF node.t = "corrupt" \/ x \notin DOMAIN node.u THEN [node |-> Corrupt, index |-> x]
      ELSE IF Len(e.ds) <= 1 THEN [node |-> [node EXCEPT !.u[x] = make_c_initializer(t, e.init, @)], index |-> x]
      ELSE LET r == Element([e EXCEPT !.ds = Tail(@)], index, Opened(node.u[x], t))
           IN  [node |-> [node EXCEPT !.u[x] = r.node], index |-> r.index]

(* infer_array_size_from_initializer looks at the first designators. *)
InferredSize(init) ==
  IF init.k = "string" THEN Len(init.chars) + 1
  ELSE LET Index(s, e) == LET at == IF e.ds = <<>> THEN s.at + 1 ELSE Head(e.ds)
                          IN  [at |-> at, max |-> IF at > s.max THEN at ELSE s.max]
       IN  FoldLeft(Index, [at |-> 0, max |-> 0], init.elems).max

-----------------------------------------------------------------------------
(* ir_gen_initializer, for objects on the stack. *)
RECURSIVE is_full_initializer(_), ir_gen_c_init(_, _)

is_full_initializer(node) ==
  \/ node.t # "compound"
  \/ /\ node.type # NoType
     /\ \A x \in 1..c_type_num_fields(node.type) : x \in DOMAIN node.u => is_full_initializer(node.u[x])

WriteOf(at, size, value) == [at |-> at, bytes |-> Bytes(value, size)]

(* The stores, in the order they are emitted.  A value of struct type is    *)
(* copied with memcpy.                                                      *)
ir_gen_c_init(node, at) ==
  CASE node.t = "corrupt" -> <<WriteOf(at, 1, "corrupt")>>
    [] node.t = "leaf" -> <<WriteOf(at, Size(node.type), node.u)>>
    [] OTHER ->
         IF node.type = NoType THEN <<>>
         ELSE FlattenSeq([x \in 1..c_type_num_fields(node.type) |->
                            ir_gen_c_init(IF x \in DOMAIN node.u THEN node.u[x] ELSE Corrupt, at + FieldOffset(node.type, x))])

-----------------------------------------------------------------------------
(* const_gen_c_init and zero_initializer, for static objects.  An array of  *)
(* arrays is one array of all their elements; zero_initializer sets only as *)
(* many of them as the outer array has.                                     *)
ConstScalar(t, value) == [k |-> "scalar", type |-> t, v |-> value]
ConstCorrupt == [k |-> "scalar", type |-> Char, v |-> "corrupt"]
ConstOf(kind, t, elems) == [k |-> kind, type |-> t, elems |-> elems]

RECURSIVE FlatLength(_), zero_initializer(_), const_gen_c_init(_), const_gen_c_init_array(_)
FlatLength(t) == IF t.k = "array" THEN t.n * FlatLength(t.elem) ELSE 1

zero_initializer(t) ==
  CASE t.k \in Scalars -> ConstScalar(t, ZERO)
    [] t.k = "array" -> ConstOf("array", t, [x \in 1..FlatLength(t) |-> IF x <= t.n THEN zero_initializer(t.elem) ELSE ConstCorrupt])
    [] OTHER -> ConstOf("struct", t, [x \in DOMAIN t.fields |-> zero_initializer(t.fields[x])])

ElementConst(node, x) ==
  IF x \notin DOMAIN node.u \/ node.u[x].t = "corrupt" THEN ConstCorrupt
  ELSE IF node.u[x].type = NoType THEN zero_initializer(FieldType(node.type, x))
  ELSE const_gen_c_init(node.u[x])

const_gen_c_init(node) ==
  CASE node.t = "corrupt" -> ConstCorrupt
    [] node.t = "leaf" -> ConstScalar(node.type, node.u)
    [] node.type.k = "array" -> ConstOf("array", node.type, const_gen_c_init_array(node))
    [] OTHER -> ConstOf("struct", node.type, [x \in DOMAIN node.type.fields |-> ElementConst(node, x)])

const_gen_c_init_array(node) ==
  IF node.type = NoType THEN <<ConstCorrupt>>
  ELSE IF node.type.elem.k = "array" THEN FlattenSeq([x \in 1..node.type.n |-> const_gen_c_init_array(node.u[x])])
  ELSE [x \in 1..node.type.n |-> ElementConst(node, x)]

RECURSIVE is_zero(_), write_const(_)
is_zero(c) == IF c.k = "scalar" THEN c.type.k # "pointer" /\ c.v = ZERO ELSE \A x \in DOMAIN c.elems : is_zero(c.elems[x])

(* The fields of a struct are brought to their offsets by zeros in front. *)
write_const(c) ==
  CASE c.k = "scalar" -> Bytes(c.v, ScalarSize(c.type.k))
    [] c.k = "array" -> FlattenSeq([x \in DOMAIN c.elems |-> write_const(c.elems[x])])
    [] OTHER -> LET End(x) == IF x = 0 THEN 0 ELSE FieldOffset(c.type, x) + Size(c.type.fields[x])
                    Gap(x) == FieldOffset(c.type, x) - End(x - 1)
                IN  FlattenSeq([x \in DOMAIN c.elems |-> Bytes(ZERO, IF Gap(x) > 0 THEN Gap(x) ELSE 0) \o write_const(c.elems[x])])

-----------------------------------------------------------------------------
InitInit ==
  /\ object \in Objects
  /\ type = object.type /\ phase = "infer" /\ c_init = Cleared /\ stores = <<>> /\ memory = <<>>

Infer ==
  /\ phase = "infer"
  /\ type' = IF type.k = "array" /\ type.n = 0 THEN [type EXCEPT !.n = InferredSize(object.init)] ELSE type
  /\ phase' = "make"
  /\ UNCHANGED <<object, c_init, stores, memory>>

Make ==
  /\ phase = "make"
  /\ c_init' = IF object.init.k = "none" THEN Cleared ELSE make_c_initializer(type, object.init, Cleared)
  /\ phase' = IF object.static THEN "const" ELSE "clear"
  /\ UNCHANGED <<object, type, stores, memory>>

(* memset, unless every element is given. *)
Clear ==
  /\ phase = "clear"
  /\ memory' = [x \in 0..(Size(type) - 1) |-> IF is_full_initializer(c_init) THEN Byte("garbage", x) ELSE Byte(ZERO, 0)]
  /\ stores' = ir_gen_c_init(c_init, 0)
  /\ phase' = "store"
  /\ UNCHANGED <<object, type, c_init>>

Store ==
  /\ phase = "store" /\ stores # <<>>
  /\ LET s == Head(stores)
     IN  memory' = [x \in DOMAIN memory |-> IF x - s.at \in 0..(Len(s.bytes) - 1) THEN s.bytes[x - s.at + 1] ELSE memory[x]]
  /\ stores' = Tail(stores)
  /\ UNCHANGED <<object, type, phase, c_init>>

Stored ==
  /\ phase = "store" /\ stores = <<>>
  /\ phase' = "done"
  /\ UNCHANGED <<object, type, c_init, stores, memory>>

(* A constant of zeros takes its place in .bss, another its bytes in .data. *)
Write ==
  /\ phase = "const"
  /\ \E c \in {IF object.init.k = "none" THEN zero_initializer(type) ELSE const_gen_c_init(c_init)} :
       memory' = IF is_zero(c) THEN [x \in 0..(Size(type) - 1) |-> Byte(ZERO, 0)]
                 ELSE LET bytes == write_const(c) IN [x \in 0..(Len(bytes) - 1) |-> bytes[x + 1]]
  /\ phase' = "done"
  /\ UNCHANGED <<object, type, c_init, stores>>

Initialized == phase = "done" /\ UNCHANGED initVars

InitNext == Infer \/ Make \/ Clear \/ Store \/ Stored \/ Write \/ Initialized

-----------------------------------------------------------------------------
(* What C99 6.7.8 says: each element of a brace list is for the place its   *)
(* designators name, or for the one after the place of the element before   *)
(* it; the last initializer of a place or of something that contains it     *)
(* counts; the rest is zero.                                                *)
RECURSIVE TypeAt(_, _), OffsetOf(_, _), Leaves(_), PlaceAfter(_, _), Placed(_, _, _)
TypeAt(t, path) == IF path = <<>> THEN t ELSE TypeAt(FieldType(t, Head(path)), Tail(path))
OffsetOf(t, path) == IF path = <<>> THEN 0 ELSE FieldOffset(t, Head(path)) + OffsetOf(FieldType(t, Head(path)), Tail(path))
Leaves(t) ==
  IF t.k \in Scalars THEN {<<>>}
  ELSE UNION {{<<x>> \o p : p \in Leaves(FieldType(t, x))} : x \in 1..c_type_num_fields(t)}

(* The place behind a place; <<>> behind the last. *)
PlaceAfter(t, path) ==
  IF path = <<>> THEN <<>>
  ELSE LET parent == TypeAt(t, Front(path))
       IN  IF parent.k # "union" /\ Last(path) < c_type_num_fields(parent) THEN Front(path) \o <<Last(path) + 1>>
           ELSE PlaceAfter(t, Front(path))

Placed(t, elems, before) ==
  IF elems = <<>> THEN <<>>
  ELSE LET path == IF Head(elems).ds # <<>> THEN Head(elems).ds ELSE IF before = <<0>> THEN <<1>> ELSE PlaceAfter(t, before)
       IN  <<[path |-> path, init |-> Head(elems).init]>> \o Placed(t, Tail(elems), path)

Places(t, init) == Placed(t, init.elems, <<0>>)

(* A place that is for another member of a union than a path. *)
OtherMember(t, place, path) ==
  \E x \in 1..Len(path) : /\ Len(place) >= x /\ SubSeq(place, 1, x - 1) = SubSeq(path, 1, x - 1)
                           /\ TypeAt(t, SubSeq(path, 1, x - 1)).k = "union" /\ place[x] # path[x]
Unspecified == <<"unspecified", 0>>

RECURSIVE ByteMeant(_, _, _, _)
ByteMeant(t, init, path, x) ==
  CASE init.k = "none" -> Byte(ZERO, 0)
    [] init.k = "value" -> Byte(init.v, x)
    [] init.k = "object" -> Byte(init.v, OffsetOf(t, path) + x)
    [] init.k = "string" -> IF path[1] > Len(init.chars) THEN Byte(ZERO, 0) ELSE Byte(init.chars[path[1]], 0)
    [] init.k = "brace" ->
         LET places == Places(t, init)
             hits == {y \in DOMAIN places : IsPrefix(places[y].path, path) \/ OtherMember(t, places[y].path, path)}
         IN  IF hits = {} THEN Byte(ZERO, 0)
             ELSE IF OtherMember(t, places[Max(hits)].path, path) THEN Unspecified
             ELSE LET p == places[Max(hits)]
                  IN  ByteMeant(TypeAt(t, p.path), p.init, SubSeq(path, Len(p.path) + 1, Len(path)), x)

(***************************************************************************)
(* What the code leaves out, each at its line.                             *)
(***************************************************************************)
RECURSIVE Initializes(_, _)
(* All brace lists and strings in an initializer, with their types. *)
Initializes(t, init) ==
  {<<t, init>>} \cup
    (IF init.k # "brace" THEN {} ELSE UNION {Initializes(TypeAt(t, p.path), p.init) : p \in Range(Places(t, init))})

(* initializer.c:95: after .a.b, an element without a designator. *)
ContinuesNested(t, init) ==
  init.k = "brace" /\ \E x \in 2..Len(init.elems) : init.elems[x].ds = <<>> /\ Len(Places(t, init)[x - 1].path) > 1
(* initializer.c:156: an object, then a part of it. *)
Reopens(t, init) ==
  /\ init.k = "brace"
  /\ LET p == Places(t, init)
     IN  \E x, y \in DOMAIN p : x < y /\ IsPrefix(p[x].path, p[y].path) /\ p[x].init.k = "object"
                                /\ (p[y].path # p[x].path \/ p[y].init.k = "brace")
(* initializer.c:314: the members of a union are stored in their order. *)
TwoMembers(t, init) ==
  init.k = "brace" /\ LET p == Places(t, init) IN \E x, y \in DOMAIN p : OtherMember(t, p[x].path, p[y].path)
(* initializer.c:31: a string shorter than its array. *)
ShortString(t, init) == init.k = "string" /\ t.k = "array" /\ t.n > Len(init.chars) + 1

RECURSIVE Parts(_)
Parts(t) == {t} \cup (IF t.k \in Scalars THEN {} ELSE UNION {Parts(FieldType(t, x)) : x \in 1..c_type_num_fields(t)})
(* asm_gen.c:1987: no zeros behind the last field, and unions as structs. *)
TailPadded(t) == t.k = "struct" /\ LET l == LayoutOf(t) IN l.size # Last(l.offsets) + Size(Last(t.fields))
(* initializer.c:447, 477: a row of an array of arrays that is not given. *)
RECURSIVE Rows(_)
Rows(t) ==
  IF t.k \in Scalars THEN {}
  ELSE UNION {(IF t.k = "array" /\ t.elem.k = "array" THEN {<<x>>} ELSE {}) \cup {<<x>> \o r : r \in Rows(FieldType(t, x))} :
                x \in 1..c_type_num_fields(t)}
RowMissing(t, init) ==
  init.k \in {"none", "brace"} /\
    \E row \in Rows(t) : init.k = "brace" => \A p \in Range(Places(t, init)) : ~IsPrefix(p.path, row) /\ ~IsPrefix(row, p.path)

Supported ==
  LET parts == Initializes(type, object.init)
  IN  /\ \A p \in parts : ~ContinuesNested(p[1], p[2]) /\ ~Reopens(p[1], p[2]) /\ ~ShortString(p[1], p[2]) /\ ~TwoMembers(p[1], p[2])
      /\ object.static =>
           /\ \A t \in Parts(type) : ~TailPadded(t) /\ t.k # "union"
           /\ \A p \in parts : ~RowMissing(p[1], p[2])

(***************************************************************************)
(* Every byte of the object is what C99 says, whether the stores are       *)
(* executed over a cleared object or the image is written into the object  *)
(* file; and the image is as long as the object.                           *)
(***************************************************************************)
InitializedRight ==
  phase = "done" /\ Supported =>
    /\ DOMAIN memory = 0..(Size(type) - 1)
    /\ \A path \in Leaves(type) : \A x \in 0..(Size(TypeAt(type, path)) - 1) :
         ByteMeant(type, object.init, path, x) \in {memory[OffsetOf(type, path) + x], Unspecified}
=============================================================================
