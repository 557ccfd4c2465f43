------------------------------- MODULE Layout -------------------------------
(***************************************************************************)
(* How decl_specifier_list_to_c_type lays out a struct or a union          *)
(* (ir_gen/decl.c), over the sizes and alignments of its fields.           *)
(***************************************************************************)
EXTENDS Integers, Sequences, SequencesExt, FiniteSetsExt

align_to(n, align) == ((n + align - 1) \div align) * align

Largest(ns) == IF ns = <<>> THEN 0 ELSE Max(Range(ns))

\* Mutant: the size of a struct ends with its last field.
StructLayout_NoTail(kind, packed, sizes, aligns) ==
  LET Place(l, k) ==
        LET at == IF kind = "union" THEN 0 ELSE IF packed THEN l.end ELSE align_to(l.end, aligns[k])
        IN  [offsets |-> Append(l.offsets, at), end |-> IF kind = "union" THEN 0 ELSE at + sizes[k]]
      l == FoldLeft(Place, [offsets |-> <<>>, end |-> 0], [k \in DOMAIN sizes |-> k])
  IN  [offsets |-> l.offsets, align |-> IF packed THEN 1 ELSE Largest(aligns),
       size |-> IF kind = "union" THEN Largest(sizes) ELSE l.end]

(* Offsets, size and alignment.  kind is "struct" or "union"; a packed type *)
(* has no padding between the fields of a struct and none at the end.       *)
StructLayout(kind, packed, sizes, aligns) ==
  LET Place(l, k) ==
        LET at == IF kind = "union" THEN 0 ELSE IF packed THEN l.end ELSE align_to(l.end, aligns[k])
        IN  [offsets |-> Append(l.offsets, at), end |-> IF kind = "union" THEN 0 ELSE at + sizes[k]]
      l == FoldLeft(Place, [offsets |-> <<>>, end |-> 0], [k \in DOMAIN sizes |-> k])
      align == IF packed THEN 1 ELSE Largest(aligns)
  IN  [offsets |-> l.offsets, align |-> align,
       size |-> align_to(IF kind = "union" THEN Largest(sizes) ELSE l.end, align)]
=============================================================================
