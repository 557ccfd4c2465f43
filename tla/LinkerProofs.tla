---------------------------- MODULE LinkerProofs ----------------------------
(***************************************************************************)
(* Proofs about the static linker, for any number of objects with any      *)
(* symbols and relocations: what it links is what the files say, and it    *)
(* fails exactly when they cannot be linked.  Then the archives it reads:  *)
(* it finds the members nar wrote.                                         *)
(***************************************************************************)
EXTENDS Linker, Archive, SeqFacts, FiniteSetTheorems

Relocs == [type : RelocTypes, sect : {"text", "data"}, off : Nat, addend : Int]

Entries == [defined : BOOLEAN, name : DOMAIN NameLen, bind : {"global", "local"},
            sect : Sections \cup {"undef"}, off : Nat, relocs : Seq(Relocs)]

Reading == phase \in {"symbols", "relas"}
Writing == phase \in {"emit", "strings"} \/ (phase = "done" /\ ret = "SUCCESS")

Typed ==
  /\ files \in Inputs
  /\ f \in 1..Len(files) + 1 /\ k \in Nat \ {0}
  /\ phase \in {"open", "symbols", "relas", "emit", "strings", "done"}
  /\ ret \in {"SUCCESS", "IO_ERROR", "LINKER_ERROR", "UNIMPLEMENTED", "ASSERTION"}
  /\ size \in [Sections -> Nat] /\ base \in [Sections -> Nat]
  /\ table \in Seq(Entries)
  /\ \A x \in DOMAIN local : local[x] \in 0..Len(table)
  /\ symtab \in Seq([name : Nat, bind : {"global", "local"}, sect : Sections, value : Nat])
  /\ entry \in Nat /\ lastLocal \in Nat /\ nextString \in Nat

(* How far link_elf_executable has come. *)
Advanced ==
  /\ phase # "done" => ret = "SUCCESS"
  /\ Reading => f \in Usable /\ DOMAIN local = 1..Len(File.syms)
  /\ Writing => f = Len(files) + 1
  /\ phase = "strings" \/ (phase = "done" /\ ret = "SUCCESS") => k > Len(table)
  /\ phase \in {"open", "symbols", "relas"} => lastLocal = 0
  /\ phase = "done" /\ ret = "SUCCESS" => lastLocal # 0
  /\ \A g \in 1..f - 1 : files[g].format \notin {"absent", "other_rela", "no_section"}

(* Each section holds what the files so far added to it. *)
Sized ==
  /\ \A s \in Sections : base[s] <= size[s]
  /\ Reading => \A s \in Sections : base[s] = Before(f, s) /\ size[s] = Before(f + 1, s)
  /\ phase = "open" => \A s \in Sections : size[s] = Before(f, s)

(* Definitions and relocations lie inside their sections. *)
Inside ==
  \A x \in 1..Len(table) :
    /\ table[x].defined => table[x].sect \in Sections /\ table[x].off <= size[table[x].sect]
    /\ \A q \in ToSet(table[x].relocs) : q.off < size[q.sect]

(* The symbols and the rows of relocations that were read. *)
Read(g, x) == g < f \/ (g = f /\ (phase = "relas" \/ (phase = "symbols" /\ x < k)))
ReadRow(g, y) == g < f \/ (g = f /\ phase = "relas" /\ y < k)

(* An entry of the table is the definition d. *)
Is(e, d) ==
  /\ e.defined /\ e.name = SymAt(d).name /\ e.bind = SymAt(d).bind /\ e.sect = SymAt(d).sect
  /\ e.off = Before(d[1], SymAt(d).sect) + SymAt(d).value

(* What symbol x of file g refers to is found at an entry. *)
StandsFor(e, g, x) ==
  /\ e.name = files[g].syms[x].name /\ e.bind = files[g].syms[x].bind
  /\ e.bind = "local" => Is(e, <<g, x>>)

(* A row r of file g, as process_rela_section stores it. *)
Stored(g, r) ==
  [type |-> r.type, sect |-> r.sect, off |-> Before(g, r.sect) + r.off, addend |-> r.addend]

(* As many entries are defined as definitions were read. *)
ReadDefs == {d \in Definitions : Read(d[1], d[2])}
DefinedEntries == {y \in 1..Len(table) : table[y].defined}

Counted ==
  /\ IsFiniteSet(ReadDefs) /\ IsFiniteSet(DefinedEntries)
  /\ Cardinality(DefinedEntries) = Cardinality(ReadDefs)

(* The table holds each definition once. *)
TableRight ==
  /\ Counted
  /\ \A d \in Definitions : Read(d[1], d[2]) => \E y \in 1..Len(table) : Is(table[y], d)
  /\ \A y \in 1..Len(table) : table[y].defined =>
       \E d \in Definitions : Read(d[1], d[2]) /\ Is(table[y], d)
  /\ \A y \in 1..Len(table) : table[y].bind = "local" => table[y].defined

(* There is one entry for a global name, and it was defined once. *)
NamesOnce ==
  /\ \A x, y \in 1..Len(table) :
       table[x].bind = "global" /\ table[y].bind = "global" /\ table[x].name = table[y].name => x = y
  /\ \A d, e \in Definitions :
       Read(d[1], d[2]) /\ Read(e[1], e[2]) /\ SymAt(d).name = SymAt(e).name
         /\ SymAt(d).bind = "global" /\ SymAt(e).bind = "global" => d = e

(* file_symbols leads to the entries of the file's symbols. *)
LocalRight ==
  Reading => \A x \in 1..Len(File.syms) : Read(f, x) /\ File.syms[x].sect # "file" =>
    local[x] \in 1..Len(table) /\ StandsFor(table[local[x]], f, x)

(* Every row is stored with what its symbol refers to, and no others are. *)
RowsRight ==
  /\ \A g \in Usable : \A y \in 1..Len(files[g].relas) : ReadRow(g, y) =>
       \E x \in 1..Len(table) : /\ StandsFor(table[x], g, files[g].relas[y].sym)
                                /\ Stored(g, files[g].relas[y]) \in ToSet(table[x].relocs)
  /\ \A x \in 1..Len(table) : table[x].relocs # <<>> =>
       \E g \in Usable : \E r \in Relas(g) :
         table[x].name = files[g].syms[r.sym].name /\ table[x].bind = files[g].syms[r.sym].bind

(* No two relocations are of one place. *)
PlacesOnce ==
  \A x, y \in 1..Len(table) : \A p \in ToSet(table[x].relocs) : \A q \in ToSet(table[y].relocs) :
    p.sect = q.sect /\ p.off = q.off => x = y /\ p = q

(* Those of the file being read lie behind those of the files before. *)
PlacesBehind ==
  Reading => \A x \in 1..Len(table) : \A q \in ToSet(table[x].relocs) :
    q.off < base[q.sect] \/ (phase = "relas" /\ \E y \in 1..Len(File.relas) :
                               y < k /\ q = Stored(f, File.relas[y]))

(* What the loop over the symbols has done so far. *)
Emitted ==
  /\ \A x \in 1..Len(table) : x < k =>
       /\ table[x].defined \/ table[x].relocs = <<>>
       /\ \A q \in ToSet(table[x].relocs) :
            /\ Offset[q.sect] + q.off \in DOMAIN image
            /\ image[Offset[q.sect] + q.off] = FinalValue(table[x], q)
  /\ lastLocal # 0 <=> \E x \in 1..Len(table) : x < k /\ table[x].defined /\ table[x].bind = "local"

(* The inductive invariant behind the properties of Linker. *)
LinkInv ==
  /\ Typed /\ Advanced /\ OutcomeRight /\ Inside
  /\ \A s \in Sections : base[s] <= size[s]
  /\ ret = "SUCCESS" =>
       /\ Sized /\ TableRight /\ NamesOnce /\ LocalRight /\ RowsRight
       /\ PlacesOnce /\ PlacesBehind
       /\ Writing => Emitted

-----------------------------------------------------------------------------
(* Files are sequences of objects that are well formed. *)
LEMMA FilesProps ==
  ASSUME files \in Inputs
  PROVE  /\ Len(files) \in Nat /\ \A g \in Usable : g \in 1..Len(files) /\ WellFormed(files[g])
  BY LinkerAssumption DEF Usable

(* A recursive function that adds up the first elements exists, and its    *)
(* values are naturals.                                                    *)
LEMMA SumExists ==
  ASSUME NEW N \in Nat, NEW A \in [1..N -> Nat], NEW c \in Nat
  PROVE  \E h \in [0..N -> Nat] : h[0] = c /\ \A g \in 1..N : h[g] = h[g - 1] + A[g]
  <1> DEFINE Sums(h, n) == h[0] = c /\ \A g \in 1..n : h[g] = h[g - 1] + A[g]
             Bad == {n \in 0..N : ~\E h \in [0..n -> Nat] : Sums(h, n)}
  <1>1. \A g \in 1..N : A[g] \in Nat
    OBVIOUS
  <1>2. Bad = {}
    <2> SUFFICES ASSUME Bad # {} PROVE FALSE
      OBVIOUS
    <2>1. Bad \in SUBSET Nat
      OBVIOUS
    <2> HIDE DEF Bad
    <2>2. PICK m \in Bad : \A n \in Bad : m <= n
      BY <2>1, LeastNat
    <2> USE DEF Bad
    <2>3. m \in 0..N /\ ~\E h \in [0..m -> Nat] : Sums(h, m)
      OBVIOUS
    <2>4. CASE m = 0
      <3>1. [g \in 0..0 |-> c] \in [0..m -> Nat] /\ Sums([g \in 0..0 |-> c], m)
        BY <2>4
      <3> QED BY <3>1, <2>3
    <2>5. CASE m # 0
      <3>1. m - 1 \in 0..N /\ m - 1 \notin Bad /\ m \in 1..N
        <4>1. m \in Nat /\ m - 1 \in Nat /\ ~(m <= m - 1) /\ m - 1 \in 0..N /\ m \in 1..N
          BY <2>5, <2>3
        <4> HIDE DEF Bad
        <4> QED BY <4>1, <2>2
      <3>2. PICK h \in [0..m - 1 -> Nat] : Sums(h, m - 1)
        BY <3>1
      <3> DEFINE sum == h[m - 1] + A[m]
                 h2 == [g \in 0..m |-> IF g = m THEN sum ELSE h[g]]
      <3>3. m \in Nat \ {0} /\ m - 1 \in 0..m - 1 /\ A[m] \in Nat
        BY <3>1, <1>1
      <3>4. sum \in Nat /\ \A g \in 0..m : g # m => g \in 0..m - 1
        BY <3>3
      <3> HIDE DEF sum, Bad
      <3>5. h2 \in [0..m -> Nat]
        BY <3>4
      <3>6. ASSUME NEW g \in 1..m PROVE h2[g] = h2[g - 1] + A[g]
        <4>1. g \in 0..m /\ g - 1 \in 0..m /\ g - 1 # m
          BY <3>3
        <4>2. h2[g - 1] = h[g - 1]
          BY <4>1
        <4>3. CASE g = m
          BY <4>1, <4>2, <4>3 DEF sum
        <4>4. CASE g # m
          <5>1. h2[g] = h[g] /\ g \in 1..m - 1
            BY <4>1, <4>4, <3>3
          <5> QED BY <5>1, <4>2, <3>2
        <4> QED BY <4>3, <4>4
      <3>7. h2[0] = c
        BY <3>2, <3>3
      <3> QED BY <3>5, <3>6, <3>7, <2>3
    <2> QED BY <2>4, <2>5
  <1>3. PICK h \in [0..N -> Nat] : Sums(h, N)
    <2>1. N \in 0..N
      OBVIOUS
    <2>2. N \notin Bad
      <3> HIDE DEF Bad
      <3> QED BY <1>2
    <2> QED BY <2>1, <2>2
  <1> QED BY <1>3

LEMMA SumProps ==
  ASSUME NEW N \in Nat, NEW A \in [1..N -> Nat], NEW S, S[0] \in Nat,
         \A g \in 1..N : S[g] = S[g - 1] + A[g]
  PROVE  \A g \in 0..N : S[g] \in Nat
  <1> DEFINE Bad == {g \in 0..N : S[g] \notin Nat}
  <1>1. Bad = {}
    <2> SUFFICES ASSUME Bad # {} PROVE FALSE
      OBVIOUS
    <2>1. Bad \in SUBSET Nat
      OBVIOUS
    <2> HIDE DEF Bad
    <2>2. PICK m \in Bad : \A n \in Bad : m <= n
      BY <2>1, LeastNat
    <2>3. m \in 0..N /\ S[m] \notin Nat
      BY DEF Bad
    <2>4. m # 0
      BY <2>3
    <2>5. m - 1 \in 0..N /\ m \in 1..N /\ ~(m <= m - 1)
      BY <2>3, <2>4
    <2>6. m - 1 \notin Bad
      BY <2>2, <2>5
    <2>7. S[m - 1] \in Nat /\ A[m] \in Nat
      BY <2>5, <2>6 DEF Bad
    <2> QED BY <2>3, <2>5, <2>7
  <1> QED BY <1>1

(* What the first files add to a section. *)
LEMMA SizeUpToProps ==
  ASSUME files \in Inputs, NEW s \in Sections
  PROVE  /\ SizeUpTo(s) \in [0..Len(files) -> Nat] /\ SizeUpTo(s)[0] = 0
         /\ \A g \in 1..Len(files) : SizeUpTo(s)[g] = SizeUpTo(s)[g - 1] + Added(g, s)
  <1> DEFINE N == Len(files)
             A == [g \in 1..N |-> Added(g, s)]
             S == SizeUpTo(s)
  <1>1. N \in Nat /\ \A g \in 1..N : A[g] \in Nat /\ A[g] = Added(g, s)
    BY FilesProps DEF Added, WellFormed
  <1>2. A \in [1..N -> Nat] /\ 0 \in Nat
    BY <1>1
  <1> HIDE DEF N, A
  <1>3. PICK h \in [0..N -> Nat] : h[0] = 0 /\ \A g \in 1..N : h[g] = h[g - 1] + A[g]
    BY <1>1, <1>2, SumExists
  <1>4. h = [g \in 0..N |-> IF g = 0 THEN 0 ELSE h[g - 1] + Added(g, s)]
    <2>1. \A g \in 0..N : h[g] = IF g = 0 THEN 0 ELSE h[g - 1] + Added(g, s)
      <3>1. \A g \in 0..N : g # 0 => g \in 1..N
        BY <1>1
      <3> QED BY <3>1, <1>1, <1>3
    <2>2. h = [g \in 0..N |-> h[g]]
      BY <1>3
    <2> QED BY <2>1, <2>2
  <1>5. S = [g \in 0..N |-> IF g = 0 THEN 0 ELSE S[g - 1] + Added(g, s)]
    BY <1>4 DEF SizeUpTo, N
  <1> HIDE DEF S
  <1>6. S[0] = 0 /\ \A g \in 1..N : S[g] = S[g - 1] + Added(g, s)
    BY <1>1, <1>5
  <1>7. S[0] \in Nat /\ \A g \in 1..N : S[g] = S[g - 1] + A[g]
    BY <1>1, <1>6
  <1>8. \A g \in 0..N : S[g] \in Nat
    BY <1>1, <1>2, <1>7, SumProps
  <1>9. S = [g \in 0..N |-> S[g]]
    BY <1>5
  <1>10. S \in [0..N -> Nat]
    BY <1>8, <1>9
  <1> QED BY <1>6, <1>10 DEF N, S

(* Where the files go in a section, one after the other. *)
LEMMA BeforeProps ==
  ASSUME files \in Inputs, NEW s \in Sections
  PROVE  /\ Before(1, s) = 0
         /\ \A g \in 1..Len(files) + 1 : Before(g, s) \in Nat
         /\ \A g \in 1..Len(files) : Before(g + 1, s) = Before(g, s) + Added(g, s)
         /\ \A g \in Usable : Added(g, s) = files[g].size[s] /\ files[g].size[s] \in Nat
  <1>1. Len(files) \in Nat /\ \A g \in Usable : g \in 1..Len(files) /\ WellFormed(files[g])
    BY FilesProps
  <1>2. /\ SizeUpTo(s) \in [0..Len(files) -> Nat] /\ SizeUpTo(s)[0] = 0
        /\ \A g \in 1..Len(files) : SizeUpTo(s)[g] = SizeUpTo(s)[g - 1] + Added(g, s)
    BY SizeUpToProps
  <1>3. \A g \in 1..Len(files) + 1 : g - 1 \in 0..Len(files) /\ (g + 1) - 1 = g
    BY <1>1
  <1>4. Before(1, s) = 0
    BY <1>2 DEF Before
  <1>5. \A g \in 1..Len(files) + 1 : Before(g, s) \in Nat
    BY <1>2, <1>3 DEF Before
  <1>6. ASSUME NEW g \in 1..Len(files) PROVE Before(g + 1, s) = Before(g, s) + Added(g, s)
    <2>1. (g + 1) - 1 = g
      BY <1>1
    <2> QED BY <2>1, <1>2 DEF Before
  <1>7. ASSUME NEW g \in Usable PROVE Added(g, s) = files[g].size[s] /\ files[g].size[s] \in Nat
    BY <1>1 DEF Added, WellFormed
  <1> QED BY <1>4, <1>5, <1>6, <1>7

(* A definition is a symbol of a file. *)
LEMMA DefinitionsProps ==
  /\ \A g, x : g \in Usable /\ x \in 1..Len(files[g].syms) /\ files[g].syms[x].sect \in Sections
       => <<g, x>> \in Definitions
  /\ \A d \in Definitions :
       /\ d = <<d[1], d[2]>> /\ d[1] \in Usable /\ d[2] \in 1..Len(files[d[1]].syms)
       /\ SymAt(d).sect \in Sections
  <1>1. ASSUME NEW g, NEW x, g \in Usable, x \in 1..Len(files[g].syms), files[g].syms[x].sect \in Sections
        PROVE  <<g, x>> \in Definitions
    <2>1. <<g, x>> \in {g} \X (1..Len(files[g].syms))
      BY <1>1
    <2>2. SymAt(<<g, x>>).sect \in Sections
      BY <1>1 DEF SymAt
    <2> QED BY <2>1, <2>2, <1>1 DEF Definitions
  <1>2. ASSUME NEW d \in Definitions
        PROVE  /\ d = <<d[1], d[2]>> /\ d[1] \in Usable /\ d[2] \in 1..Len(files[d[1]].syms)
               /\ SymAt(d).sect \in Sections
    <2>1. PICK g \in Usable : d \in {g} \X (1..Len(files[g].syms))
      BY DEF Definitions
    <2>2. d = <<d[1], d[2]>> /\ d[1] = g /\ d[2] \in 1..Len(files[g].syms)
      BY <2>1
    <2> QED BY <2>2 DEF Definitions
  <1> QED BY <1>1, <1>2

(* Nothing that is said of the files changes. *)
LEMMA FilesFixed ==
  ASSUME files' = files
  PROVE  /\ Usable' = Usable /\ Definitions' = Definitions
         /\ Linkable' = Linkable /\ DefinesStatic' = DefinesStatic
         /\ \A d : SymAt(d)' = SymAt(d)
         /\ \A g, s : Before(g, s)' = Before(g, s)
         /\ \A e, d : Is(e, d)' = Is(e, d)
         /\ \A e, g, x : StandsFor(e, g, x)' = StandsFor(e, g, x)
         /\ \A g, r : Stored(g, r)' = Stored(g, r)
         /\ \A g : Relas(g)' = Relas(g)
  <1>1. Usable' = Usable /\ (\A d : SymAt(d)' = SymAt(d)) /\ (\A g : Relas(g)' = Relas(g))
    BY DEF Usable, SymAt, Relas
  <1>2. \A g, s : Added(g, s)' = Added(g, s)
    BY <1>1 DEF Added
  <1>3. \A s : SizeUpTo(s)' = SizeUpTo(s)
    BY <1>2 DEF SizeUpTo
  <1>4. \A g, s : Before(g, s)' = Before(g, s)
    BY <1>3 DEF Before
  <1>5. Definitions' = Definitions
    BY <1>1 DEF Definitions
  <1>6. \A n : Globals(n)' = Globals(n)
    BY <1>1, <1>5 DEF Globals
  <1>7. Linkable' = Linkable /\ DefinesStatic' = DefinesStatic
    BY <1>1, <1>5, <1>6 DEF Linkable, Readable, Resolvable, Unambiguous, DefinesStatic
  <1>8. \A e, d : Is(e, d)' = Is(e, d)
    BY <1>1, <1>4 DEF Is
  <1>9. \A e, g, x : StandsFor(e, g, x)' = StandsFor(e, g, x)
    BY <1>8 DEF StandsFor
  <1>10. \A g, r : Stored(g, r)' = Stored(g, r)
    BY <1>4 DEF Stored
  <1> QED BY <1>1, <1>4, <1>5, <1>7, <1>8, <1>9, <1>10
-----------------------------------------------------------------------------
LEMMA InitLinkInv ==
  ASSUME Init
  PROVE  LinkInv
  <1>1. PICK inputs \in Inputs : InitWith(inputs)
    BY DEF Init
  <1>2. /\ files \in Inputs /\ f = 1 /\ k = 1 /\ phase = "open" /\ ret = "SUCCESS"
        /\ size = [s \in Sections |-> 0] /\ base = size /\ table = <<>> /\ local = <<>>
        /\ symtab = <<>> /\ entry = 0 /\ lastLocal = 0 /\ nextString = 1
    BY <1>1 DEF InitWith
  <1>3. Len(files) \in Nat /\ Len(table) = 0 /\ \A g \in Usable : g \in 1..Len(files)
    BY <1>2, FilesProps
  <1>4. Typed
    BY <1>2, <1>3 DEF Typed
  <1>5. Advanced /\ OutcomeRight /\ Inside /\ ~Reading /\ ~Writing
    BY <1>2, <1>3 DEF Advanced, OutcomeRight, Inside, Reading, Writing
  <1>6. \A s \in Sections : base[s] = 0 /\ size[s] = 0 /\ Before(1, s) = 0
    BY <1>2, BeforeProps
  <1>7. Sized
    BY <1>2, <1>5, <1>6 DEF Sized
  <1>8. \A g \in Usable : \A x : ~Read(g, x) /\ ~ReadRow(g, x)
    BY <1>2, <1>3 DEF Read, ReadRow
  <1>9. TableRight /\ NamesOnce
    <2>1. ReadDefs = {} /\ DefinedEntries = {}
      BY <1>3, <1>8, DefinitionsProps DEF ReadDefs, DefinedEntries
    <2>2. Counted
      BY <2>1, FS_EmptySet DEF Counted
    <2> QED BY <2>2, <1>3, <1>8, DefinitionsProps DEF TableRight, NamesOnce
  <1>10. LocalRight /\ RowsRight /\ PlacesOnce /\ PlacesBehind
    BY <1>3, <1>5, <1>8 DEF LocalRight, RowsRight, PlacesOnce, PlacesBehind
  <1> QED BY <1>4, <1>5, <1>6, <1>7, <1>9, <1>10 DEF LinkInv

(* The entries of the table and their relocations are typed. *)
LEMMA TableProps ==
  ASSUME Typed
  PROVE  /\ Len(table) \in Nat
         /\ \A x \in 1..Len(table) :
              /\ table[x] \in Entries /\ table[x].relocs \in Seq(Relocs) /\ table[x].off \in Nat
              /\ \A q \in ToSet(table[x].relocs) :
                   q \in Relocs /\ q.sect \in {"text", "data"} /\ q.sect \in Sections /\ q.off \in Nat
  <1>1. table \in Seq(Entries) /\ Len(table) \in Nat
    BY DEF Typed
  <1>2. ASSUME NEW x \in 1..Len(table)
        PROVE  /\ table[x] \in Entries /\ table[x].relocs \in Seq(Relocs) /\ table[x].off \in Nat
               /\ \A q \in ToSet(table[x].relocs) :
                    q \in Relocs /\ q.sect \in {"text", "data"} /\ q.sect \in Sections /\ q.off \in Nat
    <2>1. table[x] \in Entries
      BY <1>1
    <2>2. table[x].relocs \in Seq(Relocs) /\ table[x].off \in Nat
      BY <2>1 DEF Entries
    <2>3. \A q \in ToSet(table[x].relocs) : q \in Relocs
      BY <2>2, SeqElements
    <2> QED BY <2>1, <2>2, <2>3 DEF Relocs, Sections
  <1> QED BY <1>1, <1>2

(* Where the linker fails, it must be right to. *)
LEMMA FailKeeps ==
  ASSUME LinkInv, NEW code \in {"IO_ERROR", "LINKER_ERROR", "UNIMPLEMENTED"}, Fail(code), ~Linkable
  PROVE  LinkInv'
  <1>1. /\ phase' = "done" /\ ret' = code /\ ret' # "SUCCESS"
        /\ UNCHANGED <<files, f, k, reading, writing>>
    BY DEF Fail
  <1>2. /\ UNCHANGED <<files, f, k, size, base, table, local>>
        /\ UNCHANGED <<symtab, entry, lastLocal, nextString>>
    BY <1>1 DEF reading, writing
  <1>3. Typed'
    BY <1>1, <1>2 DEF LinkInv, Typed
  <1>4. Advanced'
    BY <1>1, <1>2 DEF LinkInv, Advanced, Reading, Writing
  <1>5. OutcomeRight'
    BY <1>1, <1>2, FilesFixed DEF OutcomeRight
  <1>6. Inside' /\ \A s \in Sections : base'[s] <= size'[s]
    BY <1>2 DEF LinkInv, Inside
  <1> QED BY <1>1, <1>3, <1>4, <1>5, <1>6 DEF LinkInv

(* While the table and what was read of it stay, it stays right. *)
LEMMA SameTable ==
  ASSUME LinkInv, ret = "SUCCESS", files' = files, table' = table,
         \A d \in Definitions : Read(d[1], d[2])' <=> Read(d[1], d[2]),
         \A g \in Usable : \A y \in 1..Len(files[g].relas) : ReadRow(g, y)' <=> ReadRow(g, y)
  PROVE  (TableRight /\ NamesOnce /\ RowsRight /\ PlacesOnce)'
  <1>1. TableRight /\ NamesOnce /\ RowsRight /\ PlacesOnce
    BY DEF LinkInv
  <1>2. /\ Usable' = Usable /\ Definitions' = Definitions
        /\ \A d : SymAt(d)' = SymAt(d)
        /\ \A e, d : Is(e, d)' = Is(e, d)
        /\ \A e, g, x : StandsFor(e, g, x)' = StandsFor(e, g, x)
        /\ \A g, r : Stored(g, r)' = Stored(g, r)
        /\ \A g : Relas(g)' = Relas(g)
    BY FilesFixed
  <1>3. TableRight'
    <2>1. ReadDefs' = ReadDefs
      BY <1>2 DEF ReadDefs
    <2>2. DefinedEntries' = DefinedEntries
      BY DEF DefinedEntries
    <2>3. Counted'
      BY <2>1, <2>2, <1>1 DEF TableRight, Counted
    <2> QED BY <2>3, <1>1, <1>2 DEF TableRight
  <1>4. NamesOnce'
    BY <1>1, <1>2 DEF NamesOnce
  <1>5. RowsRight'
    BY <1>1, <1>2 DEF RowsRight
  <1>6. PlacesOnce'
    BY <1>1 DEF PlacesOnce
  <1> QED BY <1>3, <1>4, <1>5, <1>6

-----------------------------------------------------------------------------
(* Files that cannot be opened or are refused. *)
LEMMA OpenFailsKeeps ==
  ASSUME LinkInv, OpenFails \/ Rejected
  PROVE  LinkInv'
  <1>1. f \in 1..Len(files)
    <2>1. f <= Len(files)
      BY DEF OpenFails, Rejected
    <2>2. files \in Inputs /\ f \in 1..Len(files) + 1
      BY DEF LinkInv, Typed
    <2>3. Len(files) \in Nat
      BY <2>2, FilesProps
    <2> QED BY <2>1, <2>2, <2>3
  <1>2. files[f].format \in {"absent", "other_rela", "no_section"}
    BY DEF OpenFails, Rejected, File
  <1>3. ~Linkable
    BY <1>1, <1>2 DEF Linkable, Readable
  <1>4. PICK code \in {"IO_ERROR", "LINKER_ERROR", "UNIMPLEMENTED"} : Fail(code)
    BY DEF OpenFails, Rejected
  <1> QED BY <1>3, <1>4, FailKeeps

LEMMA UnusableKeeps ==
  ASSUME LinkInv, Unusable
  PROVE  LinkInv'
  <1>1. /\ phase = "open" /\ f <= Len(files) /\ files[f].format \in {"short", "other_arch"}
        /\ f' = f + 1 /\ phase' = "open"
        /\ UNCHANGED <<files, k, ret, size, base, table, local>>
        /\ UNCHANGED <<symtab, entry, lastLocal, nextString>>
    BY DEF Unusable, File, NextFile, reading, writing
  <1>2. /\ files \in Inputs /\ Len(files) \in Nat /\ f \in 1..Len(files) /\ ret = "SUCCESS"
        /\ \A g \in Usable : g \in 1..Len(files)
    BY <1>1, FilesProps DEF LinkInv, Typed, Advanced
  <1>3. f \notin Usable /\ \A s : Added(f, s) = 0
    BY <1>1 DEF Usable, Added
  <1>4. Typed'
    BY <1>1, <1>2 DEF LinkInv, Typed
  <1>5. Advanced'
    <2>1. \A g \in 1..f : files[g].format \notin {"absent", "other_rela", "no_section"}
      BY <1>1, <1>2 DEF LinkInv, Advanced
    <2>2. f' - 1 = f
      BY <1>1, <1>2
    <2>3. lastLocal' = 0 /\ ret' = "SUCCESS"
      BY <1>1, <1>2 DEF LinkInv, Advanced
    <2> QED BY <2>1, <2>2, <2>3, <1>1, <1>2 DEF Advanced, Reading, Writing
  <1>6. Sized'
    <2>1. \A s \in Sections : size[s] = Before(f, s) /\ base[s] <= size[s]
      BY <1>1, <1>2 DEF LinkInv, Sized
    <2>2. \A s \in Sections : Before(f, s) \in Nat /\ Before(f + 1, s) = Before(f, s) + Added(f, s)
      BY <1>2, BeforeProps
    <2>3. \A s \in Sections : size[s] = Before(f + 1, s)
      BY <2>1, <2>2, <1>3
    <2>4. \A g, s : Before(g, s)' = Before(g, s)
      BY <1>1, FilesFixed
    <2> QED BY <2>1, <2>3, <2>4, <1>1 DEF Sized, Reading
  <1>7. \A g \in Usable : (g < f' <=> g < f) /\ g # f
    BY <1>1, <1>2, <1>3
  <1>8. \A g \in Usable : \A x : (Read(g, x)' <=> Read(g, x)) /\ (ReadRow(g, x)' <=> ReadRow(g, x))
    BY <1>1, <1>7 DEF Read, ReadRow
  <1>9. \A d \in Definitions : d[1] \in Usable
    BY DefinitionsProps
  <1>10. (TableRight /\ NamesOnce /\ RowsRight /\ PlacesOnce)'
    BY <1>1, <1>2, <1>8, <1>9, SameTable
  <1>11. (LocalRight /\ PlacesBehind /\ OutcomeRight)' /\ ~Writing' /\ Inside'
         /\ \A s \in Sections : base'[s] <= size'[s]
    BY <1>1 DEF LinkInv, LocalRight, PlacesBehind, OutcomeRight, Reading, Writing, Inside
  <1> QED BY <1>4, <1>5, <1>6, <1>10, <1>11 DEF LinkInv

(* The sections of a file go behind those of the files before it. *)
LEMMA ReadFileKeeps ==
  ASSUME LinkInv, ReadFile
  PROVE  LinkInv'
  <1>1. /\ phase = "open" /\ f <= Len(files) /\ files[f].format = "object" /\ base' = size
        /\ size' = [s \in Sections |-> size[s] + files[f].size[s]]
        /\ local' = [x \in 1..Len(files[f].syms) |-> 0] /\ k' = 1 /\ phase' = "symbols"
        /\ UNCHANGED <<files, f, ret, table>>
        /\ UNCHANGED <<symtab, entry, lastLocal, nextString>>
    BY DEF ReadFile, AppendSections, File, writing
  <1>2. /\ files \in Inputs /\ Len(files) \in Nat /\ f \in 1..Len(files) /\ ret = "SUCCESS"
        /\ f \in Usable /\ WellFormed(files[f]) /\ table \in Seq(Entries) /\ Len(table) \in Nat
    BY <1>1, FilesProps DEF LinkInv, Typed, Advanced, Usable
  <1>3. \A s \in Sections : /\ size[s] \in Nat /\ files[f].size[s] \in Nat
                            /\ base'[s] = size[s] /\ size'[s] = size[s] + files[f].size[s]
    BY <1>1, <1>2 DEF LinkInv, Typed, WellFormed
  <1>4. Typed'
    <2>1. size' \in [Sections -> Nat] /\ base' \in [Sections -> Nat]
      BY <1>1, <1>3 DEF LinkInv, Typed
    <2>2. \A x \in DOMAIN local' : local'[x] \in 0..Len(table)
      BY <1>1, <1>2
    <2> QED BY <1>1, <2>1, <2>2 DEF LinkInv, Typed
  <1>5. Advanced'
    <2>1. f \in Usable' /\ DOMAIN local' = 1..Len(File'.syms)
      BY <1>1, <1>2 DEF File, Usable
    <2> QED BY <2>1, <1>1, <1>2 DEF LinkInv, Advanced, Reading, Writing
  <1>6. Sized'
    <2>1. \A s \in Sections : size[s] = Before(f, s)
      BY <1>1, <1>2 DEF LinkInv, Sized
    <2>2. \A s \in Sections : Before(f + 1, s) = Before(f, s) + files[f].size[s]
      BY <1>2, BeforeProps
    <2>3. \A g, s : Before(g, s)' = Before(g, s)
      BY <1>1, FilesFixed
    <2>4. \A s \in Sections : base'[s] = Before(f, s) /\ size'[s] = Before(f + 1, s) /\ base'[s] <= size'[s]
      BY <2>1, <2>2, <1>3
    <2> QED BY <2>3, <2>4, <1>1 DEF Sized
  <1>7. \A g \in Usable : \A x : (ReadRow(g, x)' <=> ReadRow(g, x))
    BY <1>1 DEF ReadRow
  <1>8. \A d \in Definitions : Read(d[1], d[2])' <=> Read(d[1], d[2])
    <2>1. \A d \in Definitions : d[1] \in Usable /\ d[2] \in 1..Len(files[d[1]].syms)
      BY DefinitionsProps
    <2>2. \A d \in Definitions : d[2] \in Nat /\ ~(d[2] < 1)
      BY <2>1
    <2> QED BY <2>2, <1>1 DEF Read
  <1>9. (TableRight /\ NamesOnce /\ RowsRight /\ PlacesOnce)'
    BY <1>1, <1>2, <1>7, <1>8, SameTable
  <1>10. /\ \A x \in 1..Len(table) : table[x].off \in Nat
         /\ \A x \in 1..Len(table) : \A q \in ToSet(table[x].relocs) :
              q.sect \in Sections /\ q.off \in Nat /\ q.off < size[q.sect]
    BY TableProps DEF LinkInv, Inside
  <1>11. Inside'
    <2>1. ASSUME NEW x \in 1..Len(table), table[x].defined
          PROVE  table[x].sect \in Sections /\ table[x].off <= size'[table[x].sect]
      <3>1. table[x].sect \in Sections /\ table[x].off <= size[table[x].sect] /\ table[x].off \in Nat
        BY <2>1, <1>10 DEF LinkInv, Inside
      <3> QED BY <3>1, <1>3
    <2>2. ASSUME NEW x \in 1..Len(table), NEW q \in ToSet(table[x].relocs)
          PROVE  q.off < size'[q.sect]
      BY <1>3, <1>10
    <2> QED BY <2>1, <2>2, <1>1 DEF Inside
  <1>12. PlacesBehind'
    BY <1>1, <1>3, <1>10 DEF PlacesBehind
  <1>13. LocalRight'
    <2>1. \A x \in 1..Len(files[f].syms) : ~Read(f, x)'
      BY <1>1, <1>2 DEF Read
    <2> QED BY <2>1, <1>1 DEF LocalRight, File
  <1>14. OutcomeRight' /\ ~Writing' /\ \A s \in Sections : base'[s] <= size'[s]
    BY <1>1, <1>3 DEF OutcomeRight, Writing
  <1> QED BY <1>4, <1>5, <1>6, <1>9, <1>11, <1>12, <1>13, <1>14 DEF LinkInv


-----------------------------------------------------------------------------
(* Reading the symbol table of a file. *)
LEMMA SkipFileSymbolKeeps ==
  ASSUME LinkInv, SkipFileSymbol
  PROVE  LinkInv'
  <1>1. /\ phase = "symbols" /\ k <= Len(File.syms) /\ File.syms[k].sect = "file" /\ k' = k + 1
        /\ UNCHANGED <<files, f, phase, ret, size, base, table, local>>
        /\ UNCHANGED <<symtab, entry, lastLocal, nextString>>
    BY DEF SkipFileSymbol, ReadingSymbol, Sym, reading, writing
  <1>2. ret = "SUCCESS" /\ k \in Nat \ {0} /\ files \in Inputs
    BY <1>1 DEF LinkInv, Advanced, Typed
  <1>3. File' = File /\ Usable' = Usable /\ (Reading' <=> Reading) /\ ~Writing'
    BY <1>1 DEF File, Usable, Reading, Writing
  <1>4. Typed'
    BY <1>1, <1>2 DEF LinkInv, Typed
  <1>5. Advanced'
    BY <1>1, <1>3 DEF LinkInv, Advanced
  <1>6. Sized'
    <2>1. \A g, s : Before(g, s)' = Before(g, s)
      BY <1>1, FilesFixed
    <2> QED BY <2>1, <1>1, <1>2, <1>3 DEF LinkInv, Sized
  <1>7. \A g : \A y : ReadRow(g, y)' <=> ReadRow(g, y)
    BY <1>1 DEF ReadRow
  <1>8. \A g : \A x \in Nat : x # k \/ g # f => (Read(g, x)' <=> Read(g, x))
    BY <1>1, <1>2 DEF Read
  <1>9. \A d \in Definitions : Read(d[1], d[2])' <=> Read(d[1], d[2])
    <2>1. ASSUME NEW d \in Definitions PROVE Read(d[1], d[2])' <=> Read(d[1], d[2])
      <3>1. d[2] \in 1..Len(files[d[1]].syms) /\ files[d[1]].syms[d[2]].sect \in Sections
        BY DefinitionsProps DEF SymAt
      <3>2. d[2] \in Nat
        BY <3>1
      <3>3. d[1] # f \/ d[2] # k
        BY <3>1, <1>1 DEF File, Sections
      <3> QED BY <3>2, <3>3, <1>8
    <2> QED BY <2>1
  <1>10. (TableRight /\ NamesOnce /\ RowsRight /\ PlacesOnce)'
    BY <1>1, <1>2, <1>7, <1>9, SameTable
  <1>11. LocalRight'
    <2>1. \A e, x : StandsFor(e, f, x)' = StandsFor(e, f, x)
      BY <1>1, FilesFixed
    <2>2. \A x \in 1..Len(File.syms) : File.syms[x].sect # "file" => (Read(f, x)' <=> Read(f, x))
      BY <1>1, <1>8
    <2>3. LocalRight
      BY <1>2 DEF LinkInv
    <2> QED BY <2>1, <2>2, <2>3, <1>1, <1>3 DEF LocalRight
  <1>12. PlacesBehind'
    BY <1>1, <1>2, <1>3 DEF LinkInv, PlacesBehind
  <1>13. (OutcomeRight /\ Inside)' /\ \A s \in Sections : base'[s] <= size'[s]
    BY <1>1 DEF LinkInv, OutcomeRight, Inside
  <1> QED BY <1>3, <1>4, <1>5, <1>6, <1>10, <1>11, <1>12, <1>13 DEF LinkInv

LEMMA EndOfSymtabKeeps ==
  ASSUME LinkInv, EndOfSymtab
  PROVE  LinkInv'
  <1>1. /\ phase = "symbols" /\ k > Len(File.syms) /\ phase' = "relas" /\ k' = 1
        /\ UNCHANGED <<files, f, ret, size, base, table, local>>
        /\ UNCHANGED <<symtab, entry, lastLocal, nextString>>
    BY DEF EndOfSymtab, reading, writing
  <1>2. ret = "SUCCESS" /\ k \in Nat \ {0} /\ files \in Inputs /\ f \in Usable
    BY <1>1 DEF LinkInv, Advanced, Typed, Reading
  <1>3. File' = File /\ Usable' = Usable /\ Reading /\ Reading' /\ ~Writing'
    BY <1>1 DEF File, Usable, Reading, Writing
  <1>4. Len(File.syms) \in Nat /\ Len(File.relas) \in Nat
    BY <1>2, FilesProps DEF WellFormed, File
  <1>5. Typed'
    BY <1>1, <1>2 DEF LinkInv, Typed
  <1>6. Advanced'
    BY <1>1, <1>3 DEF LinkInv, Advanced
  <1>7. Sized'
    <2>1. \A g, s : Before(g, s)' = Before(g, s)
      BY <1>1, FilesFixed
    <2> QED BY <2>1, <1>1, <1>2, <1>3 DEF LinkInv, Sized
  <1>8. \A g \in Usable : \A y \in 1..Len(files[g].relas) : ReadRow(g, y)' <=> ReadRow(g, y)
    BY <1>1 DEF ReadRow
  <1>9. \A x \in 1..Len(File.syms) : Read(f, x)' /\ Read(f, x)
    BY <1>1, <1>2, <1>4 DEF Read
  <1>10. \A d \in Definitions : Read(d[1], d[2])' <=> Read(d[1], d[2])
    <2>1. ASSUME NEW d \in Definitions PROVE Read(d[1], d[2])' <=> Read(d[1], d[2])
      <3>1. d[2] \in 1..Len(files[d[1]].syms)
        BY DefinitionsProps
      <3>2. CASE d[1] = f
        <4>1. d[2] \in 1..Len(File.syms)
          BY <3>1, <3>2 DEF File
        <4>2. Read(f, d[2])' /\ Read(f, d[2])
          BY <4>1, <1>9
        <4>3. Read(f, d[2])' <=> Read(d[1], d[2])'
          BY <3>2, <1>1 DEF Read
        <4> QED BY <4>2, <4>3, <3>2
      <3>3. CASE d[1] # f
        <4>1. Read(d[1], d[2])' <=> d[1] < f
          BY <3>3, <1>1 DEF Read
        <4>2. Read(d[1], d[2]) <=> d[1] < f
          BY <3>3, <1>1 DEF Read
        <4> QED BY <4>1, <4>2
      <3> QED BY <3>2, <3>3
    <2> QED BY <2>1
  <1>11. (TableRight /\ NamesOnce /\ RowsRight /\ PlacesOnce)'
    BY <1>1, <1>2, <1>8, <1>10, SameTable
  <1>12. LocalRight'
    <2>1. \A e, x : StandsFor(e, f, x)' = StandsFor(e, f, x)
      BY <1>1, FilesFixed
    <2>2. LocalRight
      BY <1>2 DEF LinkInv
    <2> QED BY <2>1, <2>2, <1>1, <1>3, <1>9 DEF LocalRight
  <1>13. PlacesBehind'
    <2>1. PlacesBehind
      BY <1>2 DEF LinkInv
    <2> QED BY <2>1, <1>1, <1>3 DEF PlacesBehind
  <1>14. (OutcomeRight /\ Inside)' /\ \A s \in Sections : base'[s] <= size'[s]
    BY <1>1 DEF LinkInv, OutcomeRight, Inside
  <1> QED BY <1>3, <1>5, <1>6, <1>7, <1>11, <1>12, <1>13, <1>14 DEF LinkInv

LEMMA EndOfRelasKeeps ==
  ASSUME LinkInv, EndOfRelas
  PROVE  LinkInv'
  <1>1. /\ phase = "relas" /\ k > Len(File.relas) /\ phase' = "open" /\ f' = f + 1
        /\ UNCHANGED <<files, k, ret, size, base, table, local>>
        /\ UNCHANGED <<symtab, entry, lastLocal, nextString>>
    BY DEF EndOfRelas, NextFile, reading, writing
  <1>2. ret = "SUCCESS" /\ k \in Nat \ {0} /\ files \in Inputs /\ f \in Usable /\ f \in 1..Len(files) + 1
    BY <1>1 DEF LinkInv, Advanced, Typed, Reading
  <1>3. Usable' = Usable /\ Reading /\ ~Reading' /\ ~Writing'
    BY <1>1 DEF Usable, Reading, Writing
  <1>4. /\ Len(files) \in Nat /\ f \in 1..Len(files) /\ Len(File.relas) \in Nat
        /\ \A g \in Usable : g \in 1..Len(files)
    BY <1>2, FilesProps DEF WellFormed, File
  <1>5. Typed'
    BY <1>1, <1>2, <1>4 DEF LinkInv, Typed
  <1>6. Advanced'
    <2>1. \A g \in 1..f - 1 : files[g].format \notin {"absent", "other_rela", "no_section"}
      BY DEF LinkInv, Advanced
    <2>2. files[f].format = "object"
      BY <1>2 DEF Usable
    <2>3. f' - 1 = f /\ \A g \in 1..f : g = f \/ g \in 1..f - 1
      BY <1>1, <1>4
    <2>4. \A g \in 1..f : files[g].format \notin {"absent", "other_rela", "no_section"}
      BY <2>1, <2>2, <2>3
    <2>5. phase' # "done" /\ phase' # "strings" /\ ret' = "SUCCESS" /\ lastLocal' = 0
      BY <1>1, <1>2 DEF LinkInv, Advanced
    <2> QED BY <2>3, <2>4, <2>5, <1>1, <1>3 DEF Advanced
  <1>7. Sized'
    <2>1. \A g, s : Before(g, s)' = Before(g, s)
      BY <1>1, FilesFixed
    <2> QED BY <2>1, <1>1, <1>2, <1>3 DEF LinkInv, Sized
  <1>8. \A g \in Usable : (g < f' <=> g < f \/ g = f)
    BY <1>1, <1>4
  <1>9. \A g \in Usable : \A x : Read(g, x)' <=> Read(g, x)
    BY <1>1, <1>8 DEF Read
  <1>10. \A g \in Usable : \A y \in 1..Len(files[g].relas) : ReadRow(g, y)' <=> ReadRow(g, y)
    <2>1. ASSUME NEW g \in Usable, NEW y \in 1..Len(files[g].relas)
          PROVE  ReadRow(g, y)' <=> ReadRow(g, y)
      <3>1. g = f => y < k
        BY <1>1, <1>2, <1>4 DEF File
      <3> QED BY <3>1, <1>1, <1>8 DEF ReadRow
    <2> QED BY <2>1
  <1>11. \A d \in Definitions : d[1] \in Usable
    BY DefinitionsProps
  <1>12. (TableRight /\ NamesOnce /\ RowsRight /\ PlacesOnce)'
    BY <1>1, <1>2, <1>9, <1>10, <1>11, SameTable
  <1>13. (LocalRight /\ PlacesBehind)'
    BY <1>3 DEF LocalRight, PlacesBehind
  <1>14. (OutcomeRight /\ Inside)' /\ \A s \in Sections : base'[s] <= size'[s]
    BY <1>1 DEF LinkInv, OutcomeRight, Inside
  <1> QED BY <1>3, <1>5, <1>6, <1>7, <1>12, <1>13, <1>14 DEF LinkInv


(* The symbol that is read next, and where its file goes. *)
LEMMA SymProps ==
  ASSUME LinkInv, ReadingSymbol, Sym.sect # "file"
  PROVE  /\ files \in Inputs /\ ret = "SUCCESS" /\ f \in Usable /\ k \in 1..Len(files[f].syms)
         /\ Sym = files[f].syms[k] /\ SymbolOK(files[f], Sym)
         /\ \A s \in Sections : /\ base[s] = Before(f, s) /\ base[s] \in Nat /\ size[s] \in Nat
                                /\ files[f].size[s] \in Nat /\ size[s] = base[s] + files[f].size[s]
         /\ \A x : Read(f, x) <=> x < k
         /\ Reading /\ DOMAIN local = 1..Len(files[f].syms) /\ Len(files[f].syms) \in Nat
  <1>1. phase = "symbols" /\ k <= Len(files[f].syms) /\ Reading
    BY DEF ReadingSymbol, File, Reading
  <1>2. /\ files \in Inputs /\ ret = "SUCCESS" /\ f \in Usable /\ k \in Nat \ {0}
        /\ size \in [Sections -> Nat] /\ base \in [Sections -> Nat] /\ DOMAIN local = 1..Len(files[f].syms)
    BY <1>1 DEF LinkInv, Typed, Advanced, File
  <1>3. f \in 1..Len(files) /\ Len(files) \in Nat /\ WellFormed(files[f])
    BY <1>2, FilesProps
  <1>4. Len(files[f].syms) \in Nat /\ \A x \in 1..Len(files[f].syms) : SymbolOK(files[f], files[f].syms[x])
    BY <1>3 DEF WellFormed
  <1>5. k \in 1..Len(files[f].syms) /\ Sym = files[f].syms[k] /\ SymbolOK(files[f], Sym)
    BY <1>1, <1>2, <1>4 DEF Sym, File
  <1>6. Sized
    BY <1>2 DEF LinkInv
  <1>7. \A s \in Sections : base[s] = Before(f, s) /\ size[s] = Before(f + 1, s)
    BY <1>1, <1>6 DEF Sized
  <1>8. \A s \in Sections : /\ Before(f + 1, s) = Before(f, s) + files[f].size[s]
                            /\ files[f].size[s] \in Nat
    BY <1>2, <1>3, BeforeProps
  <1>9. \A x : Read(f, x) <=> x < k
    BY <1>1, <1>3 DEF Read
  <1> QED BY <1>1, <1>2, <1>4, <1>5, <1>7, <1>8, <1>9

(* The scan of symbol_table finds the entry of a global symbol. *)
LEMMA FoundProps ==
  ASSUME LinkInv
  PROVE  /\ Found # 0 => /\ Found \in 1..Len(table) /\ Sym.bind = "global"
                         /\ table[Found].bind = "global" /\ table[Found].name = Sym.name
         /\ Found = 0 /\ Sym.bind = "global" =>
              \A x \in 1..Len(table) : ~(table[x].bind = "global" /\ table[x].name = Sym.name)
  <1> DEFINE same == {x \in 1..Len(table) : table[x].bind = "global" /\ table[x].name = Sym.name}
  <1>1. Len(table) \in Nat
    BY TableProps DEF LinkInv
  <1>2. same # {} => Min(same) \in same
    <2>1. same \in SUBSET (1..Len(table))
      OBVIOUS
    <2> HIDE DEF same
    <2> QED BY <2>1, <1>1, MinProps
  <1>3. Found = IF Sym.bind = "global" /\ same # {} THEN Min(same) ELSE 0
    BY DEF Found
  <1>4. \A x \in same : x \in 1..Len(table) /\ x # 0 /\ table[x].bind = "global" /\ table[x].name = Sym.name
    BY <1>1
  <1>5. \A x \in 1..Len(table) : table[x].bind = "global" /\ table[x].name = Sym.name => x \in same
    OBVIOUS
  <1> HIDE DEF same
  <1>6. CASE Sym.bind = "global" /\ same # {}
    BY <1>2, <1>3, <1>4, <1>6
  <1>7. CASE Sym.bind = "global" /\ same = {}
    BY <1>3, <1>5, <1>7
  <1>8. CASE Sym.bind # "global"
    BY <1>3, <1>8
  <1> QED BY <1>6, <1>7, <1>8

LEMMA MultipleDefinitionsKeeps ==
  ASSUME LinkInv, MultipleDefinitions
  PROVE  LinkInv'
  <1>1. /\ ReadingSymbol /\ Sym.sect \in Sections /\ Found # 0 /\ table[Found].defined
        /\ Fail("LINKER_ERROR")
    BY DEF MultipleDefinitions
  <1>2. Sym.sect # "file"
    BY <1>1 DEF Sections
  <1>3. /\ ret = "SUCCESS" /\ f \in Usable /\ k \in 1..Len(files[f].syms) /\ Sym = files[f].syms[k]
        /\ \A x : Read(f, x) <=> x < k
    BY <1>1, <1>2, SymProps
  <1>4. /\ Found \in 1..Len(table) /\ Sym.bind = "global"
        /\ table[Found].bind = "global" /\ table[Found].name = Sym.name
    BY <1>1, FoundProps
  <1>5. PICK d \in Definitions : Read(d[1], d[2]) /\ Is(table[Found], d)
    BY <1>1, <1>3, <1>4 DEF LinkInv, TableRight
  <1> DEFINE e == <<f, k>>
  <1>6. e \in Definitions /\ SymAt(e) = Sym /\ e[1] = f /\ e[2] = k
    BY <1>1, <1>3, DefinitionsProps DEF SymAt
  <1>7. ~Read(f, k)
    <2>1. k \in Nat
      BY DEF LinkInv, Typed
    <2>2. ~(k < k)
      BY <2>1
    <2> QED BY <2>2, <1>3
  <1>8. d # e
    BY <1>5, <1>6, <1>7
  <1>9. SymAt(d).name = SymAt(e).name /\ SymAt(d).bind = "global" /\ SymAt(e).bind = "global"
    BY <1>4, <1>5, <1>6 DEF Is
  <1> HIDE DEF e
  <1>10. ~Linkable
    BY <1>6, <1>8, <1>9 DEF Linkable, Unambiguous
  <1> QED BY <1>1, <1>10, FailKeeps


(* A table that is to replace symbol_table, with the entry x for the       *)
(* symbol that is read: it is appended, or was there without a definition. *)
Bound(t, x) ==
  /\ t \in Seq(Entries) /\ x \in 1..Len(t)
  /\ Len(t) = Len(table) \/ (Len(t) = Len(table) + 1 /\ x = Len(t) /\ t[x].relocs = <<>>)
  /\ \A y \in 1..Len(table) :
       /\ t[y].name = table[y].name /\ t[y].bind = table[y].bind /\ t[y].relocs = table[y].relocs
       /\ y # x \/ table[y].defined => t[y] = table[y]
  /\ t[x].name = Sym.name /\ t[x].bind = Sym.bind
  /\ Sym.sect \in Sections => /\ Is(t[x], <<f, k>>) /\ t[x].off <= size[Sym.sect]
                              /\ x \in 1..Len(table) => ~table[x].defined
  /\ Sym.sect \notin Sections => /\ Sym.bind = "global"
                                 /\ t[x].defined => x \in 1..Len(table) /\ table[x].defined
  /\ Sym.bind = "global" =>
       \A y \in 1..Len(table) : table[y].bind = "global" /\ table[y].name = Sym.name => y = x

LEMMA BindKeeps ==
  ASSUME LinkInv, ReadingSymbol, Sym.sect # "file", NEW t, NEW x, Bound(t, x), Bind(t, x)
  PROVE  LinkInv'
  <1>1. /\ files \in Inputs /\ ret = "SUCCESS" /\ f \in Usable /\ k \in 1..Len(files[f].syms)
        /\ Sym = files[f].syms[k] /\ Reading /\ DOMAIN local = 1..Len(files[f].syms)
        /\ \A y : Read(f, y) <=> y < k
    BY SymProps
  <1>2. /\ table' = t /\ local' = [local EXCEPT ![k] = x] /\ k' = k + 1
        /\ UNCHANGED <<files, f, phase, ret, size, base>>
        /\ UNCHANGED <<symtab, entry, lastLocal, nextString>>
    BY DEF Bind, writing
  <1>3. /\ phase = "symbols" /\ k \in Nat \ {0} /\ Len(table) \in Nat /\ Len(t) \in Nat
        /\ 1..Len(table) \subseteq 1..Len(t)
    BY TableProps DEF LinkInv, Typed, ReadingSymbol, Bound
  <1>4. ASSUME NEW y \in 1..Len(t) PROVE y = x \/ (y \in 1..Len(table) /\ t[y] = table[y])
    BY <1>3 DEF Bound
  <1>5. ASSUME NEW y \in 1..Len(table)
        PROVE  /\ y \in 1..Len(t) /\ t[y].name = table[y].name /\ t[y].bind = table[y].bind
               /\ t[y].relocs = table[y].relocs /\ (table[y].defined => t[y] = table[y])
    BY <1>3 DEF Bound
  <1>6. ASSUME NEW y \in 1..Len(t), t[y].relocs # <<>> PROVE y \in 1..Len(table)
    BY <1>3, <1>4, <1>6 DEF Bound
  <1>7. ASSUME NEW y \in 1..Len(table), NEW g, NEW z, StandsFor(table[y], g, z)
        PROVE  StandsFor(t[y], g, z)
    BY <1>5, <1>7 DEF StandsFor, Is
  <1>8. ASSUME NEW y \in 1..Len(t), NEW q \in ToSet(t[y].relocs)
        PROVE  y \in 1..Len(table) /\ q \in ToSet(table[y].relocs)
    <2>1. t[y].relocs # <<>>
      BY <1>8 DEF ToSet
    <2> QED BY <2>1, <1>5, <1>6
  <1>9. File' = File /\ Usable' = Usable /\ (Reading' <=> Reading) /\ ~Writing'
    BY <1>2, <1>3 DEF File, Usable, Reading, Writing
  <1>10. Typed'
    <2>1. \A y \in DOMAIN local' : local'[y] \in 0..Len(t)
      <3>1. DOMAIN local' = DOMAIN local /\ \A y \in DOMAIN local : local'[y] = x \/ local'[y] = local[y]
        BY <1>2
      <3>2. x \in 0..Len(t) /\ \A y \in DOMAIN local : local[y] \in 0..Len(table)
        BY <1>3 DEF LinkInv, Typed, Bound
      <3>3. 0..Len(table) \subseteq 0..Len(t)
        BY <1>3 DEF Bound
      <3> QED BY <3>1, <3>2, <3>3
    <2>2. t \in Seq(Entries) /\ k + 1 \in Nat \ {0}
      BY <1>3 DEF Bound
    <2> QED BY <2>1, <2>2, <1>2 DEF LinkInv, Typed
  <1>11. Advanced'
    <2>1. DOMAIN local' = 1..Len(File'.syms) /\ f' \in Usable'
      BY <1>1, <1>2, <1>9 DEF File
    <2>2. phase' = "symbols" /\ ret' = "SUCCESS" /\ lastLocal' = 0
      BY <1>1, <1>2, <1>3 DEF LinkInv, Advanced
    <2>3. \A g \in 1..f' - 1 : files'[g].format \notin {"absent", "other_rela", "no_section"}
      BY <1>2 DEF LinkInv, Advanced
    <2> QED BY <2>1, <2>2, <2>3, <1>9 DEF Advanced
  <1>12. Sized'
    <2>1. \A g, s : Before(g, s)' = Before(g, s)
      BY <1>2, FilesFixed
    <2> QED BY <2>1, <1>1, <1>2, <1>9 DEF LinkInv, Sized
  <1>13. /\ Definitions' = Definitions /\ \A d : SymAt(d)' = SymAt(d)
         /\ \A e, d : Is(e, d)' = Is(e, d)
         /\ \A e, g, y : StandsFor(e, g, y)' = StandsFor(e, g, y)
         /\ \A g, r : Stored(g, r)' = Stored(g, r)
         /\ \A g : Relas(g)' = Relas(g)
    BY <1>2, FilesFixed
  <1>14. \A g, y : ReadRow(g, y)' <=> ReadRow(g, y)
    BY <1>2, <1>3 DEF ReadRow
  <1>15. \A g : \A y \in Nat : Read(g, y)' <=> Read(g, y) \/ (g = f /\ y = k)
    BY <1>2, <1>3 DEF Read
  <1>16. ASSUME NEW d \in Definitions
         PROVE  Read(d[1], d[2])' <=> Read(d[1], d[2]) \/ (d = <<f, k>> /\ Sym.sect \in Sections)
    <2>1. /\ d = <<d[1], d[2]>> /\ d[2] \in 1..Len(files[d[1]].syms)
          /\ SymAt(d).sect \in Sections
      BY DefinitionsProps
    <2>2. d[2] \in Nat
      BY <2>1
    <2>3. d[1] = f /\ d[2] = k <=> d = <<f, k>>
      BY <2>1
    <2>4. d = <<f, k>> => Sym = SymAt(d)
      BY <1>1 DEF SymAt
    <2> QED BY <1>15, <2>1, <2>2, <2>3, <2>4
  <1>17. Sym.sect \in Sections => /\ <<f, k>> \in Definitions /\ SymAt(<<f, k>>) = Sym
                                  /\ Is(t[x], <<f, k>>)
    BY <1>1, DefinitionsProps DEF SymAt, Bound
  <1>18. TableRight'
    <2>1. TableRight
      BY <1>1 DEF LinkInv
    <2>2. ASSUME NEW d \in Definitions, Read(d[1], d[2])'
          PROVE  \E y \in 1..Len(t) : Is(t[y], d)
      <3>1. CASE Read(d[1], d[2])
        <4>1. PICK y \in 1..Len(table) : Is(table[y], d)
          BY <2>1, <3>1 DEF TableRight
        <4>2. t[y] = table[y] /\ y \in 1..Len(t)
          BY <4>1, <1>5 DEF Is
        <4> QED BY <4>1, <4>2
      <3>2. CASE d = <<f, k>> /\ Sym.sect \in Sections
        BY <3>2, <1>17 DEF Bound
      <3> QED BY <2>2, <3>1, <3>2, <1>16
    <2>3. ASSUME NEW y \in 1..Len(t), t[y].defined
          PROVE  \E d \in Definitions : Read(d[1], d[2])' /\ Is(t[y], d)
      <3>1. CASE y \in 1..Len(table) /\ t[y] = table[y]
        <4>1. PICK d \in Definitions : Read(d[1], d[2]) /\ Is(table[y], d)
          BY <2>1, <2>3, <3>1 DEF TableRight
        <4> QED BY <4>1, <3>1, <1>16
      <3>2. CASE y = x /\ Sym.sect \in Sections
        <4>1. PICK d \in Definitions : d = <<f, k>>
          BY <3>2, <1>17
        <4>2. Read(d[1], d[2])'
          BY <4>1, <3>2, <1>16
        <4> QED BY <4>1, <4>2, <3>2, <1>17
      <3>3. CASE y = x /\ Sym.sect \notin Sections
        <4>1. y \in 1..Len(table) /\ table[y].defined
          BY <3>3, <2>3 DEF Bound
        <4> QED BY <4>1, <3>1, <1>5
      <3> QED BY <3>1, <3>2, <3>3, <1>4
    <2>4. ASSUME NEW y \in 1..Len(t), t[y].bind = "local" PROVE t[y].defined
      <3>1. CASE y \in 1..Len(table) /\ t[y] = table[y]
        BY <2>1, <2>4, <3>1 DEF TableRight
      <3>2. CASE y = x
        BY <2>4, <3>2, <1>17 DEF Bound, Is
      <3> QED BY <3>1, <3>2, <1>4
    <2>5. Counted'
      <3>1. IsFiniteSet(ReadDefs) /\ IsFiniteSet(DefinedEntries) /\ Cardinality(DefinedEntries) = Cardinality(ReadDefs)
        BY <2>1 DEF TableRight, Counted
      <3>2. CASE Sym.sect \in Sections
        <4>1. <<f, k>> \notin ReadDefs
          <5>1. ~(k < k)
            BY <1>3
          <5>2. ~Read(f, k)
            BY <5>1, <1>1
          <5> QED BY <5>2 DEF ReadDefs
        <4>2. x \notin DefinedEntries
          BY <3>2 DEF Bound, DefinedEntries
        <4>3. ReadDefs' = ReadDefs \cup {<<f, k>>}
          BY <3>2, <1>13, <1>16, <1>17 DEF ReadDefs
        <4>4. DefinedEntries' = DefinedEntries \cup {x}
          <5>1. t[x].defined /\ x \in 1..Len(t)
            BY <3>2, <1>17 DEF Is, Bound
          <5>2. \A y \in 1..Len(table) : table[y].defined => t[y].defined /\ y \in 1..Len(t)
            BY <1>5
          <5>3. \A y \in 1..Len(t) : t[y].defined => y = x \/ (y \in 1..Len(table) /\ table[y].defined)
            BY <1>4
          <5>4. DefinedEntries' = {y \in 1..Len(t) : t[y].defined}
            BY <1>2 DEF DefinedEntries
          <5> QED BY <5>1, <5>2, <5>3, <5>4 DEF DefinedEntries
        <4>5. IsFiniteSet(ReadDefs') /\ Cardinality(ReadDefs') = Cardinality(ReadDefs) + 1
          BY <3>1, <4>1, <4>3, FS_AddElement
        <4>6. IsFiniteSet(DefinedEntries') /\ Cardinality(DefinedEntries') = Cardinality(DefinedEntries) + 1
          BY <3>1, <4>2, <4>4, FS_AddElement
        <4> QED BY <4>5, <4>6, <3>1 DEF Counted
      <3>3. CASE Sym.sect \notin Sections
        <4>1. ReadDefs' = ReadDefs
          BY <3>3, <1>13, <1>16 DEF ReadDefs
        <4>2. DefinedEntries' = DefinedEntries
          <5>1. \A y \in 1..Len(table) : table[y].defined => t[y].defined /\ y \in 1..Len(t)
            BY <1>5
          <5>2. \A y \in 1..Len(t) : t[y].defined => y \in 1..Len(table) /\ table[y].defined
            BY <3>3, <1>4 DEF Bound
          <5>3. DefinedEntries' = {y \in 1..Len(t) : t[y].defined}
            BY <1>2 DEF DefinedEntries
          <5> QED BY <5>1, <5>2, <5>3 DEF DefinedEntries
        <4> QED BY <3>1, <4>1, <4>2 DEF Counted
      <3> QED BY <3>2, <3>3
    <2> QED BY <2>2, <2>3, <2>4, <2>5, <1>2, <1>13 DEF TableRight
  <1>19. NamesOnce'
    <2>1. NamesOnce /\ TableRight
      BY <1>1 DEF LinkInv
    <2>2. ASSUME NEW y \in 1..Len(t), NEW z \in 1..Len(t), t[y].bind = "global", t[z].bind = "global",
                 t[y].name = t[z].name
          PROVE  y = z
      <3>1. CASE y = x \/ z = x
        BY <3>1, <2>2, <1>4 DEF Bound
      <3>2. CASE y # x /\ z # x
        BY <3>2, <2>1, <2>2, <1>4 DEF NamesOnce
      <3> QED BY <3>1, <3>2
    <2>3. ASSUME NEW d \in Definitions, Read(d[1], d[2]), SymAt(d).name = Sym.name,
                 SymAt(d).bind = "global", Sym.bind = "global", Sym.sect \in Sections
          PROVE  FALSE
      <3>1. PICK y \in 1..Len(table) : Is(table[y], d)
        BY <2>1, <2>3 DEF TableRight
      <3>2. y = x /\ table[x].defined
        BY <2>3, <3>1 DEF Is, Bound
      <3> QED BY <2>3, <3>1, <3>2 DEF Bound
    <2>4. ASSUME NEW d \in Definitions, NEW e \in Definitions, Read(d[1], d[2])', Read(e[1], e[2])',
                 SymAt(d).name = SymAt(e).name, SymAt(d).bind = "global", SymAt(e).bind = "global"
          PROVE  d = e
      <3>1. CASE Read(d[1], d[2]) /\ Read(e[1], e[2])
        BY <2>1, <2>4, <3>1 DEF NamesOnce
      <3>2. CASE d = <<f, k>> /\ e = <<f, k>>
        BY <3>2
      <3>3. CASE Read(d[1], d[2]) /\ e = <<f, k>> /\ Sym.sect \in Sections
        BY <2>3, <2>4, <3>3, <1>17
      <3>4. CASE Read(e[1], e[2]) /\ d = <<f, k>> /\ Sym.sect \in Sections
        BY <2>3, <2>4, <3>4, <1>17
      <3> QED BY <2>4, <3>1, <3>2, <3>3, <3>4, <1>16
    <2> QED BY <2>2, <2>4, <1>2, <1>13 DEF NamesOnce
  <1>20. LocalRight'
    <2>1. LocalRight
      BY <1>1 DEF LinkInv
    <2>2. ASSUME NEW y \in 1..Len(files[f].syms), Read(f, y)', files[f].syms[y].sect # "file"
          PROVE  local'[y] \in 1..Len(t) /\ StandsFor(t[local'[y]], f, y)
      <3>1. CASE y = k
        <4>1. local'[y] = x /\ x \in 1..Len(t)
          BY <3>1, <1>1, <1>2 DEF Bound
        <4>2. t[x].name = Sym.name /\ t[x].bind = Sym.bind
          BY DEF Bound
        <4>3. t[x].bind = "local" => Sym.sect \in Sections
          BY <4>2 DEF Bound
        <4> QED BY <4>1, <4>2, <4>3, <3>1, <1>1, <1>17 DEF StandsFor
      <3>2. CASE y # k
        <4>1. Read(f, y) /\ local'[y] = local[y]
          <5>1. y \in Nat
            OBVIOUS
          <5> QED BY <5>1, <2>2, <3>2, <1>1, <1>2, <1>15
        <4>2. local[y] \in 1..Len(table) /\ StandsFor(table[local[y]], f, y)
          BY <4>1, <2>1, <2>2, <1>1 DEF LocalRight, File
        <4> QED BY <4>1, <4>2, <1>5, <1>7
      <3> QED BY <3>1, <3>2
    <2> QED BY <2>2, <1>2, <1>13 DEF LocalRight, File
  <1>21. RowsRight'
    <2>1. RowsRight
      BY <1>1 DEF LinkInv
    <2>2. ASSUME NEW g \in Usable, NEW y \in 1..Len(files[g].relas), ReadRow(g, y)
          PROVE  \E z \in 1..Len(t) : /\ StandsFor(t[z], g, files[g].relas[y].sym)
                                      /\ Stored(g, files[g].relas[y]) \in ToSet(t[z].relocs)
      <3>1. PICK z \in 1..Len(table) : /\ StandsFor(table[z], g, files[g].relas[y].sym)
                                       /\ Stored(g, files[g].relas[y]) \in ToSet(table[z].relocs)
        BY <2>1, <2>2 DEF RowsRight
      <3> QED BY <3>1, <1>5, <1>7
    <2>3. ASSUME NEW y \in 1..Len(t), t[y].relocs # <<>>
          PROVE  \E g \in Usable : \E r \in Relas(g) :
                   t[y].name = files[g].syms[r.sym].name /\ t[y].bind = files[g].syms[r.sym].bind
      <3>1. y \in 1..Len(table)
        BY <2>3, <1>6
      <3> QED BY <3>1, <2>1, <2>3, <1>5 DEF RowsRight
    <2> QED BY <2>2, <2>3, <1>2, <1>9, <1>13, <1>14 DEF RowsRight
  <1>22. PlacesOnce'
    <2>1. PlacesOnce
      BY <1>1 DEF LinkInv
    <2>2. ASSUME NEW y \in 1..Len(t), NEW z \in 1..Len(t), NEW p \in ToSet(t[y].relocs),
                 NEW q \in ToSet(t[z].relocs), p.sect = q.sect, p.off = q.off
          PROVE  y = z /\ p = q
      <3>1. y \in 1..Len(table) /\ p \in ToSet(table[y].relocs)
        BY <1>8
      <3>2. z \in 1..Len(table) /\ q \in ToSet(table[z].relocs)
        BY <1>8
      <3> QED BY <3>1, <3>2, <2>1, <2>2 DEF PlacesOnce
    <2> QED BY <2>2, <1>2 DEF PlacesOnce
  <1>23. PlacesBehind'
    <2>1. PlacesBehind
      BY <1>1 DEF LinkInv
    <2>2. ASSUME NEW y \in 1..Len(t), NEW q \in ToSet(t[y].relocs) PROVE q.off < base[q.sect]
      BY <2>1, <1>1, <1>3, <1>8 DEF PlacesBehind
    <2> QED BY <2>2, <1>2 DEF PlacesBehind
  <1>24. Inside'
    <2>1. ASSUME NEW y \in 1..Len(t), t[y].defined
          PROVE  t[y].sect \in Sections /\ t[y].off <= size[t[y].sect]
      <3>1. CASE y \in 1..Len(table) /\ t[y] = table[y]
        BY <2>1, <3>1 DEF LinkInv, Inside
      <3>2. CASE y = x /\ Sym.sect \in Sections
        BY <3>2, <1>17 DEF Bound, Is
      <3>3. CASE y = x /\ Sym.sect \notin Sections
        <4>1. y \in 1..Len(table) /\ table[y].defined
          BY <3>3, <2>1 DEF Bound
        <4> QED BY <4>1, <3>1, <1>5
      <3> QED BY <3>1, <3>2, <3>3, <1>4
    <2>2. ASSUME NEW y \in 1..Len(t), NEW q \in ToSet(t[y].relocs) PROVE q.off < size[q.sect]
      BY <1>8 DEF LinkInv, Inside
    <2> QED BY <2>1, <2>2, <1>2 DEF Inside
  <1>25. OutcomeRight' /\ \A s \in Sections : base'[s] <= size'[s]
    BY <1>2, <1>3 DEF LinkInv, OutcomeRight
  <1> QED BY <1>9, <1>10, <1>11, <1>12, <1>18, <1>19, <1>20, <1>21, <1>22, <1>23, <1>24, <1>25 DEF LinkInv


(* An entry that is appended, and one that is found. *)
LEMMA AppendedIsBound ==
  ASSUME LinkInv, ReadingSymbol, Sym.sect # "file", Found = 0, NEW e \in Entries,
         e.name = Sym.name, e.bind = Sym.bind, e.relocs = <<>>,
         Sym.sect \in Sections => Is(e, <<f, k>>) /\ e.off <= size[Sym.sect],
         Sym.sect \notin Sections => Sym.bind = "global" /\ ~e.defined
  PROVE  Bound(Append(table, e), Len(table) + 1)
  <1> DEFINE t == Append(table, e)
             x == Len(table) + 1
  <1>1. table \in Seq(Entries) /\ Len(table) \in Nat
    BY DEF LinkInv, Typed
  <1>2. /\ t \in Seq(Entries) /\ Len(t) = Len(table) + 1 /\ t[x] = e
        /\ \A y \in 1..Len(table) : t[y] = table[y]
    BY <1>1
  <1>3. x \in 1..Len(t) /\ x \notin 1..Len(table) /\ x = Len(t)
    BY <1>1, <1>2
  <1>4. Sym.bind = "global" =>
          \A y \in 1..Len(table) : ~(table[y].bind = "global" /\ table[y].name = Sym.name)
    BY FoundProps
  <1> HIDE DEF t, x
  <1>5. Bound(t, x)
    BY <1>1, <1>2, <1>3, <1>4 DEF Bound, x
  <1> QED BY <1>5 DEF t, x

LEMMA FoundIsBound ==
  ASSUME LinkInv, ReadingSymbol, Sym.sect # "file", Found # 0, NEW e \in Entries,
         e.name = Sym.name, e.bind = Sym.bind, e.relocs = table[Found].relocs,
         Sym.sect \in Sections => /\ ~table[Found].defined
                                  /\ Is(e, <<f, k>>) /\ e.off <= size[Sym.sect],
         Sym.sect \notin Sections => e = table[Found]
  PROVE  Bound([table EXCEPT ![Found] = e], Found)
  <1> DEFINE t == [table EXCEPT ![Found] = e]
  <1>1. table \in Seq(Entries) /\ Len(table) \in Nat /\ ret = "SUCCESS"
    BY SymProps DEF LinkInv, Typed
  <1>2. /\ Found \in 1..Len(table) /\ Sym.bind = "global"
        /\ table[Found].bind = "global" /\ table[Found].name = Sym.name
    BY FoundProps
  <1>3. /\ t \in Seq(Entries) /\ Len(t) = Len(table) /\ t[Found] = e
        /\ \A y \in 1..Len(table) : y # Found => t[y] = table[y]
    BY <1>1, <1>2
  <1>4. \A y \in 1..Len(table) : table[y].bind = "global" /\ table[y].name = Sym.name => y = Found
    BY <1>1, <1>2 DEF LinkInv, NamesOnce
  <1> HIDE DEF t
  <1>5. ASSUME NEW y \in 1..Len(table)
        PROVE  /\ t[y].name = table[y].name /\ t[y].bind = table[y].bind /\ t[y].relocs = table[y].relocs
               /\ y # Found \/ table[y].defined => t[y] = table[y]
    BY <1>2, <1>3
  <1>6. Bound(t, Found)
    BY <1>2, <1>3, <1>4, <1>5 DEF Bound
  <1> QED BY <1>6 DEF t

LEMMA ReadUndefinedKeeps ==
  ASSUME LinkInv, ReadUndefined
  PROVE  LinkInv'
  <1>1. ReadingSymbol /\ Sym.sect = "undef" /\ Sym.sect # "file" /\ Sym.sect \notin Sections
    BY DEF ReadUndefined, Sections
  <1>2. Sym.name \in DOMAIN NameLen /\ Sym.bind = "global"
    BY <1>1, SymProps DEF SymbolOK
  <1>3. CASE Found = 0
    <2>1. <<>> \in Seq(Relocs)
      OBVIOUS
    <2>2. Undefined \in Entries
      BY <2>1, <1>2 DEF Undefined, Entries
    <2>3. /\ Undefined.name = Sym.name /\ Undefined.bind = Sym.bind /\ Undefined.relocs = <<>>
          /\ ~Undefined.defined
      BY DEF Undefined
    <2>4. Bound(Append(table, Undefined), Len(table) + 1)
      BY <2>2, <2>3, <1>1, <1>2, <1>3, AppendedIsBound
    <2>5. Bind(Append(table, Undefined), Len(table) + 1)
      BY <1>3 DEF ReadUndefined
    <2> QED BY <2>4, <2>5, <1>1, BindKeeps
  <1>4. CASE Found # 0
    <2>1. Found \in 1..Len(table) /\ table[Found].bind = "global" /\ table[Found].name = Sym.name
      BY <1>4, FoundProps
    <2>2. table \in Seq(Entries) /\ table[Found] \in Entries
      BY <2>1, TableProps DEF LinkInv, Typed
    <2>3. Bound([table EXCEPT ![Found] = table[Found]], Found)
      BY <2>1, <2>2, <1>1, <1>2, <1>4, FoundIsBound
    <2>4. [table EXCEPT ![Found] = table[Found]] = table
      BY <2>1, <2>2
    <2>5. Bind(table, Found)
      BY <1>4 DEF ReadUndefined
    <2> QED BY <2>3, <2>4, <2>5, <1>1, BindKeeps
  <1> QED BY <1>3, <1>4

LEMMA ReadDefinitionKeeps ==
  ASSUME LinkInv, ReadDefinition
  PROVE  LinkInv'
  <1>1. ReadingSymbol /\ Sym.sect \in Sections /\ Sym.sect # "file"
    BY DEF ReadDefinition, Sections
  <1>2. Sym.name \in DOMAIN NameLen /\ Sym.bind \in {"global", "local"} /\ Sym = files[f].syms[k]
    BY <1>1, SymProps DEF SymbolOK
  <1>3. /\ base[Sym.sect] = Before(f, Sym.sect) /\ base[Sym.sect] \in Nat /\ size[Sym.sect] \in Nat
        /\ size[Sym.sect] = base[Sym.sect] + files[f].size[Sym.sect] /\ files[f].size[Sym.sect] \in Nat
        /\ Sym.value \in 0..files[f].size[Sym.sect]
    BY <1>1, SymProps DEF SymbolOK
  <1> DEFINE off == base[Sym.sect] + Sym.value
  <1>4. off \in Nat /\ off <= size[Sym.sect]
    BY <1>3
  <1>5. SymAt(<<f, k>>) = Sym
    BY <1>2 DEF SymAt
  <1>6. ASSUME NEW relocs \in Seq(Relocs)
        PROVE  /\ Definition(relocs) \in Entries /\ Definition(relocs).name = Sym.name
               /\ Definition(relocs).bind = Sym.bind /\ Definition(relocs).relocs = relocs
               /\ Definition(relocs).off <= size[Sym.sect] /\ Is(Definition(relocs), <<f, k>>)
    <2>1. Definition(relocs) = [defined |-> TRUE, name |-> Sym.name, bind |-> Sym.bind,
                                sect |-> Sym.sect, off |-> off, relocs |-> relocs]
      BY DEF Definition
    <2> HIDE DEF off
    <2>2. Definition(relocs) \in Entries
      BY <2>1, <1>1, <1>2, <1>4 DEF Entries
    <2>3. /\ Definition(relocs).defined /\ Definition(relocs).name = Sym.name
          /\ Definition(relocs).bind = Sym.bind /\ Definition(relocs).relocs = relocs
          /\ Definition(relocs).sect = Sym.sect /\ Definition(relocs).off = off
      BY <2>1
    <2>4. off = Before(<<f, k>>[1], Sym.sect) + Sym.value
      BY <1>3 DEF off
    <2>5. Is(Definition(relocs), <<f, k>>)
      BY <2>3, <2>4, <1>5 DEF Is
    <2> QED BY <2>2, <2>3, <2>5, <1>4
  <1>7. CASE Found = 0
    <2>1. <<>> \in Seq(Relocs)
      OBVIOUS
    <2>2. Bound(Append(table, Definition(<<>>)), Len(table) + 1)
      BY <2>1, <1>1, <1>6, <1>7, AppendedIsBound
    <2>3. Bind(Append(table, Definition(<<>>)), Len(table) + 1)
      BY <1>7 DEF ReadDefinition
    <2> QED BY <2>2, <2>3, <1>1, BindKeeps
  <1>8. CASE Found # 0
    <2>1. Found \in 1..Len(table) /\ ~table[Found].defined
      BY <1>8, FoundProps DEF ReadDefinition
    <2>2. table[Found].relocs \in Seq(Relocs) /\ table \in Seq(Entries)
      BY <2>1, TableProps DEF LinkInv, Typed
    <2>3. Bound([table EXCEPT ![Found] = Definition(table[Found].relocs)], Found)
      BY <2>1, <2>2, <1>1, <1>6, <1>8, FoundIsBound
    <2>4. Bind([table EXCEPT ![Found] = Definition(table[Found].relocs)], Found)
      BY <2>1, <2>2, <1>8 DEF ReadDefinition
    <2> QED BY <2>3, <2>4, <1>1, BindKeeps
  <1> QED BY <1>7, <1>8


-----------------------------------------------------------------------------
(* The next row of relocations, and the entry of its symbol. *)
LEMMA RowProps ==
  ASSUME LinkInv, phase = "relas", k <= Len(File.relas)
  PROVE  LET r == files[f].relas[k]
             z == local[r.sym]
         IN  /\ f \in Usable /\ k \in 1..Len(files[f].relas) /\ RelaOK(files[f], r)
             /\ r \in Relas(f) /\ z \in 1..Len(table) /\ StandsFor(table[z], f, r.sym)
             /\ Relocation(r) = Stored(f, r) /\ Stored(f, r) \in Relocs
             /\ Stored(f, r).off < size[r.sect]
             /\ base[r.sect] \in Nat /\ Stored(f, r).off = base[r.sect] + r.off
  <1> DEFINE r == files[f].relas[k]
             z == local[r.sym]
  <1>1. /\ files \in Inputs /\ ret = "SUCCESS" /\ f \in Usable /\ k \in Nat \ {0} /\ Reading
        /\ size \in [Sections -> Nat] /\ base \in [Sections -> Nat]
    BY DEF LinkInv, Typed, Advanced, Reading
  <1>2. f \in 1..Len(files) /\ Len(files) \in Nat /\ WellFormed(files[f])
    BY <1>1, FilesProps
  <1>3. files[f].relas \in Seq(Relas(f)) /\ Len(files[f].relas) \in Nat
    BY <1>2 DEF WellFormed, Relas
  <1>4. k \in 1..Len(files[f].relas) /\ RelaOK(files[f], r)
    BY <1>1, <1>2, <1>3 DEF WellFormed, File
  <1>5. r \in Relas(f)
    BY <1>3, <1>4
  <1> HIDE DEF r
  <1>6. /\ r \in [sect : {"text", "data"}, off : Nat, sym : 1..Len(files[f].syms), type : RelocTypes,
                  addend : Int]
        /\ r.off < files[f].size[r.sect] /\ files[f].syms[r.sym].sect # "file"
    BY <1>4 DEF RelaOK
  <1>7. /\ r.sect \in {"text", "data"} /\ r.sect \in Sections /\ r.off \in Nat
        /\ r.sym \in 1..Len(files[f].syms) /\ r.type \in RelocTypes /\ r.addend \in Int
    BY <1>6 DEF Sections
  <1>8. z \in 1..Len(table) /\ StandsFor(table[z], f, r.sym)
    <2>1. LocalRight
      BY <1>1 DEF LinkInv
    <2>2. Read(f, r.sym)
      BY DEF Read
    <2> QED BY <2>1, <2>2, <1>1, <1>6, <1>7 DEF LocalRight, File
  <1>9. /\ base[r.sect] = Before(f, r.sect) /\ size[r.sect] = Before(f + 1, r.sect)
        /\ base[r.sect] \in Nat /\ size[r.sect] \in Nat
    BY <1>1, <1>7 DEF LinkInv, Sized
  <1>10. /\ Before(f + 1, r.sect) = Before(f, r.sect) + files[f].size[r.sect]
         /\ files[f].size[r.sect] \in Nat
    BY <1>1, <1>2, <1>7, BeforeProps
  <1>11. Relocation(r) = Stored(f, r)
    BY <1>9 DEF Relocation, Stored
  <1>12. Stored(f, r).off = base[r.sect] + r.off
    BY <1>9 DEF Stored
  <1>13. base[r.sect] + r.off \in Nat /\ base[r.sect] + r.off < size[r.sect]
    BY <1>6, <1>7, <1>9, <1>10
  <1>14. Stored(f, r) \in Relocs
    BY <1>7, <1>9, <1>13 DEF Stored, Relocs
  <1> QED BY <1>1, <1>4, <1>5, <1>8, <1>9, <1>11, <1>12, <1>13, <1>14 DEF r

(* A relocation is added to an entry, and nothing else of it changes. *)
LEMMA AttachProps ==
  ASSUME NEW e \in Entries, NEW q \in Relocs
  PROVE  /\ Attach(e, q) \in Entries /\ ToSet(Attach(e, q).relocs) = ToSet(e.relocs) \cup {q}
         /\ Attach(e, q).defined = e.defined /\ Attach(e, q).name = e.name
         /\ Attach(e, q).bind = e.bind /\ Attach(e, q).sect = e.sect /\ Attach(e, q).off = e.off
         /\ \A d : Is(Attach(e, q), d) <=> Is(e, d)
         /\ \A g, x : StandsFor(Attach(e, q), g, x) <=> StandsFor(e, g, x)
  <1>1. e.relocs \in Seq(Relocs)
    BY DEF Entries
  <1>2. Append(e.relocs, q) \in Seq(Relocs) /\ ToSet(Append(e.relocs, q)) = ToSet(e.relocs) \cup {q}
    BY <1>1, AppendedProps
  <1>3. /\ Attach(e, q).relocs = Append(e.relocs, q)
        /\ Attach(e, q).defined = e.defined /\ Attach(e, q).name = e.name
        /\ Attach(e, q).bind = e.bind /\ Attach(e, q).sect = e.sect /\ Attach(e, q).off = e.off
    BY DEF Attach, Entries
  <1>4. Attach(e, q) \in Entries
    BY <1>2 DEF Attach, Entries
  <1>5. \A d : Is(Attach(e, q), d) <=> Is(e, d)
    BY <1>3 DEF Is
  <1>6. \A g, x : StandsFor(Attach(e, q), g, x) <=> StandsFor(e, g, x)
    BY <1>3, <1>5 DEF StandsFor
  <1> QED BY <1>2, <1>3, <1>4, <1>5, <1>6


LEMMA ReadRelaKeeps ==
  ASSUME LinkInv, ReadRela
  PROVE  LinkInv'
  <1> DEFINE r == files[f].relas[k]
             z == local[r.sym]
             q == Stored(f, r)
             t == [table EXCEPT ![z] = Attach(table[z], q)]
  <1>1. phase = "relas" /\ k <= Len(File.relas)
    BY DEF ReadRela
  <1>2. /\ f \in Usable /\ k \in 1..Len(files[f].relas) /\ RelaOK(files[f], r)
        /\ r \in Relas(f) /\ z \in 1..Len(table) /\ StandsFor(table[z], f, r.sym)
        /\ Relocation(r) = q /\ q \in Relocs /\ q.off < size[r.sect]
        /\ base[r.sect] \in Nat /\ q.off = base[r.sect] + r.off
    BY <1>1, RowProps
  <1>3. /\ table' = t /\ k' = k + 1 /\ UNCHANGED <<files, f, phase, ret, size, base, local>>
        /\ UNCHANGED <<symtab, entry, lastLocal, nextString>>
    BY <1>2 DEF ReadRela, File, writing
  <1>4. /\ files \in Inputs /\ ret = "SUCCESS" /\ Reading /\ k \in Nat \ {0}
        /\ table \in Seq(Entries) /\ Len(table) \in Nat
        /\ \A y \in 1..Len(table) : table[y] \in Entries
    BY <1>1, TableProps DEF LinkInv, Typed, Advanced, Reading
  <1>5. q.sect = r.sect /\ r.sect \in {"text", "data"} /\ r.off \in Nat
    BY <1>2 DEF Stored, RelaOK
  <1> HIDE DEF r, z, q
  <1>6. t \in Seq(Entries) /\ Len(t) = Len(table) /\ t[z] = Attach(table[z], q)
        /\ \A y \in 1..Len(table) : y # z => t[y] = table[y]
    <2>1. Attach(table[z], q) \in Entries
      BY <1>2, <1>4, AttachProps
    <2> QED BY <2>1, <1>2, <1>4
  <1> HIDE DEF t
  <1>7. ASSUME NEW y \in 1..Len(table)
        PROVE  /\ t[y].name = table[y].name /\ t[y].bind = table[y].bind /\ t[y].sect = table[y].sect
               /\ t[y].off = table[y].off /\ t[y].defined = table[y].defined
               /\ ToSet(t[y].relocs) = ToSet(table[y].relocs) \cup (IF y = z THEN {q} ELSE {})
               /\ \A d : Is(t[y], d) <=> Is(table[y], d)
               /\ \A g, x : StandsFor(t[y], g, x) <=> StandsFor(table[y], g, x)
               /\ y # z => t[y] = table[y]
    <2>1. CASE y = z
      <3>1. /\ t[z].name = table[z].name /\ t[z].bind = table[z].bind /\ t[z].sect = table[z].sect
            /\ t[z].off = table[z].off /\ t[z].defined = table[z].defined
            /\ ToSet(t[z].relocs) = ToSet(table[z].relocs) \cup {q}
            /\ \A d : Is(t[z], d) <=> Is(table[z], d)
            /\ \A g, x : StandsFor(t[z], g, x) <=> StandsFor(table[z], g, x)
        <4>1. table[z] \in Entries /\ t[z] = Attach(table[z], q)
          BY <1>2, <1>4, <1>6
        <4> QED BY <4>1, <1>2, AttachProps
      <3> QED BY <2>1, <3>1
    <2>2. CASE y # z
      <3>1. t[y] = table[y] /\ (IF y = z THEN {q} ELSE {}) = {}
        BY <2>2, <1>6
      <3> QED BY <2>2, <3>1
    <2> QED BY <2>1, <2>2
  <1>8. ASSUME NEW y \in 1..Len(table), NEW p \in ToSet(t[y].relocs)
        PROVE  p \in ToSet(table[y].relocs) \/ (y = z /\ p = q)
    BY <1>7
  <1>9. File' = File /\ Usable' = Usable /\ (Reading' <=> Reading) /\ ~Writing'
    BY <1>1, <1>3 DEF File, Usable, Reading, Writing
  <1>10. Typed'
    BY <1>3, <1>4, <1>6 DEF LinkInv, Typed
  <1>11. Advanced'
    BY <1>1, <1>3, <1>9 DEF LinkInv, Advanced
  <1>12. Sized'
    <2>1. \A g, s : Before(g, s)' = Before(g, s)
      BY <1>3, FilesFixed
    <2> QED BY <2>1, <1>3, <1>4, <1>9 DEF LinkInv, Sized
  <1>13. /\ Definitions' = Definitions /\ \A d : SymAt(d)' = SymAt(d)
         /\ \A e, d : Is(e, d)' = Is(e, d)
         /\ \A e, g, y : StandsFor(e, g, y)' = StandsFor(e, g, y)
         /\ \A g, p : Stored(g, p)' = Stored(g, p)
         /\ \A g : Relas(g)' = Relas(g)
    BY <1>3, FilesFixed
  <1>14. \A g, x : Read(g, x)' <=> Read(g, x)
    BY <1>1, <1>3 DEF Read
  <1>15. \A g : \A y \in Nat : ReadRow(g, y)' <=> ReadRow(g, y) \/ (g = f /\ y = k)
    BY <1>1, <1>3, <1>4 DEF ReadRow
  <1>16. TableRight /\ NamesOnce /\ LocalRight /\ RowsRight /\ PlacesOnce /\ PlacesBehind /\ Inside
    BY <1>4 DEF LinkInv
  <1>17. TableRight'
    <2>1. ReadDefs' = ReadDefs
      BY <1>13, <1>14 DEF ReadDefs
    <2>2. DefinedEntries' = DefinedEntries
      BY <1>3, <1>6, <1>7 DEF DefinedEntries
    <2>3. Counted'
      BY <2>1, <2>2, <1>16 DEF TableRight, Counted
    <2> QED BY <2>3, <1>3, <1>6, <1>7, <1>13, <1>14, <1>16 DEF TableRight
  <1>18. NamesOnce'
    BY <1>3, <1>6, <1>7, <1>13, <1>14, <1>16 DEF NamesOnce
  <1>19. LocalRight'
    BY <1>3, <1>6, <1>7, <1>9, <1>13, <1>14, <1>16 DEF LocalRight
  <1>20. RowsRight'
    <2>1. ASSUME NEW g \in Usable, NEW y \in 1..Len(files[g].relas), ReadRow(g, y)'
          PROVE  \E x \in 1..Len(t) : /\ StandsFor(t[x], g, files[g].relas[y].sym)
                                      /\ Stored(g, files[g].relas[y]) \in ToSet(t[x].relocs)
      <3>1. CASE ReadRow(g, y)
        <4>1. PICK x \in 1..Len(table) : /\ StandsFor(table[x], g, files[g].relas[y].sym)
                                         /\ Stored(g, files[g].relas[y]) \in ToSet(table[x].relocs)
          BY <2>1, <3>1, <1>16 DEF RowsRight
        <4>2. x \in 1..Len(t) /\ ToSet(table[x].relocs) \subseteq ToSet(t[x].relocs)
          BY <1>6, <1>7
        <4> QED BY <4>1, <4>2, <1>7
      <3>2. CASE g = f /\ y = k
        <4>1. files[g].relas[y] = r /\ Stored(g, r) = q
          BY <3>2 DEF r, q
        <4>2. q \in ToSet(t[z].relocs) /\ StandsFor(t[z], f, r.sym) /\ z \in 1..Len(t)
          BY <1>2, <1>6, <1>7
        <4> QED BY <4>1, <4>2, <3>2
      <3>3. y \in Nat
        OBVIOUS
      <3> QED BY <2>1, <3>1, <3>2, <3>3, <1>15
    <2>2. ASSUME NEW y \in 1..Len(t), t[y].relocs # <<>>
          PROVE  \E g \in Usable : \E p \in Relas(g) :
                   t[y].name = files[g].syms[p.sym].name /\ t[y].bind = files[g].syms[p.sym].bind
      <3>1. CASE y = z
        <4>1. t[z].name = files[f].syms[r.sym].name /\ t[z].bind = files[f].syms[r.sym].bind
          BY <1>2, <1>7 DEF StandsFor
        <4> QED BY <3>1, <4>1, <1>2
      <3>2. CASE y # z
        <4>1. t[y] = table[y] /\ y \in 1..Len(table)
          BY <3>2, <1>6, <1>7
        <4> QED BY <4>1, <2>2, <1>16 DEF RowsRight
      <3> QED BY <3>1, <3>2
    <2> QED BY <2>1, <2>2, <1>3, <1>9, <1>13 DEF RowsRight
  <1>21. ASSUME NEW y \in 1..Len(table), NEW p \in ToSet(table[y].relocs), p.sect = q.sect, p.off = q.off
         PROVE  FALSE
    <2>1. p.off \in Nat
      BY TableProps DEF LinkInv
    <2>2. CASE p.off < base[p.sect]
      BY <2>1, <2>2, <1>2, <1>5, <1>21
    <2>3. CASE \E x \in 1..Len(File.relas) : x < k /\ p = Stored(f, File.relas[x])
      <3>1. PICK x \in 1..Len(files[f].relas) : x < k /\ p = Stored(f, files[f].relas[x])
        BY <2>3 DEF File
      <3> DEFINE o == files[f].relas[x]
      <3>2. WellFormed(files[f]) /\ RelaOK(files[f], o)
        BY <3>1, <1>2, <1>4, FilesProps DEF WellFormed
      <3>3. o.sect \in {"text", "data"} /\ o.off \in Nat
        BY <3>2 DEF RelaOK
      <3>4. p.sect = o.sect /\ p.off = Before(f, o.sect) + o.off
        BY <3>1 DEF Stored
      <3>5. q.off = Before(f, r.sect) + r.off
        BY DEF q, Stored
      <3>6. o.sect = r.sect /\ Before(f, r.sect) + o.off = Before(f, r.sect) + r.off
        BY <3>4, <3>5, <1>5, <1>21
      <3>7. Before(f, r.sect) = base[r.sect]
        BY <1>4, <1>5 DEF LinkInv, Sized, Sections
      <3>8. o.off = r.off
        BY <3>3, <3>6, <3>7, <1>2, <1>5
      <3>9. x = k
        BY <3>1, <3>2, <3>6, <3>8, <1>2 DEF WellFormed, r
      <3> QED BY <3>1, <3>9, <1>4
    <2> QED BY <2>2, <2>3, <1>4, <1>16 DEF PlacesBehind
  <1>22. PlacesOnce'
    <2>1. ASSUME NEW x \in 1..Len(table), NEW y \in 1..Len(table), NEW p \in ToSet(t[x].relocs),
                 NEW o \in ToSet(t[y].relocs), p.sect = o.sect, p.off = o.off
          PROVE  x = y /\ p = o
      <3>1. p \in ToSet(table[x].relocs) \/ (x = z /\ p = q)
        BY <1>8
      <3>2. o \in ToSet(table[y].relocs) \/ (y = z /\ o = q)
        BY <1>8
      <3>3. CASE p \in ToSet(table[x].relocs) /\ o \in ToSet(table[y].relocs)
        BY <2>1, <3>3, <1>16 DEF PlacesOnce
      <3> QED BY <2>1, <3>1, <3>2, <3>3, <1>21
    <2> QED BY <2>1, <1>3, <1>6 DEF PlacesOnce
  <1>23. PlacesBehind'
    <2>1. ASSUME NEW x \in 1..Len(table), NEW p \in ToSet(t[x].relocs)
          PROVE  p.off < base[p.sect] \/ \E y \in 1..Len(File.relas) :
                                           y < k + 1 /\ p = Stored(f, File.relas[y])
      <3>1. CASE p = q
        <4>1. k < k + 1 /\ k \in 1..Len(File.relas) /\ q = Stored(f, File.relas[k])
          BY <1>2, <1>4 DEF File, q, r
        <4> QED BY <3>1, <4>1
      <3>2. CASE p \in ToSet(table[x].relocs)
        <4>1. \A y \in 1..Len(File.relas) : y < k => y < k + 1
          BY <1>4
        <4> QED BY <3>2, <4>1, <1>4, <1>16 DEF PlacesBehind
      <3> QED BY <3>1, <3>2, <1>8
    <2> QED BY <2>1, <1>1, <1>3, <1>6, <1>9, <1>13 DEF PlacesBehind
  <1>24. Inside'
    <2>1. ASSUME NEW y \in 1..Len(table), NEW p \in ToSet(t[y].relocs) PROVE p.off < size[p.sect]
      BY <1>2, <1>5, <1>8, <1>16 DEF Inside
    <2> QED BY <2>1, <1>3, <1>6, <1>7, <1>16 DEF Inside
  <1>25. OutcomeRight' /\ \A s \in Sections : base'[s] <= size'[s]
    BY <1>1, <1>3 DEF LinkInv, OutcomeRight
  <1> QED BY <1>9, <1>10, <1>11, <1>12, <1>17, <1>18, <1>19, <1>20, <1>22, <1>23, <1>24, <1>25 DEF LinkInv


-----------------------------------------------------------------------------
(* Behind the last file everything was read. *)
LEMMA AllRead ==
  ASSUME files \in Inputs, f = Len(files) + 1
  PROVE  /\ \A g \in Usable : \A x : Read(g, x) /\ ReadRow(g, x)
         /\ \A d \in Definitions : Read(d[1], d[2])
  <1>1. \A g \in Usable : g < f
    BY FilesProps
  <1>2. \A g \in Usable : \A x : Read(g, x) /\ ReadRow(g, x)
    BY <1>1 DEF Read, ReadRow
  <1> QED BY <1>2, DefinitionsProps

(* What was read of the files stays while the executable is written. *)
LEMMA TableKept ==
  ASSUME LinkInv, ret = "SUCCESS", f = Len(files) + 1, UNCHANGED <<files, f, size, base, table>>,
         phase' \in {"emit", "strings", "done"}
  PROVE  (Inside /\ Sized /\ TableRight /\ NamesOnce /\ LocalRight /\ RowsRight /\ PlacesOnce /\ PlacesBehind)'
  <1>1. files \in Inputs /\ \A g \in Usable : g < f
    BY FilesProps DEF LinkInv, Typed
  <1>2. /\ \A g \in Usable : \A x : Read(g, x) /\ ReadRow(g, x)
        /\ \A d \in Definitions : Read(d[1], d[2]) /\ d[1] \in Usable
    BY <1>1, AllRead, DefinitionsProps
  <1>3. \A g \in Usable : \A x : Read(g, x)' /\ ReadRow(g, x)'
    BY <1>1 DEF Read, ReadRow
  <1>4. \A d \in Definitions : Read(d[1], d[2])'
    BY <1>2, <1>3
  <1>5. (TableRight /\ NamesOnce /\ RowsRight /\ PlacesOnce)'
    BY <1>2, <1>3, <1>4, SameTable
  <1>6. ~Reading' /\ phase' # "open"
    BY DEF Reading
  <1>7. (Inside /\ Sized /\ LocalRight /\ PlacesBehind)'
    BY <1>6 DEF LinkInv, Inside, Sized, LocalRight, PlacesBehind
  <1> QED BY <1>5, <1>7

(* The layout begins where the last file was read. *)
LEMMA WriteContentsKeeps ==
  ASSUME LinkInv, WriteContents
  PROVE  LinkInv'
  <1>1. /\ phase = "open" /\ f > Len(files) /\ phase' = "emit" /\ k' = 1
        /\ UNCHANGED <<files, f, ret, size, base, table, local>>
        /\ UNCHANGED <<image, symtab, entry, lastLocal, nextString>>
    BY DEF WriteContents, reading, writing
  <1>2. /\ files \in Inputs /\ f \in 1..Len(files) + 1 /\ ret = "SUCCESS" /\ lastLocal = 0
        /\ Len(table) \in Nat
    BY <1>1, TableProps DEF LinkInv, Typed, Advanced
  <1>3. f = Len(files) + 1
    <2>1. Len(files) \in Nat
      BY <1>2, FilesProps
    <2> QED BY <2>1, <1>1, <1>2
  <1>4. (Inside /\ Sized /\ TableRight /\ NamesOnce /\ LocalRight /\ RowsRight /\ PlacesOnce /\ PlacesBehind)'
    BY <1>1, <1>2, <1>3, TableKept
  <1>5. Typed'
    BY <1>1 DEF LinkInv, Typed
  <1>6. Advanced'
    BY <1>1, <1>2, <1>3 DEF LinkInv, Advanced, Reading, Writing
  <1>7. Emitted'
    <2>1. \A x \in 1..Len(table) : ~(x < 1)
      BY <1>2
    <2> QED BY <2>1, <1>1, <1>2 DEF Emitted
  <1>8. OutcomeRight' /\ \A s \in Sections : base'[s] <= size'[s]
    BY <1>1 DEF LinkInv, OutcomeRight
  <1> QED BY <1>4, <1>5, <1>6, <1>7, <1>8 DEF LinkInv

(* The layout is a function of the sizes of the sections. *)
LEMMA LayoutFixed ==
  ASSUME size' = size
  PROVE  /\ Offset' = Offset /\ Address' = Address
         /\ \A e, q : FinalValue(e, q)' = FinalValue(e, q)
  <1>1. Offset' = Offset
    BY DEF Offset
  <1>2. BssAddress' = BssAddress /\ TextAddress' = TextAddress
    BY <1>1 DEF BssAddress, TextAddress
  <1>3. Address' = Address
    BY <1>1, <1>2 DEF Address
  <1> QED BY <1>1, <1>3 DEF FinalValue

(* What holds when the loop over the symbols looks at one. *)
LEMMA EmittingProps ==
  ASSUME LinkInv, phase \in {"emit", "strings"}
  PROVE  /\ ret = "SUCCESS" /\ Writing /\ Emitted /\ f = Len(files) + 1 /\ files \in Inputs
         /\ k \in Nat \ {0} /\ Len(table) \in Nat /\ table \in Seq(Entries)
         /\ TableRight /\ NamesOnce /\ RowsRight /\ PlacesOnce
         /\ \A d \in Definitions : Read(d[1], d[2])
         /\ \A g \in Usable : \A y : ReadRow(g, y)
  <1>1. ret = "SUCCESS" /\ Writing /\ f = Len(files) + 1
    BY DEF LinkInv, Advanced, Writing
  <1>2. files \in Inputs /\ k \in Nat \ {0} /\ table \in Seq(Entries) /\ Len(table) \in Nat
    BY TableProps DEF LinkInv, Typed
  <1> QED BY <1>1, <1>2, AllRead DEF LinkInv

LEMMA IgnoreSymbolKeeps ==
  ASSUME LinkInv, IgnoreSymbol
  PROVE  LinkInv'
  <1>1. /\ phase = "emit" /\ k <= Len(table) /\ ~table[k].defined /\ table[k].relocs = <<>> /\ k' = k + 1
        /\ UNCHANGED <<files, f, phase, ret, size, base, table, local>>
        /\ UNCHANGED <<image, symtab, entry, lastLocal, nextString>>
    BY DEF IgnoreSymbol, Emitting, reading, writing
  <1>2. ret = "SUCCESS" /\ Emitted /\ f = Len(files) + 1 /\ k \in Nat \ {0} /\ Len(table) \in Nat
    BY <1>1, EmittingProps
  <1>3. (Inside /\ Sized /\ TableRight /\ NamesOnce /\ LocalRight /\ RowsRight /\ PlacesOnce /\ PlacesBehind)'
    BY <1>1, <1>2, TableKept
  <1>4. Typed'
    BY <1>1, <1>2 DEF LinkInv, Typed
  <1>5. Advanced'
    BY <1>1, <1>2 DEF LinkInv, Advanced, Reading, Writing
  <1>6. Emitted'
    <2>1. \A x \in 1..Len(table) : x < k + 1 <=> x < k \/ x = k
      BY <1>2
    <2>2. \A q : q \notin ToSet(table[k].relocs)
      BY <1>1 DEF ToSet
    <2>3. Offset' = Offset /\ \A e, q : FinalValue(e, q)' = FinalValue(e, q)
      BY <1>1, LayoutFixed
    <2> QED BY <2>1, <2>2, <2>3, <1>1, <1>2 DEF Emitted
  <1>7. OutcomeRight' /\ \A s \in Sections : base'[s] <= size'[s]
    BY <1>1 DEF LinkInv, OutcomeRight
  <1> QED BY <1>3, <1>4, <1>5, <1>6, <1>7 DEF LinkInv

(* A symbol that is used and was not defined has no definition in a file. *)
LEMMA UndefinedSymbolKeeps ==
  ASSUME LinkInv, UndefinedSymbol
  PROVE  LinkInv'
  <1>1. /\ phase = "emit" /\ k <= Len(table) /\ ~table[k].defined /\ table[k].relocs # <<>>
        /\ Fail("LINKER_ERROR")
    BY DEF UndefinedSymbol, Emitting
  <1>2. /\ k \in Nat \ {0} /\ Len(table) \in Nat /\ table \in Seq(Entries)
        /\ TableRight /\ NamesOnce /\ RowsRight /\ \A d \in Definitions : Read(d[1], d[2])
    BY <1>1, EmittingProps
  <1>3. k \in 1..Len(table)
    BY <1>1, <1>2
  <1>4. table[k].bind = "global"
    <2>1. table[k] \in Entries
      BY <1>2, <1>3
    <2>2. table[k].bind \in {"global", "local"}
      BY <2>1 DEF Entries
    <2> QED BY <2>2, <1>1, <1>2, <1>3 DEF TableRight
  <1>5. PICK g \in Usable : \E r \in Relas(g) :
          table[k].name = files[g].syms[r.sym].name /\ table[k].bind = files[g].syms[r.sym].bind
    BY <1>1, <1>2, <1>3 DEF RowsRight
  <1>6. PICK r \in Relas(g) :
          table[k].name = files[g].syms[r.sym].name /\ table[k].bind = files[g].syms[r.sym].bind
    BY <1>5
  <1>7. Globals(table[k].name) = {}
    <2> SUFFICES ASSUME NEW d \in Globals(table[k].name) PROVE FALSE
      OBVIOUS
    <2>1. d \in Definitions /\ SymAt(d).bind = "global" /\ SymAt(d).name = table[k].name
      BY DEF Globals
    <2>2. PICK y \in 1..Len(table) : Is(table[y], d)
      BY <2>1, <1>2 DEF TableRight
    <2>3. y = k
      BY <2>1, <2>2, <1>2, <1>3, <1>4 DEF NamesOnce, Is
    <2> QED BY <2>2, <2>3, <1>1 DEF Is
  <1>8. ~Resolvable
    BY <1>4, <1>6, <1>7 DEF Resolvable
  <1>9. ~Linkable
    BY <1>8 DEF Linkable
  <1> QED BY <1>1, <1>9, FailKeeps


(* Where the sections go, for any sizes. *)
LEMMA LayoutProps ==
  ASSUME size \in [Sections -> Nat]
  PROVE  /\ Offset.text = FirstOffset /\ Offset.bss = FirstOffset + size["text"]
         /\ Offset.data = FirstOffset + size["text"] /\ FirstOffset \in Nat
         /\ \A s \in Sections : Offset[s] \in Nat /\ Address[s] \in Nat
         /\ Address.text = 8 * Region + FirstOffset
         /\ Address.bss = 9 * Region + FirstOffset + size["text"]
         /\ \E m \in Nat : /\ Address.data = m * Region + FirstOffset + size["text"]
                           /\ m >= 10 /\ Address.bss <= m * Region
  <1>1. size["text"] \in Nat
    BY DEF Sections
  <1>2. FirstOffset = 808 /\ Region = 16777216
    BY DEF FirstOffset, Region
  <1>3. /\ Offset.text = 808 /\ Offset.bss = 808 + size["text"] /\ Offset.data = 808 + size["text"]
    BY <1>2 DEF Offset
  <1>4. TextAddress = 134218536
    BY <1>2, <1>3 DEF TextAddress
  <1>5. AlignTo(TextAddress, Region) = 150994944
    BY <1>2, <1>4 DEF AlignTo
  <1>6. BssAddress = 150995752 + size["text"]
    BY <1>1, <1>3, <1>5 DEF BssAddress
  <1> DEFINE n == BssAddress + Region - 1
             m == n \div Region
  <1>7. n \in Nat /\ n >= 150995752 + 16777215
    BY <1>1, <1>2, <1>6
  <1>8. m \in Nat /\ m >= 10 /\ m * 16777216 <= n /\ n < m * 16777216 + 16777216
    <2> HIDE DEF n
    <2> QED BY <1>2, <1>7
  <1>9. Address.data = m * Region + FirstOffset + size["text"]
    <2>1. AlignTo(BssAddress, Region) = m * Region
      BY DEF AlignTo
    <2> HIDE DEF m
    <2> QED BY <2>1, <1>1, <1>2, <1>3, <1>8 DEF Address
  <1>10. BssAddress <= m * Region
    <2>1. n = BssAddress + 16777215
      BY <1>1, <1>2, <1>6
    <2> HIDE DEF m, n
    <2> QED BY <2>1, <1>1, <1>2, <1>6, <1>7, <1>8
  <1>11. /\ Address.text = 8 * Region + FirstOffset /\ Address.bss = 9 * Region + FirstOffset + size["text"]
         /\ Address.bss = BssAddress
    BY <1>1, <1>2, <1>4, <1>6 DEF Address
  <1> HIDE DEF m, n
  <1>12. Address.data \in Nat
    BY <1>1, <1>2, <1>8, <1>9
  <1>13. \A s \in Sections : Offset[s] \in Nat /\ Address[s] \in Nat
    BY <1>1, <1>2, <1>3, <1>11, <1>12 DEF Sections
  <1> QED BY <1>2, <1>3, <1>8, <1>9, <1>10, <1>11, <1>13


(* Relocations of different places write to different parts of the file. *)
LEMMA OffsetsDiffer ==
  ASSUME LinkInv, NEW x \in 1..Len(table), NEW y \in 1..Len(table),
         NEW p \in ToSet(table[x].relocs), NEW q \in ToSet(table[y].relocs),
         Offset[p.sect] + p.off = Offset[q.sect] + q.off
  PROVE  p.sect = q.sect /\ p.off = q.off
  <1>1. /\ p.sect \in {"text", "data"} /\ p.off \in Nat /\ p.off < size[p.sect]
        /\ q.sect \in {"text", "data"} /\ q.off \in Nat /\ q.off < size[q.sect]
    BY TableProps DEF LinkInv, Inside
  <1>2. /\ Offset["text"] = FirstOffset /\ Offset["data"] = FirstOffset + size["text"]
        /\ FirstOffset \in Nat /\ size["text"] \in Nat
    BY LayoutProps DEF LinkInv, Typed, Sections
  <1>3. CASE p.sect = "text" /\ q.sect = "text"
    BY <1>1, <1>2, <1>3
  <1>4. CASE p.sect = "data" /\ q.sect = "data"
    BY <1>1, <1>2, <1>4
  <1>5. CASE p.sect = "text" /\ q.sect = "data"
    BY <1>1, <1>2, <1>5
  <1>6. CASE p.sect = "data" /\ q.sect = "text"
    BY <1>1, <1>2, <1>6
  <1> QED BY <1>1, <1>3, <1>4, <1>5, <1>6

(* The relocations of one entry are all patched. *)
LEMMA PatchProps ==
  ASSUME LinkInv, ret = "SUCCESS", NEW x \in 1..Len(table)
  PROVE  /\ \A q \in ToSet(table[x].relocs) :
              /\ Offset[q.sect] + q.off \in DOMAIN Patch(table[x])
              /\ Patch(table[x])[Offset[q.sect] + q.off] = FinalValue(table[x], q)
         /\ \A y \in 1..Len(table) : \A q \in ToSet(table[y].relocs) :
              Offset[q.sect] + q.off \in DOMAIN Patch(table[x]) => y = x
  <1> DEFINE R == ToSet(table[x].relocs)
             at(q) == Offset[q.sect] + q.off
  <1>1. PlacesOnce
    BY DEF LinkInv
  <1>2. Patch(table[x]) = [a \in {at(q) : q \in R} |->
                             FinalValue(table[x], CHOOSE q \in R : at(q) = a)]
    BY DEF Patch
  <1>3. ASSUME NEW q \in R PROVE (CHOOSE p \in R : at(p) = at(q)) = q
    <2> DEFINE c == CHOOSE p \in R : at(p) = at(q)
    <2>1. c \in R /\ at(c) = at(q)
      BY <1>3
    <2> HIDE DEF c
    <2>2. c.sect = q.sect /\ c.off = q.off
      BY <2>1, OffsetsDiffer
    <2>3. c = q
      BY <2>1, <2>2, <1>1 DEF PlacesOnce
    <2> QED BY <2>3 DEF c
  <1>4. ASSUME NEW q \in R
        PROVE  at(q) \in DOMAIN Patch(table[x]) /\ Patch(table[x])[at(q)] = FinalValue(table[x], q)
    <2> DEFINE D == {at(p) : p \in R}
               V(a) == FinalValue(table[x], CHOOSE p \in R : at(p) = a)
    <2>1. at(q) \in D
      OBVIOUS
    <2>2. V(at(q)) = FinalValue(table[x], q)
      BY <1>3
    <2>3. Patch(table[x]) = [a \in D |-> V(a)]
      BY <1>2
    <2> HIDE DEF D, V, at
    <2> QED BY <2>1, <2>2, <2>3
  <1>5. ASSUME NEW y \in 1..Len(table), NEW q \in ToSet(table[y].relocs), at(q) \in DOMAIN Patch(table[x])
        PROVE  y = x
    <2>1. PICK p \in R : at(p) = at(q)
      BY <1>2, <1>5
    <2>2. p.sect = q.sect /\ p.off = q.off
      BY <2>1, OffsetsDiffer
    <2> QED BY <2>1, <2>2, <1>1 DEF PlacesOnce
  <1> QED BY <1>4, <1>5

(* The symbol of an entry, and its relocations, once the loop reaches it. *)
LEMMA EmitSymbolKeeps ==
  ASSUME LinkInv, EmitSymbol
  PROVE  LinkInv'
  <1> DEFINE e == table[k]
             value == Address[e.sect] + e.off
  <1>1. /\ phase = "emit" /\ k <= Len(table) /\ e.defined /\ k' = k + 1
        /\ UNCHANGED <<files, f, phase, ret, size, base, table, local>>
        /\ image' = Over(image, Patch(e))
    BY DEF EmitSymbol, Emitting, reading
  <1>2. /\ entry' = IF e.name = Start THEN value ELSE entry
        /\ lastLocal' = IF e.bind = "local" THEN Len(symtab) + 1 ELSE lastLocal
        /\ symtab' = Append(symtab, [name |-> nextString, bind |-> e.bind,
                                     sect |-> e.sect, value |-> value])
        /\ nextString' = nextString + NameLen[e.name] + 1
    BY DEF EmitSymbol, AddSymbol
  <1>3. /\ ret = "SUCCESS" /\ Emitted /\ f = Len(files) + 1 /\ k \in Nat \ {0} /\ Len(table) \in Nat
        /\ table \in Seq(Entries)
    BY <1>1, EmittingProps
  <1>4. k \in 1..Len(table) /\ e \in Entries
    BY <1>1, <1>3
  <1> HIDE DEF e
  <1>5. /\ e.name \in DOMAIN NameLen /\ e.bind \in {"global", "local"} /\ e.off \in Nat
        /\ NameLen[e.name] \in Nat
    BY <1>4, LinkerAssumption DEF Entries
  <1>6. e.sect \in Sections
    BY <1>1, <1>4 DEF LinkInv, Inside, e
  <1>7. Address[e.sect] \in Nat /\ value \in Nat
    <2>1. size \in [Sections -> Nat]
      BY DEF LinkInv, Typed
    <2>2. Address[e.sect] \in Nat
      BY <2>1, <1>6, LayoutProps
    <2> QED BY <2>2, <1>5
  <1> HIDE DEF value
  <1>8. /\ symtab \in Seq([name : Nat, bind : {"global", "local"}, sect : Sections, value : Nat])
        /\ Len(symtab) \in Nat /\ entry \in Nat /\ lastLocal \in Nat /\ nextString \in Nat
    BY DEF LinkInv, Typed
  <1>9. Typed'
    <2>1. /\ entry' \in Nat /\ lastLocal' \in Nat /\ nextString' \in Nat
      BY <1>2, <1>5, <1>7, <1>8
    <2>2. [name |-> nextString, bind |-> e.bind, sect |-> e.sect, value |-> value]
            \in [name : Nat, bind : {"global", "local"}, sect : Sections, value : Nat]
      BY <1>5, <1>6, <1>7, <1>8
    <2>3. symtab' \in Seq([name : Nat, bind : {"global", "local"}, sect : Sections, value : Nat])
      BY <2>2, <1>2, <1>8
    <2> QED BY <2>1, <2>3, <1>1, <1>3 DEF LinkInv, Typed
  <1>10. (Inside /\ Sized /\ TableRight /\ NamesOnce /\ LocalRight /\ RowsRight /\ PlacesOnce /\ PlacesBehind)'
    BY <1>1, <1>3, TableKept
  <1>11. Advanced'
    BY <1>1, <1>3 DEF LinkInv, Advanced, Reading, Writing
  <1>12. \A x \in 1..Len(table) : x < k + 1 <=> x < k \/ x = k
    BY <1>3
  <1>13. Emitted'
    <2>1. Offset' = Offset /\ \A s, q : FinalValue(s, q)' = FinalValue(s, q)
      BY <1>1, LayoutFixed
    <2>2. ASSUME NEW x \in 1..Len(table), x < k + 1, NEW q \in ToSet(table[x].relocs)
          PROVE  /\ Offset[q.sect] + q.off \in DOMAIN image'
                 /\ image'[Offset[q.sect] + q.off] = FinalValue(table[x], q)
      <3> DEFINE at == Offset[q.sect] + q.off
      <3>1. at \in DOMAIN image \cup DOMAIN Patch(e) =>
              /\ at \in DOMAIN image'
              /\ image'[at] = IF at \in DOMAIN Patch(e) THEN Patch(e)[at] ELSE image[at]
        <4> HIDE DEF at
        <4> QED BY <1>1 DEF Over
      <3>2. CASE x = k
        <4>1. at \in DOMAIN Patch(e) /\ Patch(e)[at] = FinalValue(e, q) /\ table[x] = e
          BY <3>2, <1>3, <1>4, PatchProps DEF e
        <4> HIDE DEF at
        <4>2. at \in DOMAIN image' /\ image'[at] = FinalValue(table[x], q)
          BY <3>1, <4>1
        <4> QED BY <4>2 DEF at
      <3>3. CASE x # k /\ x < k
        <4>1. at \notin DOMAIN Patch(e)
          BY <3>3, <1>3, <1>4, PatchProps DEF e
        <4>2. at \in DOMAIN image /\ image[at] = FinalValue(table[x], q)
          BY <3>3, <1>3 DEF Emitted
        <4> HIDE DEF at
        <4>3. at \in DOMAIN image' /\ image'[at] = FinalValue(table[x], q)
          BY <3>1, <4>1, <4>2
        <4> QED BY <4>3 DEF at
      <3> QED BY <2>2, <3>2, <3>3, <1>12
    <2>3. \A x \in 1..Len(table) : x < k + 1 => table[x].defined \/ table[x].relocs = <<>>
      BY <1>1, <1>3, <1>12 DEF Emitted, e
    <2>4. lastLocal' # 0 <=> \E x \in 1..Len(table) : x < k + 1 /\ table[x].defined /\ table[x].bind = "local"
      <3>1. CASE e.bind = "local"
        <4>1. lastLocal' # 0
          BY <3>1, <1>2, <1>8
        <4>2. k < k + 1 /\ table[k].defined /\ table[k].bind = "local"
          BY <3>1, <1>1, <1>3 DEF e
        <4> QED BY <4>1, <4>2, <1>4
      <3>2. CASE e.bind # "local"
        <4>1. lastLocal' = lastLocal
          BY <3>2, <1>2
        <4>2. table[k].bind # "local"
          BY <3>2 DEF e
        <4> QED BY <4>1, <4>2, <1>3, <1>12 DEF Emitted
      <3> QED BY <3>1, <3>2
    <2> QED BY <2>1, <2>2, <2>3, <2>4, <1>1 DEF Emitted
  <1>14. OutcomeRight' /\ \A s \in Sections : base'[s] <= size'[s]
    BY <1>1 DEF LinkInv, OutcomeRight
  <1> QED BY <1>9, <1>10, <1>11, <1>13, <1>14 DEF LinkInv


LEMMA WriteStringsKeeps ==
  ASSUME LinkInv, WriteStrings
  PROVE  LinkInv'
  <1>1. /\ phase = "emit" /\ k > Len(table) /\ phase' = "strings"
        /\ UNCHANGED <<files, f, k, ret, size, base, table, local>>
        /\ UNCHANGED <<image, symtab, entry, lastLocal, nextString>>
    BY DEF WriteStrings, reading
  <1>2. ret = "SUCCESS" /\ Emitted /\ f = Len(files) + 1
    BY <1>1, EmittingProps
  <1>3. (Inside /\ Sized /\ TableRight /\ NamesOnce /\ LocalRight /\ RowsRight /\ PlacesOnce /\ PlacesBehind)'
    BY <1>1, <1>2, TableKept
  <1>4. Typed'
    BY <1>1 DEF LinkInv, Typed
  <1>5. Advanced'
    BY <1>1, <1>2 DEF LinkInv, Advanced, Reading, Writing
  <1>6. Emitted'
    <2>1. Offset' = Offset /\ \A e, q : FinalValue(e, q)' = FinalValue(e, q)
      BY <1>1, LayoutFixed
    <2> QED BY <2>1, <1>1, <1>2 DEF Emitted
  <1>7. OutcomeRight' /\ \A s \in Sections : base'[s] <= size'[s]
    BY <1>1 DEF LinkInv, OutcomeRight
  <1> QED BY <1>3, <1>4, <1>5, <1>6, <1>7 DEF LinkInv

(* Behind the loop over the symbols, the files can be linked, and the last *)
(* local symbol that finish_strtab_section expects is that of a static.    *)
LEMMA AllEmitted ==
  ASSUME LinkInv, phase = "strings"
  PROVE  Linkable /\ (lastLocal # 0 <=> DefinesStatic)
  <1>1. /\ ret = "SUCCESS" /\ Emitted /\ f = Len(files) + 1 /\ files \in Inputs
        /\ k \in Nat \ {0} /\ Len(table) \in Nat /\ table \in Seq(Entries)
        /\ TableRight /\ NamesOnce /\ RowsRight
        /\ \A d \in Definitions : Read(d[1], d[2])
        /\ \A g \in Usable : \A y : ReadRow(g, y)
    BY EmittingProps
  <1>2. \A x \in 1..Len(table) : x < k
    <2>1. k > Len(table)
      BY DEF LinkInv, Advanced
    <2> QED BY <2>1, <1>1
  <1>3. Readable
    <2>1. f - 1 = Len(files)
      BY <1>1, FilesProps
    <2>2. \A g \in 1..f - 1 : files[g].format \notin {"absent", "other_rela", "no_section"}
      BY DEF LinkInv, Advanced
    <2> QED BY <2>1, <2>2 DEF Readable
  <1>4. Unambiguous
    <2>1. ASSUME NEW d \in Definitions PROVE SymAt(d).bind \in {"global", "local"}
      <3>1. d[1] \in Usable /\ d[2] \in 1..Len(files[d[1]].syms) /\ SymAt(d).sect \in Sections
        BY DefinitionsProps
      <3>2. WellFormed(files[d[1]])
        BY <3>1, <1>1, FilesProps
      <3>3. SymbolOK(files[d[1]], SymAt(d))
        BY <3>1, <3>2 DEF WellFormed, SymAt
      <3> QED BY <3>1, <3>3 DEF SymbolOK, Sections
    <2>2. ASSUME NEW d \in Definitions, NEW e \in Definitions, d # e, SymAt(d).name = SymAt(e).name
          PROVE  "local" \in {SymAt(d).bind, SymAt(e).bind}
      <3>1. ~(SymAt(d).bind = "global" /\ SymAt(e).bind = "global")
        BY <2>2, <1>1 DEF NamesOnce
      <3> QED BY <3>1, <2>1
    <2> QED BY <2>2 DEF Unambiguous
  <1>5. Resolvable
    <2> SUFFICES ASSUME NEW g \in Usable, NEW r \in Relas(g), files[g].syms[r.sym].bind = "global"
                 PROVE  Globals(files[g].syms[r.sym].name) # {}
      BY DEF Resolvable
    <2>1. files[g].relas \in Seq(Relas(g))
      BY <1>1, FilesProps DEF WellFormed, Relas
    <2>2. PICK y \in 1..Len(files[g].relas) : files[g].relas[y] = r
      BY <2>1, SeqElements DEF Relas
    <2>3. PICK x \in 1..Len(table) : StandsFor(table[x], g, r.sym) /\ Stored(g, r) \in ToSet(table[x].relocs)
      BY <2>2, <1>1 DEF RowsRight
    <2>4. table[x].relocs # <<>>
      BY <2>3 DEF ToSet
    <2>5. table[x].defined
      BY <2>4, <1>1, <1>2 DEF Emitted
    <2>6. PICK d \in Definitions : Is(table[x], d)
      BY <2>5, <1>1 DEF TableRight
    <2>7. d \in Globals(files[g].syms[r.sym].name)
      BY <2>3, <2>6 DEF Globals, Is, StandsFor
    <2> QED BY <2>7
  <1>6. lastLocal # 0 <=> \E x \in 1..Len(table) : table[x].defined /\ table[x].bind = "local"
    BY <1>1, <1>2 DEF Emitted
  <1>7. (\E x \in 1..Len(table) : table[x].defined /\ table[x].bind = "local")
          <=> \E d \in Definitions : SymAt(d).bind = "local"
    <2>1. ASSUME NEW x \in 1..Len(table), table[x].defined, table[x].bind = "local"
          PROVE  \E d \in Definitions : SymAt(d).bind = "local"
      <3>1. PICK d \in Definitions : Is(table[x], d)
        BY <2>1, <1>1 DEF TableRight
      <3> QED BY <3>1, <2>1 DEF Is
    <2>2. ASSUME NEW d \in Definitions, SymAt(d).bind = "local"
          PROVE  \E x \in 1..Len(table) : table[x].defined /\ table[x].bind = "local"
      <3>1. PICK x \in 1..Len(table) : Is(table[x], d)
        BY <1>1 DEF TableRight
      <3> QED BY <3>1, <2>2 DEF Is
    <2> QED BY <2>1, <2>2
  <1> QED BY <1>3, <1>4, <1>5, <1>6, <1>7 DEF Linkable, DefinesStatic

LEMMA WriteHeadersKeeps ==
  ASSUME LinkInv, WriteHeaders
  PROVE  LinkInv'
  <1>1. /\ phase = "strings" /\ phase' = "done"
        /\ ret' = IF entry = -1 \/ lastLocal = 0 THEN "ASSERTION" ELSE "SUCCESS"
        /\ UNCHANGED <<files, f, k, size, base, table, local>>
        /\ UNCHANGED <<image, symtab, entry, lastLocal, nextString>>
    BY DEF WriteHeaders, reading, writing
  <1>2. ret = "SUCCESS" /\ Emitted /\ f = Len(files) + 1
    BY <1>1, EmittingProps
  <1>3. entry # -1
    BY DEF LinkInv, Typed
  <1>4. ret' = IF lastLocal = 0 THEN "ASSERTION" ELSE "SUCCESS"
    BY <1>1, <1>3
  <1>5. (Inside /\ Sized /\ TableRight /\ NamesOnce /\ LocalRight /\ RowsRight /\ PlacesOnce /\ PlacesBehind)'
    BY <1>1, <1>2, TableKept
  <1>6. Typed'
    BY <1>1, <1>4 DEF LinkInv, Typed
  <1>7. Advanced'
    <2>1. k > Len(table) /\ \A g \in 1..f - 1 : files[g].format \notin {"absent", "other_rela", "no_section"}
      BY <1>1 DEF LinkInv, Advanced
    <2>2. ret' = "SUCCESS" => lastLocal # 0
      BY <1>4
    <2> QED BY <2>1, <2>2, <1>1, <1>2 DEF Advanced, Reading, Writing
  <1>8. Emitted'
    <2>1. Offset' = Offset /\ \A e, q : FinalValue(e, q)' = FinalValue(e, q)
      BY <1>1, LayoutFixed
    <2> QED BY <2>1, <1>1, <1>2 DEF Emitted
  <1>9. OutcomeRight'
    <2>1. Linkable /\ (lastLocal # 0 <=> DefinesStatic)
      BY <1>1, AllEmitted
    <2>2. Linkable' = Linkable /\ DefinesStatic' = DefinesStatic
      BY <1>1, FilesFixed
    <2>3. (ret' = "SUCCESS" <=> lastLocal # 0) /\ (ret' = "ASSERTION" <=> lastLocal = 0)
      BY <1>4
    <2> QED BY <2>1, <2>2, <2>3 DEF OutcomeRight
  <1>10. \A s \in Sections : base'[s] <= size'[s]
    BY <1>1 DEF LinkInv
  <1> QED BY <1>5, <1>6, <1>7, <1>8, <1>9, <1>10 DEF LinkInv

(* The end, and a step that changes nothing. *)
LEMMA StutterKeeps ==
  ASSUME LinkInv, UNCHANGED vars
  PROVE  LinkInv'
  <1>1. /\ UNCHANGED <<files, f, k, phase, ret, size, base, table, local>>
        /\ UNCHANGED <<image, symtab, entry, lastLocal, nextString>>
    BY DEF vars, reading, writing
  <1>2. Typed'
    BY <1>1 DEF LinkInv, Typed
  <1>3. Reading' = Reading /\ Writing' = Writing /\ Usable' = Usable /\ File' = File
    BY <1>1 DEF Reading, Writing, Usable, File
  <1>4. Advanced'
    BY <1>1, <1>3 DEF LinkInv, Advanced
  <1>5. /\ Linkable' = Linkable /\ DefinesStatic' = DefinesStatic /\ \A g, s : Before(g, s)' = Before(g, s)
        /\ \A e, g, x : StandsFor(e, g, x)' = StandsFor(e, g, x)
        /\ \A g, r : Stored(g, r)' = Stored(g, r)
    BY <1>1, FilesFixed
  <1>6. (OutcomeRight /\ Inside)' /\ \A s \in Sections : base'[s] <= size'[s]
    BY <1>1, <1>5 DEF LinkInv, OutcomeRight, Inside
  <1>7. \A g, x : (Read(g, x)' <=> Read(g, x)) /\ (ReadRow(g, x)' <=> ReadRow(g, x))
    BY <1>1 DEF Read, ReadRow
  <1>8. ASSUME ret = "SUCCESS" PROVE (TableRight /\ NamesOnce /\ RowsRight /\ PlacesOnce)'
    BY <1>1, <1>7, <1>8, SameTable
  <1>9. ASSUME ret = "SUCCESS" PROVE (Sized /\ LocalRight /\ PlacesBehind)'
    <2>1. Sized /\ LocalRight /\ PlacesBehind
      BY <1>9 DEF LinkInv
    <2>2. Sized'
      BY <2>1, <1>1, <1>3, <1>5 DEF Sized
    <2>3. LocalRight'
      BY <2>1, <1>1, <1>3, <1>5, <1>7 DEF LocalRight
    <2>4. PlacesBehind'
      BY <2>1, <1>1, <1>3, <1>5 DEF PlacesBehind
    <2> QED BY <2>2, <2>3, <2>4
  <1>10. ASSUME ret = "SUCCESS", Writing PROVE Emitted'
    <2>1. Offset' = Offset /\ \A e, q : FinalValue(e, q)' = FinalValue(e, q)
      BY <1>1, LayoutFixed
    <2>2. Emitted
      BY <1>10 DEF LinkInv
    <2> QED BY <2>1, <2>2, <1>1 DEF Emitted
  <1> QED BY <1>1, <1>2, <1>3, <1>4, <1>6, <1>8, <1>9, <1>10 DEF LinkInv


-----------------------------------------------------------------------------
(***************************************************************************)
(* The invariant of link_elf_executable: the table holds the definitions   *)
(* read so far, once each, every relocation read so far is stored with the *)
(* entry of what it refers to, at a place of its own, and those of the     *)
(* symbols written so far are patched.                                     *)
(***************************************************************************)
THEOREM LinkIsSound == Spec => []LinkInv
  <1>1. Init => LinkInv
    BY InitLinkInv
  <1>2. LinkInv /\ [Next]_vars => LinkInv'
    <2> SUFFICES ASSUME LinkInv, [Next]_vars PROVE LinkInv'
      OBVIOUS
    <2>1. CASE OpenFails \/ Rejected
      BY <2>1, OpenFailsKeeps
    <2>2. CASE Unusable
      BY <2>2, UnusableKeeps
    <2>3. CASE ReadFile
      BY <2>3, ReadFileKeeps
    <2>4. CASE SkipFileSymbol
      BY <2>4, SkipFileSymbolKeeps
    <2>5. CASE ReadUndefined
      BY <2>5, ReadUndefinedKeeps
    <2>6. CASE ReadDefinition
      BY <2>6, ReadDefinitionKeeps
    <2>7. CASE MultipleDefinitions
      BY <2>7, MultipleDefinitionsKeeps
    <2>8. CASE EndOfSymtab
      BY <2>8, EndOfSymtabKeeps
    <2>9. CASE ReadRela
      BY <2>9, ReadRelaKeeps
    <2>10. CASE EndOfRelas
      BY <2>10, EndOfRelasKeeps
    <2>11. CASE WriteContents
      BY <2>11, WriteContentsKeeps
    <2>12. CASE IgnoreSymbol
      BY <2>12, IgnoreSymbolKeeps
    <2>13. CASE UndefinedSymbol
      BY <2>13, UndefinedSymbolKeeps
    <2>14. CASE EmitSymbol
      BY <2>14, EmitSymbolKeeps
    <2>15. CASE WriteStrings
      BY <2>15, WriteStringsKeeps
    <2>16. CASE WriteHeaders
      BY <2>16, WriteHeadersKeeps
    <2>17. CASE Done \/ UNCHANGED vars
      BY <2>17, StutterKeeps DEF Done
    <2> QED BY <2>1, <2>2, <2>3, <2>4, <2>5, <2>6, <2>7, <2>8, <2>9, <2>10, <2>11, <2>12, <2>13, <2>14,
               <2>15, <2>16, <2>17 DEF Next
  <1> QED BY <1>1, <1>2, PTL DEF Spec

(***************************************************************************)
(* link_elf_executable reports an error exactly when the files cannot be   *)
(* linked, although it looks at each symbol and each relocation once, and  *)
(* ends in an assertion exactly when they can be linked and define no      *)
(* static.                                                                 *)
(***************************************************************************)
THEOREM OutcomeIsRight == Spec => []OutcomeRight
  <1>1. LinkInv => OutcomeRight
    BY DEF LinkInv
  <1> QED BY <1>1, LinkIsSound, PTL

(* Where a definition goes in its section. *)
LEMMA DefinitionPlace ==
  ASSUME files \in Inputs, NEW d \in Definitions
  PROVE  /\ SymAt(d).sect \in Sections /\ Before(d[1], SymAt(d).sect) \in Nat /\ SymAt(d).value \in Nat
  <1>1. d[1] \in Usable /\ d[2] \in 1..Len(files[d[1]].syms) /\ SymAt(d).sect \in Sections
    BY DefinitionsProps
  <1>2. WellFormed(files[d[1]]) /\ d[1] \in 1..Len(files) /\ Len(files) \in Nat
    BY <1>1, FilesProps
  <1>3. Before(d[1], SymAt(d).sect) \in Nat
    <2>1. d[1] \in 1..Len(files) + 1
      BY <1>2
    <2> QED BY <2>1, <1>1, BeforeProps
  <1>4. SymbolOK(files[d[1]], SymAt(d)) /\ files[d[1]].size \in [Sections -> Nat]
    BY <1>1, <1>2 DEF WellFormed, SymAt
  <1>5. SymAt(d).value \in 0..files[d[1]].size[SymAt(d).sect] /\ files[d[1]].size[SymAt(d).sect] \in Nat
    BY <1>1, <1>4 DEF SymbolOK, Sections
  <1> QED BY <1>1, <1>3, <1>5

(* The definition a relocation refers to is the entry it is stored with. *)
LEMMA TargetFound ==
  ASSUME LinkInv, Linked, NEW x \in 1..Len(table), table[x].defined, NEW g \in Usable, NEW y,
         StandsFor(table[x], g, y), y \in 1..Len(files[g].syms)
  PROVE  Target(g, y) \in Definitions /\ Is(table[x], Target(g, y))
  <1> DEFINE s == files[g].syms[y]
  <1>1. /\ ret = "SUCCESS" /\ f = Len(files) + 1 /\ files \in Inputs /\ TableRight /\ NamesOnce
    BY DEF LinkInv, Advanced, Typed, Writing, Linked
  <1>2. \A d \in Definitions : Read(d[1], d[2])
    BY <1>1, AllRead
  <1>3. table[x].bind = s.bind /\ table[x].name = s.name
    BY DEF StandsFor
  <1>4. CASE s.bind = "local"
    <2>1. Target(g, y) = <<g, y>> /\ Is(table[x], <<g, y>>)
      BY <1>3, <1>4 DEF StandsFor, Target
    <2>2. SymAt(<<g, y>>) = s
      BY DEF SymAt
    <2>3. s.sect \in Sections
      BY <2>1, <2>2 DEF LinkInv, Inside, Is
    <2> QED BY <2>1, <2>3, DefinitionsProps
  <1>5. CASE s.bind # "local"
    <2>1. s.bind = "global"
      <3>1. table[x].bind \in {"global", "local"}
        <4>1. table[x] \in Entries
          BY TableProps DEF LinkInv
        <4> QED BY <4>1 DEF Entries
      <3> QED BY <3>1, <1>3, <1>5
    <2>2. PICK d \in Definitions : Is(table[x], d)
      BY <1>1 DEF TableRight
    <2>3. d \in Globals(s.name)
      BY <2>1, <2>2, <1>3 DEF Globals, Is
    <2> DEFINE c == CHOOSE e \in Globals(s.name) : TRUE
    <2>4. c \in Globals(s.name)
      BY <2>3
    <2>5. Target(g, y) = c
      BY <1>5 DEF Target
    <2> HIDE DEF c
    <2>6. c \in Definitions /\ SymAt(c).bind = "global" /\ SymAt(c).name = s.name
      BY <2>4 DEF Globals
    <2>7. PICK z \in 1..Len(table) : Is(table[z], c)
      BY <2>6, <1>1, <1>2 DEF TableRight
    <2>8. z = x
      BY <2>1, <2>6, <2>7, <1>1, <1>3 DEF NamesOnce, Is
    <2> QED BY <2>5, <2>6, <2>7, <2>8
  <1> QED BY <1>4, <1>5

(***************************************************************************)
(* In a linked program every place that a relocation names holds the       *)
(* address of the definition it refers to, whatever the order of files.    *)
(***************************************************************************)
THEOREM RelocationsAreRight == Spec => []RelocationsResolve
  <1>1. LinkInv => RelocationsResolve
    <2> SUFFICES ASSUME LinkInv, Linked, NEW g \in Usable, NEW r \in Relas(g)
                 PROVE  LET place == Address[r.sect] + Before(g, r.sect) + r.off
                            target == Home(Target(g, r.sym)) + r.addend
                        IN  Loaded(r.sect, place, IF r.type = "PC32" THEN target - place ELSE target)
      BY DEF RelocationsResolve
    <2>1. /\ ret = "SUCCESS" /\ f = Len(files) + 1 /\ files \in Inputs /\ RowsRight /\ TableRight
          /\ Emitted /\ k > Len(table) /\ k \in Nat /\ Len(table) \in Nat /\ size \in [Sections -> Nat]
      BY TableProps DEF LinkInv, Advanced, Typed, Writing, Linked
    <2>2. /\ WellFormed(files[g]) /\ files[g].relas \in Seq(Relas(g)) /\ g \in 1..Len(files)
          /\ Len(files) \in Nat
      BY <2>1, FilesProps DEF WellFormed, Relas
    <2>3. PICK y \in 1..Len(files[g].relas) : files[g].relas[y] = r
      BY <2>2, SeqElements DEF Relas
    <2>4. RelaOK(files[g], r)
      BY <2>2, <2>3 DEF WellFormed
    <2>5. r.sect \in Sections /\ r.off \in Nat /\ r.addend \in Int /\ r.sym \in 1..Len(files[g].syms)
      BY <2>4 DEF RelaOK, Sections
    <2> DEFINE q == Stored(g, r)
               b == Before(g, r.sect)
    <2>6. q.sect = r.sect /\ q.off = b + r.off /\ q.type = r.type /\ q.addend = r.addend
      BY DEF Stored
    <2>7. ReadRow(g, y)
      BY <2>1, AllRead
    <2>8. PICK x \in 1..Len(table) : StandsFor(table[x], g, r.sym) /\ q \in ToSet(table[x].relocs)
      BY <2>1, <2>3, <2>7 DEF RowsRight
    <2>9. x < k /\ table[x].relocs # <<>>
      BY <2>1, <2>8 DEF ToSet
    <2> HIDE DEF q
    <2>10. /\ table[x].defined
           /\ Offset[q.sect] + q.off \in DOMAIN image
           /\ image[Offset[q.sect] + q.off] = FinalValue(table[x], q)
      BY <2>1, <2>8, <2>9 DEF Emitted
    <2> DEFINE d == Target(g, r.sym)
    <2>11. d \in Definitions /\ Is(table[x], d)
      BY <2>5, <2>8, <2>10, TargetFound
    <2> HIDE DEF d
    <2>12. /\ SymAt(d).sect \in Sections /\ Before(d[1], SymAt(d).sect) \in Nat /\ SymAt(d).value \in Nat
      BY <2>1, <2>11, DefinitionPlace
    <2>13. /\ Address[SymAt(d).sect] \in Nat /\ Address[r.sect] \in Nat /\ Offset[r.sect] \in Nat /\ b \in Nat
      <3>1. \A s \in Sections : Offset[s] \in Nat /\ Address[s] \in Nat
        BY <2>1, LayoutProps
      <3>2. g \in 1..Len(files) + 1
        BY <2>2
      <3> QED BY <3>1, <3>2, <2>1, <2>5, <2>12, BeforeProps
    <2>14. Home(d) = Address[table[x].sect] + table[x].off /\ Home(d) \in Nat
      <3>1. /\ table[x].sect = SymAt(d).sect
            /\ table[x].off = Before(d[1], SymAt(d).sect) + SymAt(d).value
        BY <2>11 DEF Is
      <3>2. Home(d) = Address[SymAt(d).sect] + Before(d[1], SymAt(d).sect) + SymAt(d).value
        BY DEF Home
      <3> QED BY <3>1, <3>2, <2>12, <2>13
    <2> DEFINE place == Address[r.sect] + b + r.off
               target == Home(d) + r.addend
    <2>15. FinalValue(table[x], q) = IF r.type = "PC32" THEN target - place ELSE target
      <3>1. Address[q.sect] + q.off = place
        BY <2>5, <2>6, <2>13 DEF q
      <3>2. q.type = r.type /\ q.addend = r.addend
        BY <2>6 DEF q
      <3>3. place \in Nat
        BY <2>5, <2>13
      <3> HIDE DEF place, b
      <3> DEFINE location == Address[table[x].sect] + table[x].off
      <3>4. FinalValue(table[x], q) = IF q.type = "PC32"
              THEN location + q.addend - (Address[q.sect] + q.off) ELSE location + q.addend
        BY DEF FinalValue
      <3>5. location = Home(d)
        BY <2>14
      <3> HIDE DEF location
      <3> QED BY <3>1, <3>2, <3>3, <3>4, <3>5, <2>5, <2>14
    <2>16. Offset[q.sect] + q.off = Offset[r.sect] + place - Address[r.sect]
      <3>1. q.sect = r.sect /\ q.off = b + r.off
        BY <2>6 DEF q
      <3> HIDE DEF b
      <3> QED BY <3>1, <2>5, <2>13
    <2>17. Loaded(r.sect, place, IF r.type = "PC32" THEN target - place ELSE target)
      <3> HIDE DEF place, target
      <3> QED BY <2>10, <2>15, <2>16 DEF Loaded
    <2> QED BY <2>17 DEF d
  <1> QED BY <1>1, LinkIsSound, PTL

(* The segments of the executable, whatever the sizes of the sections. *)
LEMMA SegmentsAreSound ==
  ASSUME size \in [Sections -> Nat]
  PROVE  SegmentsSound
  <1> DEFINE st == size["text"]
  <1>1. /\ Offset.text = FirstOffset /\ Offset.bss = FirstOffset + st
        /\ Offset.data = FirstOffset + st /\ FirstOffset \in Nat
        /\ Address.text = 8 * Region + FirstOffset
        /\ Address.bss = 9 * Region + FirstOffset + st
    BY LayoutProps
  <1>2. PICK m \in Nat : /\ Address.data = m * Region + FirstOffset + st
                         /\ m >= 10 /\ Address.bss <= m * Region
    BY LayoutProps
  <1>3. Region = 4096 * PageSize /\ PageSize = 4096
    BY DEF Region, PageSize
  <1>4. st \in Nat /\ size["bss"] \in Nat /\ size["data"] \in Nat
    BY DEF Sections
  <1> HIDE DEF st
  <1>5. /\ Address.text - Offset.text = 8 * Region /\ Address.bss - Offset.bss = 9 * Region
        /\ Address.data - Offset.data = m * Region
    <2>1. m * Region \in Nat /\ Region \in Nat
      BY <1>3
    <2> QED BY <2>1, <1>1, <1>2, <1>4
  <1>6. \A n \in Nat : (n * Region) % PageSize = 0
    BY <1>3
  <1>7. \A s \in Sections : (Address[s] - Offset[s]) % PageSize = 0
    BY <1>5, <1>6 DEF Sections
  <1>8. /\ Address.text + st <= Address.bss /\ ~(Address.bss <= Address.text)
        /\ Address.bss < Address.data
    <2>1. m * Region \in Nat /\ Region \in Nat /\ Region > 0
      BY <1>3
    <2> QED BY <2>1, <1>1, <1>2, <1>4, <1>3 DEF FirstOffset
  <1>9. size["bss"] <= Region => Address.bss + size["bss"] <= Address.data
    <2>1. m * Region >= 10 * Region
      BY <1>2, <1>3
    <2>2. m * Region \in Nat /\ Region \in Nat
      BY <1>3
    <2> QED BY <2>1, <2>2, <1>1, <1>2, <1>4
  <1>10. ASSUME size["bss"] <= Region, NEW s \in Sections, NEW t \in Sections, s # t, Address[s] <= Address[t]
         PROVE  Address[s] + size[s] <= Address[t]
    <2>1. /\ Address.text \in Nat /\ Address.bss \in Nat /\ Address.data \in Nat
      BY LayoutProps DEF Sections
    <2>2. CASE s = "text" /\ t = "bss"
      BY <2>2, <1>8 DEF st
    <2>3. CASE s = "text" /\ t = "data"
      BY <2>1, <2>3, <1>4, <1>8 DEF st
    <2>4. CASE s = "bss" /\ t = "data"
      BY <2>4, <1>9, <1>10
    <2>5. CASE (s = "bss" /\ t = "text") \/ (s = "data" /\ t = "bss") \/ (s = "data" /\ t = "text")
      BY <2>1, <2>5, <1>4, <1>8, <1>10
    <2> QED BY <2>2, <2>3, <2>4, <2>5, <1>10 DEF Sections
  <1> QED BY <1>7, <1>10 DEF SegmentsSound

(***************************************************************************)
(* Every definition stays inside its section, the three segments of an     *)
(* executable do not overlap in memory, and each address is congruent to   *)
(* its file offset modulo the page size.                                   *)
(***************************************************************************)
THEOREM LayoutIsSound == Spec => []LayoutSound
  <1>1. LinkInv => LayoutSound
    <2> SUFFICES ASSUME LinkInv PROVE LayoutSound
      OBVIOUS
    <2>1. size \in [Sections -> Nat] /\ base \in [Sections -> Nat] /\ \A s \in Sections : base[s] <= size[s]
      BY DEF LinkInv, Typed
    <2>2. \A s \in Sections : base[s] \in 0..size[s]
      BY <2>1
    <2>3. ASSUME NEW x \in 1..Len(table), table[x].defined
          PROVE  table[x].off \in 0..size[table[x].sect]
      <3>1. table[x].off \in Nat /\ table[x].sect \in Sections /\ table[x].off <= size[table[x].sect]
        BY <2>3, TableProps DEF LinkInv, Inside
      <3> QED BY <3>1, <2>1
    <2>4. TypeOK
      BY <2>2, <2>3 DEF LinkInv, Typed, TypeOK
    <2> QED BY <2>1, <2>4, SegmentsAreSound DEF LayoutSound
  <1> QED BY <1>1, LinkIsSound, PTL


-----------------------------------------------------------------------------
(***************************************************************************)
(* The symbol table of the executable.  One loop gives each symbol the     *)
(* place of its name, another writes the names, and the symbols are        *)
(* numbered as they are written: the invariant says what .symtab is to the *)
(* entries the first loop has passed.                                      *)
(***************************************************************************)
DefinedBefore(n) == {y \in 1..Len(table) : y < n /\ table[y].defined}

Value(e) == Address[e.sect] + e.off

(* A symbol of the executable is written for an entry. *)
WrittenFor(s, e) == s.bind = e.bind /\ s.sect = e.sect /\ s.value = Value(e)

(* .symtab has a symbol for every defined entry the loop has passed. *)
SymtabWritten ==
  /\ k <= Len(table) + 1
  /\ IsFiniteSet(DefinedBefore(k)) /\ Len(symtab) = Cardinality(DefinedBefore(k))
  /\ \A x \in 1..Len(symtab) : \E y \in DefinedBefore(k) : WrittenFor(symtab[x], table[y])
  /\ \A y \in DefinedBefore(k) : \E x \in 1..Len(symtab) : WrittenFor(symtab[x], table[y])

(* last_local_symbol_index is the last local symbol. *)
LastLocalWritten ==
  /\ lastLocal # 0 => lastLocal \in 1..Len(symtab) /\ symtab[lastLocal].bind = "local"
  /\ \A x \in 1..Len(symtab) : symtab[x].bind = "local" => x <= lastLocal

(* While every entry is written, next_string_index is the place that the   *)
(* name of the next one will have.                                         *)
NamesWritten ==
  (\A x \in 1..Len(table) : x < k => table[x].defined) =>
    /\ Len(symtab) = k - 1 /\ nextString = StringAt[k - 1]
    /\ \A x \in 1..Len(symtab) : symtab[x].name = StringAt[x - 1]

(* The entry point is at an entry called _start, if there is one. *)
EntryWritten ==
  (\E y \in DefinedBefore(k) : table[y].name = Start) =>
    \E y \in DefinedBefore(k) : table[y].name = Start /\ entry = Value(table[y])

StringsWritten ==
  phase # "emit" =>
    strtab = [at \in {StringAt[x - 1] : x \in 1..Len(table)} |->
                table[CHOOSE x \in 1..Len(table) : StringAt[x - 1] = at].name]

(* The inductive invariant behind SymbolsRight, on top of LinkInv. *)
SymbolInv ==
  ret = "SUCCESS" =>
    /\ phase \in {"open", "symbols", "relas"} => symtab = <<>> /\ nextString = 1
    /\ Writing => SymtabWritten /\ LastLocalWritten /\ NamesWritten /\ EntryWritten /\ StringsWritten

(* A function that grows at each step takes no value twice. *)
LEMMA GrowingProps ==
  ASSUME NEW N \in Nat, NEW h \in [0..N -> Nat], \A g \in 1..N : h[g - 1] < h[g]
  PROVE  \A x, y \in 0..N : h[x] = h[y] => x = y
  <1>1. ASSUME NEW x \in 0..N, NEW y \in 0..N, x < y PROVE h[x] < h[y]
    <2> DEFINE Bad == {n \in 0..N : x < n /\ ~(h[x] < h[n])}
    <2>1. Bad = {}
      <3> SUFFICES ASSUME Bad # {} PROVE FALSE
        OBVIOUS
      <3>1. Bad \in SUBSET Nat
        OBVIOUS
      <3> HIDE DEF Bad
      <3>2. PICK m \in Bad : \A n \in Bad : m <= n
        BY <3>1, LeastNat
      <3>3. m \in 0..N /\ x < m /\ ~(h[x] < h[m])
        BY DEF Bad
      <3>4. m \in 1..N /\ m - 1 \in 0..N /\ ~(m <= m - 1) /\ x <= m - 1
        BY <3>3
      <3>5. m - 1 \notin Bad
        BY <3>2, <3>4
      <3>6. h[m - 1] < h[m] /\ h[m - 1] \in Nat /\ h[m] \in Nat /\ h[x] \in Nat
        BY <3>3, <3>4
      <3>7. CASE x = m - 1
        BY <3>3, <3>6, <3>7
      <3>8. CASE x # m - 1
        <4>1. x < m - 1
          BY <3>4, <3>8
        <4>2. h[x] < h[m - 1]
          BY <4>1, <3>4, <3>5 DEF Bad
        <4> QED BY <4>2, <3>3, <3>6
      <3> QED BY <3>7, <3>8
    <2> QED BY <2>1, <1>1
  <1>2. ASSUME NEW x \in 0..N, NEW y \in 0..N, h[x] = h[y] PROVE x = y
    <2>1. h[x] \in Nat /\ h[y] \in Nat /\ ~(h[x] < h[y]) /\ ~(h[y] < h[x])
      BY <1>2
    <2>2. ~(x < y) /\ ~(y < x)
      BY <2>1, <1>1
    <2> QED BY <2>2
  <1> QED BY <1>2

(* The strings lie one behind the other. *)
LEMMA StringAtProps ==
  ASSUME table \in Seq(Entries)
  PROVE  /\ StringAt \in [0..Len(table) -> Nat] /\ StringAt[0] = 1
         /\ \A x \in 1..Len(table) : /\ NameLen[table[x].name] \in Nat
                                     /\ StringAt[x] = StringAt[x - 1] + (NameLen[table[x].name] + 1)
         /\ \A x, y \in 1..Len(table) : StringAt[x - 1] = StringAt[y - 1] => x = y
  <1> DEFINE N == Len(table)
             A == [x \in 1..N |-> NameLen[table[x].name] + 1]
             S == StringAt
  <1>1. N \in Nat /\ \A x \in 1..N : table[x] \in Entries
    OBVIOUS
  <1>2. \A x \in 1..N : NameLen[table[x].name] \in Nat
    BY <1>1, LinkerAssumption DEF Entries
  <1>3. A \in [1..N -> Nat] /\ 1 \in Nat /\ \A x \in 1..N : A[x] = NameLen[table[x].name] + 1
    BY <1>1, <1>2
  <1> HIDE DEF N, A
  <1>4. PICK h \in [0..N -> Nat] : h[0] = 1 /\ \A x \in 1..N : h[x] = h[x - 1] + A[x]
    BY <1>1, <1>3, SumExists
  <1>5. h = [x \in 0..N |-> IF x = 0 THEN 1 ELSE h[x - 1] + (NameLen[table[x].name] + 1)]
    BY <1>1, <1>3, <1>4
  <1>6. S = [x \in 0..N |-> IF x = 0 THEN 1 ELSE S[x - 1] + (NameLen[table[x].name] + 1)]
    BY <1>5 DEF StringAt, N
  <1> HIDE DEF S
  <1>7. S[0] = 1 /\ \A x \in 1..N : S[x] = S[x - 1] + A[x]
    <2>1. \A x \in 0..N : S[x] = IF x = 0 THEN 1 ELSE S[x - 1] + (NameLen[table[x].name] + 1)
      BY <1>6
    <2>2. 0 \in 0..N /\ \A x \in 1..N : x \in 0..N /\ x # 0
      BY <1>1
    <2> QED BY <2>1, <2>2, <1>3
  <1>8. \A x \in 0..N : S[x] \in Nat
    BY <1>1, <1>3, <1>7, SumProps
  <1>9. S \in [0..N -> Nat] /\ S[0] = 1 /\ \A x \in 1..N : S[x] = S[x - 1] + A[x]
    <2>1. S = [x \in 0..N |-> S[x]]
      BY <1>6
    <2> QED BY <2>1, <1>7, <1>8
  <1>10. ASSUME NEW x \in 1..N PROVE S[x - 1] < S[x] /\ x - 1 \in 0..N
    <2>1. x - 1 \in 0..N /\ NameLen[table[x].name] \in Nat /\ A[x] = NameLen[table[x].name] + 1
      BY <1>1, <1>2, <1>3
    <2>2. S[x - 1] \in Nat /\ S[x] = S[x - 1] + A[x]
      BY <2>1, <1>9
    <2> QED BY <2>1, <2>2
  <1>11. \A x, y \in 0..N : S[x] = S[y] => x = y
    BY <1>1, <1>9, <1>10, GrowingProps
  <1>12. ASSUME NEW x \in 1..N, NEW y \in 1..N, S[x - 1] = S[y - 1] PROVE x = y
    <2>1. x - 1 \in 0..N /\ y - 1 \in 0..N
      BY <1>1
    <2>2. x - 1 = y - 1
      BY <2>1, <1>11, <1>12
    <2> QED BY <2>2, <1>1
  <1>13. \A x \in 1..N : S[x] = S[x - 1] + (NameLen[table[x].name] + 1)
    BY <1>3, <1>9
  <1> QED BY <1>2, <1>9, <1>12, <1>13 DEF N, S

(* Before the symbols are written .symtab is empty. *)
LEMMA InitSymbols ==
  ASSUME Init
  PROVE  SymbolInv
  <1>1. PICK inputs \in Inputs : InitWith(inputs)
    BY DEF Init
  <1>2. phase = "open" /\ symtab = <<>> /\ nextString = 1
    BY <1>1 DEF InitWith
  <1> QED BY <1>2 DEF SymbolInv, Writing

LEMMA ReadingSymbols ==
  ASSUME LinkInv, SymbolInv, UNCHANGED <<ret, symtab, nextString>>,
         phase \in {"open", "symbols", "relas"}, phase' \in {"open", "symbols", "relas"}
  PROVE  SymbolInv'
  <1>1. ~Writing'
    BY DEF Writing
  <1> QED BY <1>1 DEF SymbolInv

LEMMA WriteContentsSymbols ==
  ASSUME LinkInv, SymbolInv, WriteContents
  PROVE  SymbolInv'
  <1>1. /\ phase = "open" /\ phase' = "emit" /\ k' = 1
        /\ UNCHANGED <<ret, table, symtab, lastLocal, nextString>>
    BY DEF WriteContents, reading, writing
  <1>2. ret = "SUCCESS" /\ table \in Seq(Entries) /\ Len(table) \in Nat /\ lastLocal = 0
    BY <1>1 DEF LinkInv, Typed, Advanced
  <1>3. symtab = <<>> /\ nextString = 1 /\ Len(symtab) = 0
    BY <1>1, <1>2 DEF SymbolInv
  <1>4. DefinedBefore(k)' = {}
    BY <1>1, <1>2 DEF DefinedBefore
  <1>5. SymtabWritten'
    <2>1. IsFiniteSet(DefinedBefore(k)') /\ Cardinality(DefinedBefore(k)') = 0
      BY <1>4, FS_EmptySet
    <2>2. k' <= Len(table') + 1 /\ Len(symtab') = 0 /\ \A x : x \notin 1..Len(symtab')
      BY <1>1, <1>2, <1>3
    <2> QED BY <2>1, <2>2, <1>4 DEF SymtabWritten
  <1>6. LastLocalWritten' /\ EntryWritten' /\ StringsWritten'
    BY <1>1, <1>2, <1>3, <1>4 DEF LastLocalWritten, EntryWritten, StringsWritten
  <1>7. NamesWritten'
    <2>1. StringAt' = StringAt
      BY <1>1 DEF StringAt
    <2>2. StringAt[0] = 1 /\ k' - 1 = 0
      BY <1>1, <1>2, StringAtProps
    <2>3. StringAt'[k' - 1] = 1
      BY <2>1, <2>2
    <2>4. \A x : x \notin 1..Len(symtab')
      BY <1>1, <1>3
    <2> QED BY <2>2, <2>3, <2>4, <1>1, <1>3 DEF NamesWritten
  <1> QED BY <1>1, <1>5, <1>6, <1>7 DEF SymbolInv

(* What stays while symbols are written. *)
LEMMA WritingFixed ==
  ASSUME UNCHANGED <<size, table>>
  PROVE  /\ StringAt' = StringAt /\ \A e : Value(e)' = Value(e)
         /\ \A s, e : WrittenFor(s, e)' = WrittenFor(s, e)
         /\ \A n : DefinedBefore(n)' = DefinedBefore(n)
  <1>1. Address' = Address
    BY LayoutFixed
  <1>2. \A e : Value(e)' = Value(e)
    BY <1>1 DEF Value
  <1>3. \A s, e : WrittenFor(s, e)' = WrittenFor(s, e)
    BY <1>2 DEF WrittenFor
  <1> QED BY <1>2, <1>3 DEF StringAt, DefinedBefore

LEMMA SymbolsWritten ==
  ASSUME LinkInv, SymbolInv, Writing
  PROVE  SymtabWritten /\ LastLocalWritten /\ NamesWritten /\ EntryWritten /\ StringsWritten
  <1>1. ret = "SUCCESS"
    BY DEF LinkInv, Advanced, Writing
  <1> QED BY <1>1 DEF SymbolInv

(* The steps after the loop leave the symbols alone. *)
LEMMA SymbolsKept ==
  ASSUME LinkInv, SymbolInv, Writing,
         UNCHANGED <<k, size, table, symtab, entry, lastLocal, nextString>>
  PROVE  (SymtabWritten /\ LastLocalWritten /\ NamesWritten /\ EntryWritten)'
  <1>1. SymtabWritten /\ LastLocalWritten /\ NamesWritten /\ EntryWritten
    BY SymbolsWritten
  <1>2. /\ StringAt' = StringAt /\ (\A e : Value(e)' = Value(e))
        /\ \A s, e : WrittenFor(s, e)' = WrittenFor(s, e)
    BY WritingFixed
  <1>3. DefinedBefore(k)' = DefinedBefore(k)
    BY DEF DefinedBefore
  <1>4. SymtabWritten'
    BY <1>1, <1>2, <1>3 DEF SymtabWritten
  <1>5. LastLocalWritten'
    BY <1>1 DEF LastLocalWritten
  <1>6. NamesWritten'
    BY <1>1, <1>2 DEF NamesWritten
  <1>7. EntryWritten'
    BY <1>1, <1>2, <1>3 DEF EntryWritten
  <1> QED BY <1>4, <1>5, <1>6, <1>7

LEMMA WriteStringsSymbols ==
  ASSUME LinkInv, SymbolInv, WriteStrings
  PROVE  SymbolInv'
  <1>1. /\ phase = "emit" /\ phase' = "strings" /\ Writing
        /\ UNCHANGED <<k, ret, size, table, symtab, entry, lastLocal, nextString>>
        /\ strtab' = [at \in {StringAt[x - 1] : x \in 1..Len(table)} |->
                        table[CHOOSE x \in 1..Len(table) : StringAt[x - 1] = at].name]
    BY DEF WriteStrings, reading, Writing
  <1>2. StringAt' = StringAt
    BY <1>1, WritingFixed
  <1>3. StringsWritten'
    BY <1>1, <1>2 DEF StringsWritten
  <1>4. (SymtabWritten /\ LastLocalWritten /\ NamesWritten /\ EntryWritten)'
    BY <1>1, SymbolsKept
  <1> QED BY <1>1, <1>3, <1>4 DEF SymbolInv

LEMMA WriteHeadersSymbols ==
  ASSUME LinkInv, SymbolInv, WriteHeaders
  PROVE  SymbolInv'
  <1>1. /\ phase = "strings" /\ phase' = "done" /\ Writing
        /\ UNCHANGED <<k, size, table, symtab, entry, lastLocal, nextString, strtab>>
    BY DEF WriteHeaders, reading, writing, Writing
  <1>2. StringAt' = StringAt
    BY <1>1, WritingFixed
  <1>3. StringsWritten
    BY <1>1, SymbolsWritten
  <1>4. StringsWritten'
    BY <1>1, <1>2, <1>3 DEF StringsWritten
  <1>5. (SymtabWritten /\ LastLocalWritten /\ NamesWritten /\ EntryWritten)'
    BY <1>1, SymbolsKept
  <1> QED BY <1>1, <1>4, <1>5 DEF SymbolInv

LEMMA SymbolsStutter ==
  ASSUME LinkInv, SymbolInv, UNCHANGED vars
  PROVE  SymbolInv'
  <1>1. UNCHANGED <<k, phase, ret, size, table, symtab, entry, lastLocal, nextString, strtab>>
    BY DEF vars, reading, writing
  <1>2. CASE Writing
    <2>1. (SymtabWritten /\ LastLocalWritten /\ NamesWritten /\ EntryWritten)'
      BY <1>1, <1>2, SymbolsKept
    <2>2. StringsWritten /\ StringAt' = StringAt
      BY <1>1, <1>2, SymbolsWritten, WritingFixed
    <2>3. StringsWritten'
      BY <2>2, <1>1 DEF StringsWritten
    <2>4. phase' \notin {"open", "symbols", "relas"}
      BY <1>1, <1>2 DEF Writing
    <2> QED BY <2>1, <2>3, <2>4 DEF SymbolInv
  <1>3. CASE ~Writing
    <2>1. ~Writing'
      BY <1>1, <1>3 DEF Writing
    <2> QED BY <2>1, <1>1 DEF SymbolInv
  <1> QED BY <1>2, <1>3

(* A declaration that nothing uses gets no symbol. *)
LEMMA IgnoreSymbolSymbols ==
  ASSUME LinkInv, SymbolInv, IgnoreSymbol
  PROVE  SymbolInv'
  <1>1. /\ phase = "emit" /\ phase' = "emit" /\ k <= Len(table) /\ ~table[k].defined /\ k' = k + 1 /\ Writing
        /\ UNCHANGED <<ret, size, table, symtab, entry, lastLocal, nextString>>
    BY DEF IgnoreSymbol, Emitting, reading, writing, Writing
  <1>2. k \in Nat \ {0} /\ Len(table) \in Nat /\ k \in 1..Len(table)
    BY <1>1, EmittingProps
  <1>3. SymtabWritten /\ LastLocalWritten /\ EntryWritten
    BY <1>1, SymbolsWritten
  <1>4. (\A e : Value(e)' = Value(e)) /\ \A s, e : WrittenFor(s, e)' = WrittenFor(s, e)
    BY <1>1, WritingFixed
  <1>5. DefinedBefore(k)' = DefinedBefore(k)
    <2>1. \A y \in 1..Len(table) : y < k + 1 /\ table[y].defined <=> y < k /\ table[y].defined
      BY <1>1, <1>2
    <2> QED BY <2>1, <1>1 DEF DefinedBefore
  <1>6. SymtabWritten'
    <2>1. k' <= Len(table') + 1
      BY <1>1, <1>2
    <2> QED BY <2>1, <1>1, <1>3, <1>4, <1>5 DEF SymtabWritten
  <1>7. LastLocalWritten' /\ StringsWritten'
    BY <1>1, <1>3 DEF LastLocalWritten, StringsWritten
  <1>8. NamesWritten'
    <2>1. k \in 1..Len(table') /\ k < k' /\ ~table'[k].defined
      BY <1>1, <1>2
    <2> QED BY <2>1 DEF NamesWritten
  <1>9. EntryWritten'
    BY <1>1, <1>3, <1>4, <1>5 DEF EntryWritten
  <1> QED BY <1>1, <1>6, <1>7, <1>8, <1>9 DEF SymbolInv

LEMMA EmitSymbolSymbols ==
  ASSUME LinkInv, SymbolInv, EmitSymbol
  PROVE  SymbolInv'
  <1> DEFINE e == table[k]
             n == Len(symtab)
             new == [name |-> nextString, bind |-> e.bind, sect |-> e.sect, value |-> Value(e)]
             Syms == [name : Nat, bind : {"global", "local"}, sect : Sections, value : Nat]
  <1>1. /\ phase = "emit" /\ phase' = "emit" /\ k <= Len(table) /\ e.defined /\ k' = k + 1 /\ Writing
        /\ UNCHANGED <<ret, size, table>>
    BY DEF EmitSymbol, Emitting, reading, Writing
  <1>2. /\ entry' = IF e.name = Start THEN Value(e) ELSE entry
        /\ lastLocal' = IF e.bind = "local" THEN n + 1 ELSE lastLocal
        /\ symtab' = Append(symtab, new)
        /\ nextString' = nextString + NameLen[e.name] + 1
    BY DEF EmitSymbol, AddSymbol, Value
  <1>3. /\ k \in Nat \ {0} /\ Len(table) \in Nat /\ k \in 1..Len(table) /\ table \in Seq(Entries)
    BY <1>1, EmittingProps
  <1>4. SymtabWritten /\ LastLocalWritten /\ NamesWritten /\ EntryWritten
    BY <1>1, SymbolsWritten
  <1>5. /\ (\A s : Value(s)' = Value(s)) /\ (\A s, y : WrittenFor(s, y)' = WrittenFor(s, y))
        /\ StringAt' = StringAt
    BY <1>1, WritingFixed
  <1>6. symtab \in Seq(Syms) /\ n \in Nat /\ lastLocal \in Nat /\ nextString \in Nat
    BY DEF LinkInv, Typed
  <1>7. new.name = nextString /\ new.bind = e.bind /\ WrittenFor(new, e)
    BY DEF WrittenFor
  <1>8. LinkInv'
    BY EmitSymbolKeeps
  <1> HIDE DEF new
  <1>9. /\ Len(symtab') = n + 1 /\ symtab'[n + 1] = new
        /\ \A x \in 1..n : symtab'[x] = symtab[x]
        /\ \A x \in 1..n + 1 : x \in 1..n \/ x = n + 1
        /\ \A x \in 1..n : x \in 1..n + 1
        /\ n + 1 \in 1..n + 1
    <2>1. symtab' \in Seq(Syms)
      BY <1>8 DEF LinkInv, Typed
    <2> HIDE DEF Syms
    <2>2. Len(Append(symtab, new)) = n + 1 /\ Append(symtab, new)[n + 1] = new
          /\ \A x \in 1..n : Append(symtab, new)[x] = symtab[x]
      BY <1>6
    <2> QED BY <2>2, <1>2, <1>6
  <1> HIDE DEF n
  <1>10. DefinedBefore(k)' = DefinedBefore(k) \cup {k} /\ k \notin DefinedBefore(k)
    <2>1. \A y \in 1..Len(table) : y < k + 1 <=> y < k \/ y = k
      BY <1>3
    <2>2. ~(k < k)
      BY <1>3
    <2> QED BY <2>1, <2>2, <1>1, <1>3 DEF DefinedBefore
  <1> DEFINE D == DefinedBefore(k)
  <1>11. D \cup {k} = DefinedBefore(k)' /\ \A y \in D : y \in 1..Len(table)
    BY <1>10 DEF DefinedBefore
  <1> HIDE DEF D
  <1>12. SymtabWritten'
    <2>1. /\ IsFiniteSet(D) /\ n = Cardinality(D) /\ k \notin D
          /\ \A x \in 1..n : \E y \in D : WrittenFor(symtab[x], table[y])
          /\ \A y \in D : \E x \in 1..n : WrittenFor(symtab[x], table[y])
      BY <1>4, <1>10 DEF SymtabWritten, D, n
    <2>2. IsFiniteSet(D \cup {k}) /\ Cardinality(D \cup {k}) = n + 1
      BY <2>1, FS_AddElement
    <2>3. k' <= Len(table') + 1
      BY <1>1, <1>3
    <2>4. ASSUME NEW x \in 1..n + 1 PROVE \E y \in D \cup {k} : WrittenFor(symtab'[x], table[y])
      <3>1. CASE x \in 1..n
        BY <3>1, <2>1, <1>9
      <3>2. CASE x = n + 1
        BY <3>2, <1>7, <1>9
      <3> QED BY <3>1, <3>2, <1>9
    <2>5. ASSUME NEW y \in D \cup {k} PROVE \E x \in 1..n + 1 : WrittenFor(symtab'[x], table[y])
      <3>1. CASE y \in D
        BY <3>1, <2>1, <1>9
      <3>2. CASE y = k
        BY <3>2, <1>7, <1>9
      <3> QED BY <3>1, <3>2
    <2>6. IsFiniteSet(DefinedBefore(k)') /\ Len(symtab') = Cardinality(DefinedBefore(k)')
      BY <2>2, <1>9, <1>11
    <2> HIDE DEF e
    <2>7. \A x \in 1..Len(symtab') : \E y \in DefinedBefore(k)' : WrittenFor(symtab[x], table[y])'
      <3>1. \A x : \A y : WrittenFor(symtab[x], table[y])' <=> WrittenFor(symtab'[x], table[y])
        BY <1>1, <1>5 DEF WrittenFor
      <3> QED BY <3>1, <2>4, <1>9, <1>11
    <2>8. \A y \in DefinedBefore(k)' : \E x \in 1..Len(symtab') : WrittenFor(symtab[x], table[y])'
      <3>1. \A x : \A y : WrittenFor(symtab[x], table[y])' <=> WrittenFor(symtab'[x], table[y])
        BY <1>1, <1>5 DEF WrittenFor
      <3> QED BY <3>1, <2>5, <1>9, <1>11
    <2> QED BY <2>3, <2>6, <2>7, <2>8 DEF SymtabWritten
  <1>13. LastLocalWritten'
    <2>1. /\ lastLocal # 0 => lastLocal \in 1..n /\ symtab[lastLocal].bind = "local"
          /\ \A x \in 1..n : symtab[x].bind = "local" => x <= lastLocal
      BY <1>4 DEF LastLocalWritten, n
    <2>2. CASE e.bind = "local"
      <3>1. lastLocal' = n + 1 /\ symtab'[n + 1].bind = "local"
        BY <2>2, <1>2, <1>7, <1>9
      <3>2. \A x \in 1..n + 1 : x <= n + 1
        BY <1>6
      <3> QED BY <3>1, <3>2, <1>9 DEF LastLocalWritten
    <2>3. CASE e.bind # "local"
      <3>1. lastLocal' = lastLocal /\ symtab'[n + 1].bind # "local"
        BY <2>3, <1>2, <1>7, <1>9
      <3> QED BY <3>1, <2>1, <1>9 DEF LastLocalWritten
    <2> QED BY <2>2, <2>3
  <1>14. NamesWritten'
    <2> SUFFICES ASSUME \A x \in 1..Len(table) : x < k + 1 => table[x].defined
                 PROVE  /\ Len(symtab') = k' - 1 /\ nextString' = StringAt'[k' - 1]
                        /\ \A x \in 1..Len(symtab') : symtab'[x].name = StringAt'[x - 1]
      BY <1>1 DEF NamesWritten
    <2>1. \A x \in 1..Len(table) : x < k => table[x].defined
      BY <1>3
    <2>2. n = k - 1 /\ nextString = StringAt[k - 1] /\ \A x \in 1..n : symtab[x].name = StringAt[x - 1]
      BY <2>1, <1>4 DEF NamesWritten, n
    <2>3. k' - 1 = k /\ n + 1 = k
      BY <2>2, <1>1, <1>3
    <2>4. NameLen[e.name] \in Nat /\ StringAt[k] = StringAt[k - 1] + (NameLen[e.name] + 1)
      BY <1>3, StringAtProps
    <2>5. nextString' = StringAt[k]
      BY <2>2, <2>4, <1>2, <1>6
    <2>6. \A x \in 1..n + 1 : symtab'[x].name = StringAt[x - 1]
      BY <2>2, <2>3, <1>7, <1>9
    <2> QED BY <2>3, <2>5, <2>6, <1>5, <1>9
  <1>15. EntryWritten'
    <2>1. (\E y \in D : table[y].name = Start) => \E y \in D : table[y].name = Start /\ entry = Value(table[y])
      BY <1>4 DEF EntryWritten, D
    <2>2. (\E y \in D \cup {k} : table[y].name = Start) =>
            \E y \in D \cup {k} : table[y].name = Start /\ entry' = Value(table[y])
      <3>1. CASE e.name = Start
        BY <3>1, <1>2
      <3>2. CASE e.name # Start
        BY <3>2, <2>1, <1>2
      <3> QED BY <3>1, <3>2
    <2>3. \A y : Value(table[y])' = Value(table[y])
      BY <1>1, <1>5 DEF Value
    <2> QED BY <2>2, <2>3, <1>1, <1>11 DEF EntryWritten
  <1>16. StringsWritten'
    BY <1>1 DEF StringsWritten
  <1> QED BY <1>1, <1>12, <1>13, <1>14, <1>15, <1>16 DEF SymbolInv

(***************************************************************************)
(* The invariant of the loop that writes .symtab: it has one symbol for    *)
(* each defined entry the loop has passed, with its address, and its name  *)
(* at the place where the second loop will write it.                       *)
(***************************************************************************)
THEOREM SymtabIsSound == Spec => []SymbolInv
  <1>1. Init => SymbolInv
    BY InitSymbols
  <1>2. LinkInv /\ SymbolInv /\ [Next]_vars => SymbolInv'
    <2> SUFFICES ASSUME LinkInv, SymbolInv, [Next]_vars PROVE SymbolInv'
      OBVIOUS
    <2>1. CASE OpenFails \/ Rejected \/ MultipleDefinitions \/ UndefinedSymbol
      <3>1. ret' \in {"IO_ERROR", "UNIMPLEMENTED", "LINKER_ERROR"}
        BY <2>1 DEF OpenFails, Rejected, MultipleDefinitions, UndefinedSymbol, Fail
      <3> QED BY <3>1 DEF SymbolInv
    <2>2. CASE Unusable \/ ReadFile \/ SkipFileSymbol \/ EndOfSymtab \/ ReadRela \/ EndOfRelas
      <3>1. /\ phase \in {"open", "symbols", "relas"} /\ phase' \in {"open", "symbols", "relas"}
            /\ UNCHANGED <<ret, symtab, nextString>>
        BY <2>2 DEF Unusable, ReadFile, SkipFileSymbol, EndOfSymtab, ReadRela, EndOfRelas, ReadingSymbol,
                    NextFile, writing
      <3> QED BY <3>1, ReadingSymbols
    <2>3. CASE ReadUndefined \/ ReadDefinition
      <3>1. phase = "symbols" /\ phase' = phase /\ UNCHANGED <<ret, symtab, nextString>>
        BY <2>3 DEF ReadUndefined, ReadDefinition, ReadingSymbol, Bind, writing
      <3> QED BY <3>1, ReadingSymbols
    <2>4. CASE WriteContents
      BY <2>4, WriteContentsSymbols
    <2>5. CASE IgnoreSymbol
      BY <2>5, IgnoreSymbolSymbols
    <2>6. CASE EmitSymbol
      BY <2>6, EmitSymbolSymbols
    <2>7. CASE WriteStrings
      BY <2>7, WriteStringsSymbols
    <2>8. CASE WriteHeaders
      BY <2>8, WriteHeadersSymbols
    <2>9. CASE Done \/ UNCHANGED vars
      BY <2>9, SymbolsStutter DEF Done
    <2> QED BY <2>1, <2>2, <2>3, <2>4, <2>5, <2>6, <2>7, <2>8, <2>9 DEF Next
  <1> QED BY <1>1, <1>2, LinkIsSound, PTL DEF Spec

(* Each entry has the address of the definition it is. *)
LEMMA EntryIsHome ==
  ASSUME LinkInv, NEW y \in 1..Len(table), NEW d \in Definitions, Is(table[y], d)
  PROVE  Value(table[y]) = Home(d) /\ table[y].defined
  <1>1. files \in Inputs /\ size \in [Sections -> Nat]
    BY DEF LinkInv, Typed
  <1>2. SymAt(d).sect \in Sections /\ Before(d[1], SymAt(d).sect) \in Nat /\ SymAt(d).value \in Nat
    BY <1>1, DefinitionPlace
  <1>3. Address[SymAt(d).sect] \in Nat
    BY <1>1, <1>2, LayoutProps
  <1>4. Value(table[y]) = Address[SymAt(d).sect] + (Before(d[1], SymAt(d).sect) + SymAt(d).value)
    BY DEF Value, Is
  <1>5. Home(d) = Address[SymAt(d).sect] + Before(d[1], SymAt(d).sect) + SymAt(d).value
    BY DEF Home
  <1> QED BY <1>2, <1>3, <1>4, <1>5 DEF Is

(* In a linked program the table is what the files define. *)
LEMMA LinkedProps ==
  ASSUME LinkInv, SymbolInv, Linked
  PROVE  /\ SymtabWritten /\ LastLocalWritten /\ NamesWritten /\ EntryWritten /\ StringsWritten
         /\ lastLocal # 0 /\ k = Len(table) + 1 /\ Len(table) \in Nat /\ table \in Seq(Entries)
         /\ DefinedBefore(k) = DefinedEntries /\ ReadDefs = Definitions /\ Counted
         /\ symtab \in Seq([name : Nat, bind : {"global", "local"}, sect : Sections, value : Nat])
         /\ \A d \in Definitions : \E y \in DefinedEntries : Is(table[y], d)
         /\ \A y \in DefinedEntries : \E d \in Definitions : Is(table[y], d)
  <1>1. ret = "SUCCESS" /\ phase = "done" /\ Writing
    BY DEF Linked, Writing
  <1>2. SymtabWritten /\ LastLocalWritten /\ NamesWritten /\ EntryWritten /\ StringsWritten
    BY <1>1, SymbolsWritten
  <1>3. /\ files \in Inputs /\ f = Len(files) + 1 /\ lastLocal # 0 /\ k > Len(table) /\ k \in Nat
        /\ table \in Seq(Entries) /\ Len(table) \in Nat /\ TableRight
        /\ symtab \in Seq([name : Nat, bind : {"global", "local"}, sect : Sections, value : Nat])
    BY <1>1 DEF LinkInv, Typed, Advanced
  <1>4. \A d \in Definitions : Read(d[1], d[2])
    BY <1>3, AllRead
  <1>5. ReadDefs = Definitions
    BY <1>4 DEF ReadDefs
  <1>6. k = Len(table) + 1
    BY <1>2, <1>3 DEF SymtabWritten
  <1>7. \A y \in 1..Len(table) : y < k
    BY <1>3
  <1>8. DefinedBefore(k) = DefinedEntries
    BY <1>7 DEF DefinedBefore, DefinedEntries
  <1>9. \A d \in Definitions : \E y \in DefinedEntries : Is(table[y], d)
    <2>1. ASSUME NEW d \in Definitions PROVE \E y \in DefinedEntries : Is(table[y], d)
      <3>1. PICK y \in 1..Len(table) : Is(table[y], d)
        BY <1>3, <1>4 DEF TableRight
      <3>2. y \in DefinedEntries
        BY <3>1 DEF DefinedEntries, Is
      <3> QED BY <3>1, <3>2
    <2> QED BY <2>1
  <1>10. \A y \in DefinedEntries : \E d \in Definitions : Is(table[y], d)
    BY <1>3 DEF TableRight, DefinedEntries
  <1> QED BY <1>2, <1>3, <1>5, <1>6, <1>8, <1>9, <1>10 DEF TableRight

LEMMA SymtabFollows ==
  ASSUME LinkInv, SymbolInv
  PROVE  SymtabRight
  <1> SUFFICES ASSUME Linked PROVE
        /\ Len(symtab) = Cardinality(Definitions)
        /\ {[bind |-> x.bind, sect |-> x.sect, value |-> x.value] : x \in ToSet(symtab)}
           = {[bind |-> SymAt(d).bind, sect |-> SymAt(d).sect, value |-> Home(d)] : d \in Definitions}
        /\ lastLocal = Max({x \in 1..Len(symtab) : symtab[x].bind = "local"})
    BY DEF SymtabRight
  <1> DEFINE Syms == [name : Nat, bind : {"global", "local"}, sect : Sections, value : Nat]
             Row(x) == [bind |-> x.bind, sect |-> x.sect, value |-> x.value]
             Def(d) == [bind |-> SymAt(d).bind, sect |-> SymAt(d).sect, value |-> Home(d)]
             Locals == {x \in 1..Len(symtab) : symtab[x].bind = "local"}
  <1>1. /\ SymtabWritten /\ LastLocalWritten /\ lastLocal # 0 /\ Counted
        /\ DefinedBefore(k) = DefinedEntries /\ ReadDefs = Definitions /\ symtab \in Seq(Syms)
        /\ \A d \in Definitions : \E y \in DefinedEntries : Is(table[y], d)
        /\ \A y \in DefinedEntries : y \in 1..Len(table) /\ \E d \in Definitions : Is(table[y], d)
    BY LinkedProps DEF DefinedEntries
  <1>2. Len(symtab) = Cardinality(Definitions)
    BY <1>1 DEF Counted, SymtabWritten
  <1>3. ASSUME NEW s, NEW y \in DefinedEntries, NEW d \in Definitions, WrittenFor(s, table[y]), Is(table[y], d)
        PROVE  Row(s) = Def(d)
    <2>1. Value(table[y]) = Home(d)
      BY <1>1, <1>3, EntryIsHome
    <2>2. s.bind = SymAt(d).bind /\ s.sect = SymAt(d).sect /\ s.value = Home(d)
      BY <2>1, <1>3 DEF WrittenFor, Is
    <2> QED BY <2>2
  <1>4. Len(symtab) \in Nat /\ \A x \in 1..Len(symtab) : symtab[x] \in ToSet(symtab)
    BY <1>1, SeqElements
  <1>5. \A s \in ToSet(symtab) : \E x \in 1..Len(symtab) : symtab[x] = s
    BY <1>1, SeqElements
  <1> HIDE DEF Row, Def
  <1>6. ASSUME NEW s \in ToSet(symtab) PROVE \E d \in Definitions : Row(s) = Def(d)
    <2>1. PICK y \in DefinedEntries : WrittenFor(s, table[y])
      BY <1>1, <1>5 DEF SymtabWritten
    <2>2. PICK d \in Definitions : Is(table[y], d)
      BY <1>1
    <2> QED BY <2>1, <2>2, <1>3
  <1>7. ASSUME NEW d \in Definitions PROVE \E s \in ToSet(symtab) : Row(s) = Def(d)
    <2>1. PICK y \in DefinedEntries : Is(table[y], d)
      BY <1>1
    <2>2. PICK x \in 1..Len(symtab) : WrittenFor(symtab[x], table[y])
      BY <1>1 DEF SymtabWritten
    <2> QED BY <2>1, <2>2, <1>3, <1>4
  <1>8. {Row(s) : s \in ToSet(symtab)} = {Def(d) : d \in Definitions}
    BY <1>6, <1>7
  <1>9. lastLocal = Max(Locals)
    <2>1. lastLocal \in Locals /\ \A x \in Locals : lastLocal >= x
      BY <1>1, <1>4 DEF LastLocalWritten
    <2>2. \A x \in Locals : x \in Nat
      BY <1>4
    <2> HIDE DEF Locals
    <2>3. Max(Locals) \in Locals /\ \A x \in Locals : Max(Locals) >= x
      BY <2>1 DEF Max
    <2> QED BY <2>1, <2>2, <2>3
  <1> QED BY <1>2, <1>8, <1>9 DEF Row, Def

LEMMA NamesFollow ==
  ASSUME LinkInv, SymbolInv
  PROVE  NamesRight
  <1> SUFFICES ASSUME Linked, \A x \in 1..Len(table) : table[x].defined, NEW x \in 1..Len(symtab)
               PROVE  symtab[x].name \in DOMAIN strtab /\ strtab[symtab[x].name] = table[x].name
    BY DEF NamesRight
  <1>1. /\ NamesWritten /\ StringsWritten /\ k = Len(table) + 1 /\ Len(table) \in Nat /\ table \in Seq(Entries)
    BY LinkedProps
  <1>2. Len(symtab) = k - 1 /\ symtab[x].name = StringAt[x - 1]
    BY <1>1 DEF NamesWritten
  <1>3. x \in 1..Len(table)
    BY <1>1, <1>2
  <1>4. strtab = [at \in {StringAt[y - 1] : y \in 1..Len(table)} |->
                    table[CHOOSE y \in 1..Len(table) : StringAt[y - 1] = at].name]
    BY <1>1 DEF Linked, StringsWritten
  <1>5. \A y, z \in 1..Len(table) : StringAt[y - 1] = StringAt[z - 1] => y = z
    BY <1>1, StringAtProps
  <1> DEFINE c == CHOOSE y \in 1..Len(table) : StringAt[y - 1] = StringAt[x - 1]
  <1>6. c \in 1..Len(table) /\ StringAt[c - 1] = StringAt[x - 1]
    BY <1>3
  <1>7. StringAt[x - 1] \in DOMAIN strtab /\ strtab[StringAt[x - 1]] = table[c].name
    BY <1>3, <1>4
  <1> HIDE DEF c
  <1>8. c = x
    BY <1>3, <1>5, <1>6
  <1> QED BY <1>2, <1>7, <1>8

LEMMA EntryFollows ==
  ASSUME LinkInv, SymbolInv
  PROVE  EntryRight
  <1> SUFFICES ASSUME NEW d \in Definitions, Linked, SymAt(d).name = Start,
                      \A e \in Definitions \ {d} : SymAt(e).name # Start
               PROVE  entry = Home(d)
    BY DEF EntryRight
  <1>1. /\ EntryWritten /\ DefinedBefore(k) = DefinedEntries
        /\ \A e \in Definitions : \E y \in DefinedEntries : Is(table[y], e)
        /\ \A y \in DefinedEntries : y \in 1..Len(table) /\ \E e \in Definitions : Is(table[y], e)
    BY LinkedProps DEF DefinedEntries
  <1>2. PICK z \in DefinedEntries : Is(table[z], d)
    BY <1>1
  <1>3. table[z].name = Start
    BY <1>2 DEF Is
  <1>4. PICK y \in DefinedEntries : table[y].name = Start /\ entry = Value(table[y])
    BY <1>1, <1>2, <1>3 DEF EntryWritten
  <1>5. PICK e \in Definitions : Is(table[y], e)
    BY <1>1
  <1>6. SymAt(e).name = Start
    BY <1>4, <1>5 DEF Is
  <1>7. e = d
    BY <1>6
  <1> QED BY <1>1, <1>4, <1>5, <1>7, EntryIsHome

(***************************************************************************)
(* The symbol table of the executable holds every definition once, at the  *)
(* address it is loaded at and under its own name, sh_info follows the     *)
(* last local symbol, and execution starts at _start.                      *)
(***************************************************************************)
THEOREM SymbolsAreRight == Spec => []SymbolsRight
  <1>1. LinkInv /\ SymbolInv => SymbolsRight
    BY SymtabFollows, NamesFollow, EntryFollows DEF SymbolsRight
  <1> QED BY <1>1, LinkIsSound, SymtabIsSound, PTL


-----------------------------------------------------------------------------
(***************************************************************************)
(* Archives, for any files and any size of the copy buffer.                *)
(*                                                                         *)
(* Nothing but positions is shared by nar and the linker, so the invariant *)
(* says what the headers are to a reader that knows only the rule "the     *)
(* next even position after the member": a chain that starts at the        *)
(* global header, numbers the members, and ends where the file ends.       *)
(***************************************************************************)
(* The position after the member whose header is at p, and the next header. *)
After(p) == p + HeaderSize + headers[p].size
NextHeader(p) == Even(p + HeaderSize + headers[p].size)

Special(p) == headers[p].kind = "//"

(* The members with a header, and where the archive will end. *)
Count == IF stage = "copy" THEN i ELSE i - 1
Limit == end + left

Archiving == stage \in {"next", "copy", "failed"}
Walking == stage \in {"read", "seek", "done"}

PositionsOK ==
  /\ args \in Files /\ i \in Nat \ {0}
  /\ pos \in Nat /\ left \in Nat /\ longs \in Nat /\ end \in Nat
  /\ stage \in {"next", "copy", "written", "failed"} \cup {"read", "seek", "done"}
  /\ ~Walking => pos = end /\ found = <<>>
  /\ stage # "copy" => left = 0

(* Every header is at an even position and whole, and the members do not   *)
(* overlap.                                                                *)
HeadersOK ==
  /\ \A p \in DOMAIN headers :
       /\ p \in Nat /\ p % 2 = 0 /\ headers[p].size \in Nat
       /\ headers[p].kind \in {"/n", "name/", "//"}
       /\ p + HeaderSize <= end /\ After(p) <= Limit
       /\ headers[p].member \in Nat
  /\ \A p, q \in DOMAIN headers : p < q => After(p) <= q

(* The first header follows the global header and is that of a member. *)
ChainStarts ==
  /\ DOMAIN headers = {} => Count = 0 /\ Limit = GlobalHeader /\ longs = 0
  /\ DOMAIN headers # {} =>
       /\ GlobalHeader \in DOMAIN headers
       /\ ~Special(GlobalHeader) /\ headers[GlobalHeader].member = 1

(* At the next even position there is a header, unless the archive ends    *)
(* here; the table of long names comes last.                               *)
ChainContinues ==
  \A p \in DOMAIN headers :
    IF After(p) = Limit THEN ~Special(p) => headers[p].member = Count
    ELSE \E q \in DOMAIN headers :
           /\ q = NextHeader(p) /\ ~Special(p)
           /\ IF Special(q) THEN headers[p].member = Count
              ELSE headers[q].member = headers[p].member + 1

NoTableYet == Archiving => \A p \in DOMAIN headers : ~Special(p)

FirstMembers(m) == [x \in 1..m |-> x]

(* The reader is after the global header with nothing found, or after the  *)
(* member at p with all members up to that one.                            *)
Reached(at) ==
  \/ at = GlobalHeader /\ found = <<>>
  \/ \E p \in DOMAIN headers :
       /\ at = After(p)
       /\ found = FirstMembers(IF Special(p) THEN Count ELSE headers[p].member)

ReaderOK ==
  /\ stage \in {"read", "done"} => Reached(pos)
  /\ stage = "seek" => start \in Nat /\ Reached(start)
  /\ stage = "done" => ReaderAligned(pos) + HeaderSize > end

ArchiveInv ==
  /\ PositionsOK /\ HeadersOK /\ ChainStarts /\ ChainContinues /\ NoTableYet /\ ReaderOK

-----------------------------------------------------------------------------
LEMMA EvenProps ==
  ASSUME NEW p \in Nat
  PROVE  Even(p) \in Nat /\ Even(p) % 2 = 0 /\ p <= Even(p) /\ Even(p) <= p + 1 /\ (p % 2 = 0 => Even(p) = p)
  BY DEF Even

(* What a header written at the next even position leaves in the archive. *)
LEMMA HeaderAdded ==
  ASSUME ArchiveInv, stage = "next", NEW h,
         headers' = [x \in DOMAIN headers \cup {WriterAligned(pos)} |->
                       IF x = WriterAligned(pos) THEN h ELSE headers[x]]
  PROVE  LET q == Even(end)
         IN  /\ q = WriterAligned(pos)
             /\ q \in Nat /\ q % 2 = 0 /\ end <= q /\ q <= end + 1
             /\ q \notin DOMAIN headers
             /\ DOMAIN headers' = DOMAIN headers \cup {q}
             /\ \A p \in DOMAIN headers : headers'[p] = headers[p]
             /\ headers'[q] = h
             /\ DOMAIN headers = {} => q = GlobalHeader
  <1> DEFINE q == Even(end)
  <1>1. pos = end /\ end \in Nat /\ left = 0
    BY DEF ArchiveInv, PositionsOK, Walking
  <1>2. q \in Nat /\ q % 2 = 0 /\ end <= q /\ q <= end + 1 /\ q = WriterAligned(pos)
    BY <1>1, EvenProps DEF WriterAligned
  <1>3. q \notin DOMAIN headers
    <2> SUFFICES ASSUME q \in DOMAIN headers PROVE FALSE
      OBVIOUS
    <2>1. q + HeaderSize <= end
      BY DEF ArchiveInv, HeadersOK
    <2> QED
      BY <1>1, <1>2, <2>1 DEF HeaderSize
  <1>4. DOMAIN headers = {} => q = GlobalHeader
    <2> SUFFICES ASSUME DOMAIN headers = {} PROVE q = GlobalHeader
      OBVIOUS
    <2>1. end = GlobalHeader
      BY <1>1 DEF ArchiveInv, ChainStarts, Limit, GlobalHeader
    <2> QED
      BY <2>1 DEF Even, GlobalHeader
  <1> HIDE DEF q
  <1>5. /\ DOMAIN headers' = DOMAIN headers \cup {q}
        /\ \A p \in DOMAIN headers : headers'[p] = headers[p]
        /\ headers'[q] = h
    BY <1>2, <1>3
  <1> QED
    BY <1>2, <1>3, <1>4, <1>5 DEF q

(* A header added to the archive keeps the chain. *)
LEMMA ChainGrows ==
  ASSUME ArchiveInv, stage = "next", NEW h,
         headers' = [x \in DOMAIN headers \cup {WriterAligned(pos)} |->
                       IF x = WriterAligned(pos) THEN h ELSE headers[x]],
         h.size \in Nat, h.kind \in {"/n", "name/", "//"}, h.member \in Nat,
         end' \in Nat, left' \in Nat, i' = i,
         WriterAligned(pos) + HeaderSize <= end',
         Limit' = WriterAligned(pos) + HeaderSize + h.size,
         \/ h.kind # "//" /\ h.member = i /\ Count' = i
         \/ h.kind = "//" /\ Count' = i - 1 /\ longs # 0
  PROVE  HeadersOK' /\ ChainStarts' /\ ChainContinues'
  <1> DEFINE D == DOMAIN headers
  <1>0. PICK q : q = Even(end)
    OBVIOUS
  <1>1. /\ q = WriterAligned(pos)
        /\ q \in Nat /\ q % 2 = 0 /\ end <= q /\ q <= end + 1
        /\ q \notin D
        /\ DOMAIN headers' = D \cup {q}
        /\ \A p \in D : headers'[p] = headers[p]
        /\ headers'[q] = h
        /\ D = {} => q = GlobalHeader
    BY <1>0, HeaderAdded
  <1>2. end \in Nat /\ left = 0 /\ Limit = end /\ i \in Nat \ {0} /\ Count = i - 1
    BY DEF ArchiveInv, PositionsOK, Limit, Count
  <1>3. \A p \in D : After(p)' = After(p) /\ (Special(p)' <=> Special(p))
    BY <1>1 DEF After, Special
  <1>4. After(q)' = Limit' /\ (Special(q)' <=> h.kind = "//")
    BY <1>1 DEF After, Special
  <1>5. \A p \in D : /\ p \in Nat /\ p % 2 = 0 /\ headers[p].size \in Nat
                     /\ headers[p].kind \in {"/n", "name/", "//"}
                     /\ p + HeaderSize <= end /\ After(p) <= end /\ After(p) \in Nat
                     /\ headers[p].member \in Nat /\ ~Special(p)
    BY <1>2 DEF ArchiveInv, HeadersOK, NoTableYet, Archiving, After, HeaderSize
  <1>6. q + HeaderSize <= end' /\ Limit' = q + HeaderSize + h.size /\ q <= Limit' /\ Limit' \in Nat
    BY <1>1 DEF HeaderSize
  <1>7. HeadersOK'
    <2>1. ASSUME NEW p \in DOMAIN headers'
          PROVE  /\ p \in Nat /\ p % 2 = 0 /\ headers'[p].size \in Nat
                 /\ headers'[p].kind \in {"/n", "name/", "//"}
                 /\ p + HeaderSize <= end' /\ After(p)' <= Limit'
                 /\ headers'[p].member \in Nat
      <3>1. CASE p = q
        BY <1>1, <1>4, <1>6, <3>1
      <3>2. CASE p \in D
        <4>1. headers'[p] = headers[p] /\ After(p)' = After(p)
          BY <1>1, <1>3, <3>2
        <4>2. /\ p \in Nat /\ p % 2 = 0 /\ headers[p].size \in Nat
              /\ headers[p].kind \in {"/n", "name/", "//"}
              /\ p + HeaderSize <= end /\ After(p) <= end /\ After(p) \in Nat
              /\ headers[p].member \in Nat
          BY <1>5, <3>2
        <4>3. end <= end' /\ end <= Limit'
          BY <1>1, <1>2, <1>6 DEF HeaderSize
        <4> QED
          BY <1>2, <1>6, <4>1, <4>2, <4>3 DEF HeaderSize
      <3> QED
        BY <1>1, <3>1, <3>2
    <2>2. ASSUME NEW p \in DOMAIN headers', NEW r \in DOMAIN headers', p < r
          PROVE  After(p)' <= r
      <3>1. p \in D
        <4> SUFFICES ASSUME p = q PROVE FALSE
          BY <1>1
        <4>1. r \in D
          BY <1>1, <2>2
        <4>2. r \in Nat /\ r + HeaderSize <= end
          BY <1>5, <4>1
        <4> QED
          BY <1>1, <1>2, <2>2, <4>2 DEF HeaderSize
      <3>2. CASE r \in D
        BY <1>3, <2>2, <3>1, <3>2 DEF ArchiveInv, HeadersOK
      <3>3. CASE r = q
        BY <1>1, <1>2, <1>3, <1>5, <3>1, <3>3
      <3> QED
        BY <1>1, <3>2, <3>3
    <2> QED
      BY <2>1, <2>2 DEF HeadersOK
  <1>8. ChainStarts'
    <2>1. DOMAIN headers' # {}
      BY <1>1
    <2>2. CASE D = {}
      <3>1. q = GlobalHeader
        BY <1>1, <2>2
      <3>2. i = 1 /\ longs = 0
        BY <1>2, <2>2 DEF ArchiveInv, ChainStarts
      <3> QED
        BY <1>1, <1>4, <2>1, <3>1, <3>2 DEF ChainStarts
    <2>3. CASE D # {}
      <3>1. GlobalHeader \in D /\ ~Special(GlobalHeader) /\ headers[GlobalHeader].member = 1
        BY <2>3 DEF ArchiveInv, ChainStarts
      <3>2. headers'[GlobalHeader] = headers[GlobalHeader] /\ ~Special(GlobalHeader)'
        BY <1>1, <1>3, <3>1
      <3> QED
        BY <1>1, <2>1, <3>1, <3>2 DEF ChainStarts
    <2> QED
      BY <2>2, <2>3
  <1>9. ChainContinues'
    <2> SUFFICES ASSUME NEW p \in DOMAIN headers'
                 PROVE  IF After(p)' = Limit' THEN ~Special(p)' => headers'[p].member = Count'
                        ELSE \E r \in DOMAIN headers' :
                               /\ r = NextHeader(p)' /\ ~Special(p)'
                               /\ IF Special(r)' THEN headers'[p].member = Count'
                                  ELSE headers'[r].member = headers'[p].member + 1
      BY DEF ChainContinues
    <2>1. CASE p = q
      BY <1>1, <1>4, <2>1
    <2>2. CASE p \in D
      <3>1. After(p)' = After(p) /\ After(p) <= end /\ After(p) \in Nat /\ end < Limit'
            /\ headers'[p] = headers[p] /\ ~Special(p)' /\ ~Special(p)
        <4>1. After(p)' = After(p) /\ headers'[p] = headers[p] /\ ~Special(p) /\ ~Special(p)'
          BY <1>1, <1>3, <1>5, <2>2
        <4>2. After(p) <= end /\ After(p) \in Nat
          BY <1>5, <2>2
        <4>3. end < Limit'
          BY <1>1, <1>2, <1>6 DEF HeaderSize
        <4> QED
          BY <4>1, <4>2, <4>3
      <3>2. After(p)' # Limit'
        BY <1>2, <1>6, <3>1
      <3>3. CASE After(p) = end
        <4>1. NextHeader(p)' = q
          BY <1>0, <3>1, <3>3 DEF NextHeader, After
        <4>2. headers[p].member = i - 1
          BY <1>2, <2>2, <3>1, <3>3 DEF ArchiveInv, ChainContinues
        <4>3. IF Special(q)' THEN headers'[p].member = Count'
              ELSE headers'[q].member = headers'[p].member + 1
          BY <1>1, <1>2, <1>4, <3>1, <4>2
        <4> QED
          BY <1>1, <3>1, <3>2, <4>1, <4>3
      <3>4. CASE After(p) # end
        <4>1. PICK r \in D : /\ r = NextHeader(p)
                             /\ IF Special(r) THEN headers[p].member = Count
                                ELSE headers[r].member = headers[p].member + 1
          BY <1>2, <2>2, <3>4 DEF ArchiveInv, ChainContinues
        <4>2. ~Special(r) /\ ~Special(r)' /\ headers'[r] = headers[r] /\ r \in DOMAIN headers'
          BY <1>1, <1>3, <1>5, <4>1
        <4>3. NextHeader(p)' = r
          BY <3>1, <4>1 DEF NextHeader
        <4> QED
          BY <3>1, <3>2, <4>1, <4>2, <4>3
      <3> QED
        BY <3>3, <3>4
    <2> QED
      BY <1>1, <2>1, <2>2
  <1> QED
    BY <1>7, <1>8, <1>9

-----------------------------------------------------------------------------
(* The archive as the actions that write no header leave it. *)
LEMMA SameHeaders ==
  ASSUME ArchiveInv, headers' = headers, Count' = Count, Limit' = Limit, longs' = longs,
         end' \in Nat, end <= end'
  PROVE  HeadersOK' /\ ChainStarts' /\ ChainContinues'
  <1>1. end \in Nat
    BY DEF ArchiveInv, PositionsOK
  <1>2. \A p : After(p)' = After(p) /\ NextHeader(p)' = NextHeader(p) /\ Special(p)' = Special(p)
    BY DEF After, NextHeader, Special
  <1>3. HeadersOK'
    <2>1. \A p \in DOMAIN headers : p \in Nat /\ p + HeaderSize <= end'
      BY <1>1 DEF ArchiveInv, HeadersOK, HeaderSize
    <2> QED
      BY <1>2, <2>1 DEF ArchiveInv, HeadersOK
  <1>4. ChainStarts'
    BY <1>2 DEF ArchiveInv, ChainStarts
  <1>5. ChainContinues'
    BY <1>2 DEF ArchiveInv, ChainContinues
  <1> QED
    BY <1>3, <1>4, <1>5

LEMMA InitArchive ==
  ASSUME ArchiveInit
  PROVE  ArchiveInv
  <1>1. DOMAIN headers = {}
    BY DEF ArchiveInit, ArchiveInitWith
  <1>2. PositionsOK
    BY DEF ArchiveInit, ArchiveInitWith, PositionsOK, Walking, GlobalHeader
  <1>3. HeadersOK /\ ChainContinues /\ NoTableYet
    BY <1>1 DEF HeadersOK, ChainContinues, NoTableYet
  <1>4. ChainStarts
    BY <1>1 DEF ArchiveInit, ArchiveInitWith, ChainStarts, Count, Limit, GlobalHeader
  <1>5. ReaderOK
    BY DEF ArchiveInit, ArchiveInitWith, ReaderOK
  <1> QED
    BY <1>2, <1>3, <1>4, <1>5 DEF ArchiveInv

LEMMA ArgProps ==
  ASSUME ArchiveInv, i <= Len(args), args[i] # Absent
  PROVE  args[i].long \in BOOLEAN /\ args[i].size \in Nat
  <1>1. args \in Seq([long : BOOLEAN, size : Nat] \cup {Absent}) /\ i \in Nat \ {0}
    BY ArchiveAssumption DEF ArchiveInv, PositionsOK
  <1>2. args[i] \in [long : BOOLEAN, size : Nat] \cup {Absent}
    BY <1>1
  <1> QED
    BY <1>2

LEMMA AddMemberKeeps ==
  ASSUME ArchiveInv, AddMember
  PROVE  ArchiveInv'
  <1> DEFINE h == [kind |-> IF args[i].long THEN "/n" ELSE "name/", size |-> args[i].size, member |-> i]
  <1>1. args[i].long \in BOOLEAN /\ args[i].size \in Nat
    BY ArgProps DEF AddMember
  <1>2. /\ stage = "next" /\ stage' = "copy" /\ i' = i /\ args' = args /\ found' = found
        /\ headers' = [x \in DOMAIN headers \cup {WriterAligned(pos)} |->
                         IF x = WriterAligned(pos) THEN h ELSE headers[x]]
        /\ pos' = WriterAligned(pos) + HeaderSize /\ end' = WriterAligned(pos) + HeaderSize
        /\ left' = args[i].size
        /\ longs' = IF args[i].long THEN longs + LongName ELSE longs
    BY DEF AddMember, WriteHeader
  <1>3. pos \in Nat /\ i \in Nat \ {0} /\ longs \in Nat
    BY DEF ArchiveInv, PositionsOK
  <1>4. WriterAligned(pos) \in Nat
    BY <1>3, EvenProps DEF WriterAligned
  <1>5. /\ h.size \in Nat /\ h.kind \in {"/n", "name/", "//"} /\ h.member \in Nat
        /\ h.kind # "//" /\ h.member = i /\ h.size = args[i].size
    BY <1>1, <1>3
  <1>6. end' \in Nat /\ left' \in Nat /\ pos' \in Nat
    BY <1>1, <1>2, <1>4 DEF HeaderSize
  <1>7. WriterAligned(pos) + HeaderSize <= end' /\ Limit' = WriterAligned(pos) + HeaderSize + args[i].size
    BY <1>1, <1>2, <1>4 DEF Limit, HeaderSize
  <1>8. Count' = i
    BY <1>2 DEF Count
  <1>9. NoTableYet'
    <2>1. \A p \in DOMAIN headers : ~Special(p)
      BY <1>2 DEF ArchiveInv, NoTableYet, Archiving
    <2>2. \A p \in DOMAIN headers' : headers'[p].kind # "//"
      BY <1>2, <1>5, <2>1 DEF Special
    <2> QED
      BY <2>2 DEF NoTableYet, Special
  <1> HIDE DEF h
  <1>10. HeadersOK' /\ ChainStarts' /\ ChainContinues'
    BY <1>2, <1>5, <1>6, <1>7, <1>8, ChainGrows
  <1>11. longs' \in Nat
    BY <1>1, <1>2, <1>3 DEF LongName
  <1>12. PositionsOK'
    <2>1. found = <<>> /\ args \in Files
      BY <1>2 DEF ArchiveInv, PositionsOK, Walking
    <2> QED
      BY <1>2, <1>3, <1>6, <1>11, <2>1 DEF PositionsOK, Walking
  <1>13. ReaderOK'
    BY <1>2 DEF ReaderOK
  <1> QED
    BY <1>9, <1>10, <1>12, <1>13 DEF ArchiveInv

LEMMA WriteNamesKeeps ==
  ASSUME ArchiveInv, WriteNames
  PROVE  ArchiveInv'
  <1> DEFINE h == [kind |-> "//", size |-> longs, member |-> 0]
  <1>1. pos \in Nat /\ i \in Nat \ {0} /\ longs \in Nat /\ left = 0 /\ args \in Files /\ found = <<>>
    BY DEF ArchiveInv, PositionsOK, WriteNames, Walking
  <1>2. WriterAligned(pos) \in Nat
    BY <1>1, EvenProps DEF WriterAligned
  <1>3. /\ stage = "next" /\ stage' = "written" /\ i' = i /\ args' = args /\ found' = found
        /\ headers' = [x \in DOMAIN headers \cup {WriterAligned(pos)} |->
                         IF x = WriterAligned(pos) THEN h ELSE headers[x]]
        /\ pos' = WriterAligned(pos) + HeaderSize + longs /\ end' = pos'
        /\ left' = left /\ longs' = longs /\ longs # 0
    BY DEF WriteNames
  <1>4. h.size = longs /\ h.kind = "//" /\ h.member = 0
    OBVIOUS
  <1> HIDE DEF h
  <1>5. /\ pos' \in Nat /\ end' \in Nat /\ left' \in Nat
        /\ WriterAligned(pos) + HeaderSize <= end'
        /\ Limit' = WriterAligned(pos) + HeaderSize + h.size
    BY <1>1, <1>2, <1>3, <1>4 DEF Limit, HeaderSize
  <1>6. Count' = i - 1
    BY <1>3 DEF Count
  <1>7. HeadersOK' /\ ChainStarts' /\ ChainContinues'
    BY <1>1, <1>3, <1>4, <1>5, <1>6, ChainGrows
  <1>8. PositionsOK' /\ ReaderOK' /\ NoTableYet'
    BY <1>1, <1>3, <1>5 DEF PositionsOK, ReaderOK, NoTableYet, Walking, Archiving
  <1> QED
    BY <1>7, <1>8 DEF ArchiveInv

LEMMA CopyChunkKeeps ==
  ASSUME ArchiveInv, CopyChunk
  PROVE  ArchiveInv'
  <1> DEFINE n == IF left < ChunkSize THEN left ELSE ChunkSize
  <1>1. /\ pos \in Nat /\ end \in Nat /\ left \in Nat /\ longs \in Nat /\ i \in Nat \ {0}
        /\ pos = end /\ found = <<>> /\ args \in Files
    BY DEF ArchiveInv, PositionsOK, CopyChunk, Walking
  <1>2. n \in Nat /\ n <= left
    BY <1>1, ArchiveAssumption
  <1>3. /\ stage = "copy" /\ stage' = stage /\ i' = i /\ args' = args /\ found' = found
        /\ headers' = headers /\ longs' = longs
        /\ left' = left - n /\ pos' = pos + n /\ end' = end + n
    BY DEF CopyChunk
  <1> HIDE DEF n
  <1>4. left' \in Nat /\ pos' \in Nat /\ end' \in Nat /\ end <= end' /\ Limit' = Limit /\ pos' = end'
    BY <1>1, <1>2, <1>3 DEF Limit
  <1>5. Count' = Count
    BY <1>3 DEF Count
  <1>6. HeadersOK' /\ ChainStarts' /\ ChainContinues'
    BY <1>3, <1>4, <1>5, SameHeaders
  <1>7. PositionsOK' /\ ReaderOK'
    BY <1>1, <1>3, <1>4 DEF PositionsOK, ReaderOK, Walking
  <1>8. NoTableYet'
    BY <1>3 DEF ArchiveInv, NoTableYet, Archiving, Special
  <1> QED
    BY <1>6, <1>7, <1>8 DEF ArchiveInv

(* The writer's other steps change nothing but the stage, and the file it  *)
(* is at.                                                                  *)
LEMMA WriterStepKeeps ==
  ASSUME ArchiveInv, CannotOpen \/ Copied \/ NoNames
  PROVE  ArchiveInv'
  <1>1. /\ pos' = pos /\ end' = end /\ left' = left /\ longs' = longs /\ headers' = headers
        /\ args' = args /\ found' = found /\ left = 0
        /\ stage \in {"next", "copy"} /\ stage' \in {"next", "failed", "written"}
        /\ i' = IF stage = "copy" THEN i + 1 ELSE i
    BY DEF CannotOpen, Copied, NoNames, ArchiveInv, PositionsOK
  <1>2. /\ pos \in Nat /\ end \in Nat /\ left \in Nat /\ longs \in Nat /\ i \in Nat \ {0}
        /\ pos = end /\ found = <<>> /\ args \in Files
    BY <1>1 DEF ArchiveInv, PositionsOK, Walking
  <1>3. Count' = Count /\ Limit' = Limit
    BY <1>1, <1>2 DEF Count, Limit
  <1>4. HeadersOK' /\ ChainStarts' /\ ChainContinues'
    BY <1>1, <1>2, <1>3, SameHeaders
  <1>5. i' \in Nat \ {0}
    BY <1>1, <1>2
  <1>6. PositionsOK' /\ ReaderOK'
    BY <1>1, <1>2, <1>5 DEF PositionsOK, ReaderOK, Walking
  <1>7. NoTableYet'
    BY <1>1 DEF ArchiveInv, NoTableYet, Archiving, Special
  <1> QED
    BY <1>4, <1>6, <1>7 DEF ArchiveInv

-----------------------------------------------------------------------------
(* What the reader's steps leave alone. *)
LEMMA ReaderStep ==
  ASSUME ArchiveInv, stage \in {"written", "failed", "read", "seek", "done"}, Walking',
         args' = args, i' = i, left' = left, longs' = longs, headers' = headers, end' = end,
         pos' \in Nat
  PROVE  /\ HeadersOK' /\ ChainStarts' /\ ChainContinues' /\ NoTableYet' /\ PositionsOK'
         /\ Count' = Count /\ \A p : After(p)' = After(p) /\ Special(p)' = Special(p)
  <1>1. Count' = Count /\ Limit' = Limit
    BY DEF Count, Limit, Walking
  <1>2. end \in Nat
    BY DEF ArchiveInv, PositionsOK
  <1>3. HeadersOK' /\ ChainStarts' /\ ChainContinues'
    BY <1>1, <1>2, SameHeaders
  <1>4. NoTableYet'
    BY DEF NoTableYet, Archiving, Walking
  <1>5. PositionsOK'
    BY DEF ArchiveInv, PositionsOK, Walking
  <1>6. \A p : After(p)' = After(p) /\ Special(p)' = Special(p)
    BY DEF After, Special
  <1> QED
    BY <1>1, <1>3, <1>4, <1>5, <1>6

LEMMA OpenArchiveKeeps ==
  ASSUME ArchiveInv, OpenArchive
  PROVE  ArchiveInv'
  <1>1. /\ stage \in {"written", "failed"} /\ stage' = "read" /\ pos' = GlobalHeader
        /\ args' = args /\ i' = i /\ left' = left /\ longs' = longs /\ headers' = headers
        /\ end' = end /\ found' = found
    BY DEF OpenArchive
  <1>2. found = <<>>
    BY <1>1 DEF ArchiveInv, PositionsOK, Walking
  <1>3. HeadersOK' /\ ChainStarts' /\ ChainContinues' /\ NoTableYet' /\ PositionsOK'
    BY <1>1, ReaderStep DEF Walking, GlobalHeader
  <1>4. ReaderOK'
    BY <1>1, <1>2 DEF ReaderOK, Reached
  <1> QED
    BY <1>3, <1>4 DEF ArchiveInv

LEMMA SkipMemberKeeps ==
  ASSUME ArchiveInv, SkipMember
  PROVE  ArchiveInv'
  <1>1. /\ stage = "seek" /\ stage' = "read" /\ pos' = start
        /\ args' = args /\ i' = i /\ left' = left /\ longs' = longs /\ headers' = headers
        /\ end' = end /\ found' = found
    BY DEF SkipMember
  <1>2. start \in Nat /\ Reached(start)
    BY <1>1 DEF ArchiveInv, ReaderOK
  <1>3. /\ HeadersOK' /\ ChainStarts' /\ ChainContinues' /\ NoTableYet' /\ PositionsOK'
        /\ Count' = Count /\ \A p : After(p)' = After(p) /\ Special(p)' = Special(p)
    BY <1>1, <1>2, ReaderStep DEF Walking
  <1>4. Reached(pos)'
    BY <1>1, <1>2, <1>3 DEF Reached
  <1>5. ReaderOK'
    BY <1>1, <1>4 DEF ReaderOK
  <1> QED
    BY <1>3, <1>5 DEF ArchiveInv

LEMMA EndOfArchiveKeeps ==
  ASSUME ArchiveInv, EndOfArchive
  PROVE  ArchiveInv'
  <1>1. /\ stage = "read" /\ stage' = "done" /\ pos' = pos
        /\ args' = args /\ i' = i /\ left' = left /\ longs' = longs /\ headers' = headers
        /\ end' = end /\ found' = found /\ ReaderAligned(pos) + HeaderSize > end
    BY DEF EndOfArchive
  <1>2. Reached(pos) /\ pos \in Nat
    BY <1>1 DEF ArchiveInv, ReaderOK, PositionsOK
  <1>3. /\ HeadersOK' /\ ChainStarts' /\ ChainContinues' /\ NoTableYet' /\ PositionsOK'
        /\ Count' = Count /\ \A p : After(p)' = After(p) /\ Special(p)' = Special(p)
    BY <1>1, <1>2, ReaderStep DEF Walking
  <1>4. Reached(pos)'
    BY <1>1, <1>2, <1>3 DEF Reached
  <1>5. (ReaderAligned(pos) + HeaderSize > end)'
    BY <1>1 DEF ReaderAligned, Even
  <1>6. ReaderOK'
    BY <1>1, <1>4, <1>5 DEF ReaderOK
  <1> QED
    BY <1>3, <1>6 DEF ArchiveInv

(* At q is the header of the member after the ones found or of the table   *)
(* of long names, unless the archive ends there.                           *)
ReadNext(q) ==
  IF q + HeaderSize <= end
  THEN /\ q \in DOMAIN headers
       /\ IF Special(q) THEN found = FirstMembers(Count)
          ELSE \E m \in Nat : found = FirstMembers(m) /\ headers[q].member = m + 1
  ELSE found = FirstMembers(Count)

LEMMA NextIsHeader ==
  ASSUME ArchiveInv, stage \in {"read", "done"}
  PROVE  ReadNext(ReaderAligned(pos))
  <1> DEFINE q == ReaderAligned(pos)
  <1>1. pos \in Nat /\ end \in Nat /\ left = 0 /\ Limit = end /\ i \in Nat \ {0} /\ Count = i - 1
    BY DEF ArchiveInv, PositionsOK, Limit, Count
  <1>2. q \in Nat /\ q = Even(pos) /\ pos <= q
    BY <1>1, EvenProps DEF ReaderAligned
  <1>3. Reached(pos)
    BY DEF ArchiveInv, ReaderOK
  <1>4. FirstMembers(0) = <<>>
    BY DEF FirstMembers
  <1>5. CASE pos = GlobalHeader /\ found = <<>>
    <2>1. q = GlobalHeader
      BY <1>2, <1>5 DEF Even, GlobalHeader
    <2>2. CASE DOMAIN headers = {}
      <3>1. Count = 0 /\ end = GlobalHeader
        BY <1>1, <2>2 DEF ArchiveInv, ChainStarts
      <3>2. ~(q + HeaderSize <= end)
        BY <2>1, <3>1 DEF GlobalHeader, HeaderSize
      <3> QED
        BY <1>4, <1>5, <3>1, <3>2 DEF ReadNext
    <2>3. CASE DOMAIN headers # {}
      <3>1. q \in DOMAIN headers /\ ~Special(q) /\ headers[q].member = 1
        BY <2>1, <2>3 DEF ArchiveInv, ChainStarts
      <3>2. q + HeaderSize <= end
        BY <3>1 DEF ArchiveInv, HeadersOK
      <3>3. found = FirstMembers(0) /\ headers[q].member = 0 + 1
        BY <1>4, <1>5, <3>1
      <3> QED
        BY <3>1, <3>2, <3>3 DEF ReadNext
    <2> QED
      BY <2>2, <2>3
  <1>6. ASSUME NEW p \in DOMAIN headers, pos = After(p),
               found = FirstMembers(IF Special(p) THEN Count ELSE headers[p].member)
        PROVE  ReadNext(q)
    <2>1. headers[p].member \in Nat /\ q = NextHeader(p)
      BY <1>2, <1>6 DEF ArchiveInv, HeadersOK, After, NextHeader
    <2>2. CASE pos = end
      <3>1. ~Special(p) => headers[p].member = Count
        BY <1>1, <1>6, <2>2 DEF ArchiveInv, ChainContinues
      <3>2. ~(q + HeaderSize <= end)
        BY <1>1, <1>2, <2>2 DEF HeaderSize
      <3> QED
        BY <1>6, <3>1, <3>2 DEF ReadNext
    <2>3. CASE pos # end
      <3>1. /\ q \in DOMAIN headers /\ ~Special(p)
            /\ IF Special(q) THEN headers[p].member = Count
               ELSE headers[q].member = headers[p].member + 1
        BY <1>1, <1>6, <2>1, <2>3 DEF ArchiveInv, ChainContinues
      <3>2. q + HeaderSize <= end
        BY <3>1 DEF ArchiveInv, HeadersOK
      <3>3. found = FirstMembers(headers[p].member)
        BY <1>6, <3>1
      <3> QED
        BY <2>1, <3>1, <3>2, <3>3 DEF ReadNext
    <2> QED
      BY <2>2, <2>3
  <1> QED
    BY <1>3, <1>5, <1>6 DEF Reached

LEMMA OneMoreMember ==
  ASSUME NEW m \in Nat
  PROVE  Append(FirstMembers(m), m + 1) = FirstMembers(m + 1)
  <1>1. FirstMembers(m) \in Seq(Nat) /\ Len(FirstMembers(m)) = m
    BY DEF FirstMembers
  <1>2. FirstMembers(m + 1) \in Seq(Nat) /\ Len(FirstMembers(m + 1)) = m + 1
    BY DEF FirstMembers
  <1>3. \A x \in 1..(m + 1) : Append(FirstMembers(m), m + 1)[x] = FirstMembers(m + 1)[x]
    BY <1>1 DEF FirstMembers
  <1>4. Append(FirstMembers(m), m + 1) \in Seq(Nat) /\ Len(Append(FirstMembers(m), m + 1)) = m + 1
    BY <1>1
  <1> QED
    BY <1>2, <1>3, <1>4

LEMMA ReadHeaderKeeps ==
  ASSUME ArchiveInv, ReadHeader
  PROVE  ArchiveInv'
  <1>0. PICK q : q = ReaderAligned(pos)
    OBVIOUS
  <1>1. /\ stage = "read" /\ stage' = "seek" /\ pos' = pos /\ q + HeaderSize <= end
        /\ args' = args /\ i' = i /\ left' = left /\ longs' = longs /\ headers' = headers
        /\ end' = end /\ start' = After(q) /\ q \in DOMAIN headers
        /\ found' = IF headers[q].kind \in SpecialNames THEN found ELSE Append(found, headers[q].member)
    BY <1>0 DEF ReadHeader, After
  <1>2. q \in Nat /\ headers[q].size \in Nat /\ headers[q].kind \in {"/n", "name/", "//"} /\ pos \in Nat
    BY <1>1 DEF ArchiveInv, HeadersOK, PositionsOK
  <1>3. headers[q].kind \in SpecialNames <=> Special(q)
    BY <1>2 DEF SpecialNames, Special
  <1>4. /\ HeadersOK' /\ ChainStarts' /\ ChainContinues' /\ NoTableYet' /\ PositionsOK'
        /\ Count' = Count /\ \A p : After(p)' = After(p) /\ Special(p)' = Special(p)
    BY <1>1, <1>2, ReaderStep DEF Walking
  <1>5. found' = FirstMembers(IF Special(q) THEN Count ELSE headers[q].member)
    <2>1. CASE Special(q)
      BY <1>0, <1>1, <1>3, <2>1, NextIsHeader DEF ReadNext
    <2>2. CASE ~Special(q)
      <3>1. PICK m \in Nat : found = FirstMembers(m) /\ headers[q].member = m + 1
        BY <1>0, <1>1, <2>2, NextIsHeader DEF ReadNext
      <3>2. found' = Append(FirstMembers(m), m + 1)
        BY <1>1, <1>3, <2>2, <3>1
      <3> QED
        BY <2>2, <3>1, <3>2, OneMoreMember
    <2> QED
      BY <2>1, <2>2
  <1>6. Reached(start)'
    <2>1. start' = After(q)' /\ q \in DOMAIN headers'
      BY <1>1, <1>4
    <2>2. found' = FirstMembers(IF Special(q)' THEN Count' ELSE headers'[q].member)
      BY <1>1, <1>4, <1>5
    <2> QED
      BY <2>1, <2>2 DEF Reached, FirstMembers
  <1>7. start' \in Nat
    BY <1>1, <1>2 DEF After, HeaderSize
  <1>8. ReaderOK'
    BY <1>1, <1>6, <1>7 DEF ReaderOK
  <1> QED
    BY <1>4, <1>8 DEF ArchiveInv

LEMMA ArchiveStutter ==
  ASSUME ArchiveInv, UNCHANGED archiveVars
  PROVE  ArchiveInv'
  <1>1. /\ args' = args /\ i' = i /\ pos' = pos /\ left' = left /\ longs' = longs
        /\ headers' = headers /\ end' = end /\ stage' = stage /\ found' = found /\ start' = start
    BY DEF archiveVars
  <1>2. PositionsOK' /\ HeadersOK'
    BY <1>1 DEF ArchiveInv, PositionsOK, Walking, HeadersOK, After, Limit
  <1>3. ChainStarts' /\ ChainContinues'
    BY <1>1 DEF ArchiveInv, ChainStarts, ChainContinues, After, NextHeader, Special, Limit, Count
  <1>4. NoTableYet' /\ ReaderOK'
    BY <1>1 DEF ArchiveInv, NoTableYet, ReaderOK, Archiving, Special, Reached, Count, After, ReaderAligned, Even
  <1> QED
    BY <1>2, <1>3, <1>4 DEF ArchiveInv

(* The chain of headers that nar writes and the linker walks. *)
THEOREM ArchiveIsChain == ArchiveSpec => []ArchiveInv
  <1>1. ArchiveInit => ArchiveInv
    BY InitArchive
  <1>2. ArchiveInv /\ [ArchiveNext]_archiveVars => ArchiveInv'
    <2> SUFFICES ASSUME ArchiveInv, [ArchiveNext]_archiveVars PROVE ArchiveInv'
      OBVIOUS
    <2>1. CASE AddMember
      BY <2>1, AddMemberKeeps
    <2>2. CASE CannotOpen \/ Copied \/ NoNames
      BY <2>2, WriterStepKeeps
    <2>3. CASE CopyChunk
      BY <2>3, CopyChunkKeeps
    <2>4. CASE WriteNames
      BY <2>4, WriteNamesKeeps
    <2>5. CASE OpenArchive
      BY <2>5, OpenArchiveKeeps
    <2>6. CASE EndOfArchive
      BY <2>6, EndOfArchiveKeeps
    <2>7. CASE ReadHeader
      BY <2>7, ReadHeaderKeeps
    <2>8. CASE SkipMember
      BY <2>8, SkipMemberKeeps
    <2>9. CASE AllMembersRead \/ UNCHANGED archiveVars
      BY <2>9, ArchiveStutter DEF AllMembersRead
    <2> QED
      BY <2>1, <2>2, <2>3, <2>4, <2>5, <2>6, <2>7, <2>8, <2>9 DEF ArchiveNext
  <1> QED
    BY <1>1, <1>2, PTL DEF ArchiveSpec

(***************************************************************************)
(* The linker finds exactly the members nar wrote, in order, for files of  *)
(* every size and number and any buffer: what nar writes and what          *)
(* link_elf_executable reads agree on every header's position.             *)
(***************************************************************************)
THEOREM MembersReadBack == ArchiveSpec => []ReadBack
  <1>1. ArchiveInv => ReadBack
    <2> SUFFICES ASSUME ArchiveInv PROVE ReadBack
      OBVIOUS
    <2>1. HeadersFound
      BY NextIsHeader DEF HeadersFound, ReadNext
    <2>2. MembersDisjoint
      <3>1. stage = "written" => Limit = end
        BY DEF ArchiveInv, PositionsOK, Limit
      <3> QED
        BY <3>1 DEF ArchiveInv, HeadersOK, MembersDisjoint, After
    <2>3. stage = "done" => found = [x \in 1..(i - 1) |-> x]
      <3> SUFFICES ASSUME stage = "done" PROVE found = [x \in 1..(i - 1) |-> x]
        OBVIOUS
      <3>1. ReaderAligned(pos) + HeaderSize > end /\ pos \in Nat /\ end \in Nat
        BY DEF ArchiveInv, ReaderOK, PositionsOK
      <3>2. ReaderAligned(pos) \in Nat
        BY <3>1, EvenProps DEF ReaderAligned
      <3>3. ~(ReaderAligned(pos) + HeaderSize <= end)
        BY <3>1, <3>2 DEF HeaderSize
      <3>4. found = FirstMembers(Count)
        BY <3>3, NextIsHeader DEF ReadNext
      <3> QED
        BY <3>4 DEF FirstMembers, Count
    <2> QED
      BY <2>1, <2>2, <2>3 DEF ReadBack
  <1> QED
    BY <1>1, ArchiveIsChain, PTL
=============================================================================
