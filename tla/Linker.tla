------------------------------- MODULE Linker -------------------------------
(***************************************************************************)
(* The static linker of src/src/backend/elf.c: link_elf_executable reads   *)
(* object files one after another into one table of symbols               *)
(* (process_elf_file, process_rela_section), lays out the executable       *)
(* (write_contents), and then walks the table once, writing each symbol    *)
(* and patching every place that refers to it (add_symbol, the relocation  *)
(* loop, add_string, finish_strtab_section).                               *)
(*                                                                         *)
(* An object is [format, size, syms, relas].  A symbol is                  *)
(* [name, bind, sect, value]; a relocation is [sect, off, sym, type,       *)
(* addend] with sym an index of syms, and relas holds the rows of          *)
(* .rela.text, then those of .rela.data.  The members of an archive are    *)
(* objects of the same list (Archive models how they are found).  The      *)
(* bytes of a section are left out except for the places relocations       *)
(* patch, and final_value stands for the u32 with the same residue.        *)
(***************************************************************************)
EXTENDS Integers, FiniteSetsExt, SequencesExt

CONSTANTS
  Inputs,    \* the sequences of objects linker_input_filenames may name
  NameLen    \* the length of each symbol name

Start == "_start"

Sections == {"text", "data", "bss"}
RelocTypes == {"PC32", "64", "32", "32S"}

(***************************************************************************)
(* What write_elf_object_file leaves: symbols lie in their sections, a     *)
(* symbol without a definition is global, and relocations are of places in *)
(* .text and .data, no two of one place.                                   *)
(***************************************************************************)
SymbolOK(o, s) ==
  s.sect # "file" =>
    /\ s.name \in DOMAIN NameLen /\ s.bind \in {"global", "local"}
    /\ s.sect \in Sections \/ (s.sect = "undef" /\ s.bind = "global")
    /\ s.sect \in Sections => s.value \in 0..o.size[s.sect]

RelaOK(o, r) ==
  /\ r \in [sect : {"text", "data"}, off : Nat, sym : 1..Len(o.syms), type : RelocTypes, addend : Int]
  /\ r.off < o.size[r.sect] /\ o.syms[r.sym].sect # "file"

WellFormed(o) ==
  /\ o.size \in [Sections -> Nat]
  /\ o.syms \in Seq(ToSet(o.syms)) /\ o.relas \in Seq(ToSet(o.relas))
  /\ \A x \in 1..Len(o.syms) : SymbolOK(o, o.syms[x])
  /\ \A x \in 1..Len(o.relas) : RelaOK(o, o.relas[x])
  /\ \A x, y \in 1..Len(o.relas) :
       o.relas[x].sect = o.relas[y].sect /\ o.relas[x].off = o.relas[y].off => x = y

ASSUME LinkerAssumption ==
  /\ NameLen \in [DOMAIN NameLen -> Nat]
  /\ \A fs \in Inputs :
       /\ fs \in Seq(ToSet(fs))
       /\ \A g \in 1..Len(fs) : fs[g].format = "object" => WellFormed(fs[g])

VARIABLES
  files,   \* linker_input_filenames, with the contents of the files
  f, k,    \* the file and the entry of its symbol table being processed
  phase,   \* "open", "symbols", "relas", "emit", "strings", "done"
  ret,     \* ExitCode, or the assertion that ended the program
  size,    \* asm_module: the bytes of each section so far
  base,    \* existing_text_size, existing_data_size, existing_bss_size
  table,   \* symbol_table
  local,   \* file_symbols
  image,   \* the executable: file offset |-> patched value
  symtab,  \* .symtab of the executable
  entry,   \* entry_point_virtual_address
  lastLocal, nextString,  \* ELFFile.last_local_symbol_index, next_string_index
  strtab   \* .strtab: the offset at which each string starts |-> the string

reading == <<size, base, table, local>>
writing == <<image, symtab, entry, lastLocal, nextString, strtab>>
vars == <<files, f, k, phase, ret, reading, writing>>

InitWith(inputs) ==
  /\ files = inputs
  /\ f = 1 /\ k = 1 /\ phase = "open" /\ ret = "SUCCESS"
  /\ size = [s \in Sections |-> 0] /\ base = size
  /\ table = <<>> /\ local = <<>>
  /\ image = <<>> /\ symtab = <<>> /\ entry = 0
  /\ lastLocal = 0 /\ nextString = 1 /\ strtab = <<>>

Init == \E inputs \in Inputs : InitWith(inputs)

Fail(code) ==
  /\ phase' = "done" /\ ret' = code
  /\ UNCHANGED <<files, f, k, reading, writing>>

-----------------------------------------------------------------------------
(* Reading the objects. *)
File == files[f]

NextFile == f' = f + 1 /\ phase' = "open"

OpenFails ==
  /\ phase = "open" /\ f <= Len(files)
  /\ File.format = "absent"
  /\ Fail("IO_ERROR")

(* `return false` for a short file or another architecture is the value of *)
(* EXIT_CODE_SUCCESS.                                                      *)
Unusable ==
  /\ phase = "open" /\ f <= Len(files)
  /\ File.format \in {"short", "other_arch"}
  /\ NextFile
  /\ UNCHANGED <<files, k, ret, reading, writing>>

Rejected ==
  /\ phase = "open" /\ f <= Len(files)
  /\ \/ File.format = "other_rela" /\ Fail("UNIMPLEMENTED")
     \/ File.format = "no_section" /\ Fail("LINKER_ERROR")

AppendSections_KeepsBase ==
  /\ UNCHANGED base
  /\ size' = [s \in Sections |-> size[s] + File.size[s]]

AppendSections ==
  /\ base' = size
  /\ size' = [s \in Sections |-> size[s] + File.size[s]]

ReadFile ==
  /\ phase = "open" /\ f <= Len(files)
  /\ File.format = "object"
  /\ AppendSections
  /\ local' = [x \in 1..Len(File.syms) |-> 0]
  /\ k' = 1 /\ phase' = "symbols"
  /\ UNCHANGED <<files, f, ret, table, writing>>

ReadingSymbol == phase = "symbols" /\ k <= Len(File.syms)
Sym == File.syms[k]

SkipFileSymbol ==
  /\ ReadingSymbol
  /\ Sym.sect = "file"
  /\ k' = k + 1
  /\ UNCHANGED <<files, f, phase, ret, reading, writing>>

(* found_symbol_index, 0 for -1: only global symbols are shared. *)
Found ==
  LET same == {x \in 1..Len(table) : table[x].bind = "global" /\ table[x].name = Sym.name}
  IN  IF Sym.bind = "global" /\ same # {} THEN Min(same) ELSE 0

Undefined == [defined |-> FALSE, name |-> Sym.name, bind |-> Sym.bind,
              sect |-> "undef", off |-> 0, relocs |-> <<>>]

(* The entry of symbol_table that this symbol of the file stands for. *)
Bind(entries, x) ==
  /\ table' = entries
  /\ local' = [local EXCEPT ![k] = x]
  /\ k' = k + 1
  /\ UNCHANGED <<files, f, phase, ret, size, base, writing>>

ReadUndefined ==
  /\ ReadingSymbol
  /\ Sym.sect = "undef"
  /\ IF Found = 0 THEN Bind(Append(table, Undefined), Len(table) + 1)
     ELSE Bind(table, Found)

Definition(relocs) ==
  [defined |-> TRUE, name |-> Sym.name, bind |-> Sym.bind,
   sect |-> Sym.sect, off |-> base[Sym.sect] + Sym.value, relocs |-> relocs]

ReadDefinition_Redefines ==
  /\ ReadingSymbol
  /\ Sym.sect \in Sections
  /\ IF Found = 0 THEN Bind(Append(table, Definition(<<>>)), Len(table) + 1)
     ELSE Bind([table EXCEPT ![Found] = Definition(@.relocs)], Found)

ReadDefinition ==
  /\ ReadingSymbol
  /\ Sym.sect \in Sections
  /\ Found # 0 => ~table[Found].defined
  /\ IF Found = 0 THEN Bind(Append(table, Definition(<<>>)), Len(table) + 1)
     ELSE Bind([table EXCEPT ![Found] = Definition(@.relocs)], Found)

MultipleDefinitions ==
  /\ ReadingSymbol
  /\ Sym.sect \in Sections
  /\ Found # 0 /\ table[Found].defined
  /\ Fail("LINKER_ERROR")

EndOfSymtab ==
  /\ phase = "symbols" /\ k > Len(File.syms)
  /\ phase' = "relas" /\ k' = 1
  /\ UNCHANGED <<files, f, ret, reading, writing>>

Relocation(r) == [type |-> r.type, sect |-> r.sect, off |-> base[r.sect] + r.off,
                  addend |-> r.addend]

Attach(e, q) == [e EXCEPT !.relocs = Append(@, q)]

(* One row in process_rela_section. *)
ReadRela ==
  /\ phase = "relas" /\ k <= Len(File.relas)
  /\ LET r == File.relas[k]
     IN  table' = [table EXCEPT ![local[r.sym]] = Attach(@, Relocation(r))]
  /\ k' = k + 1
  /\ UNCHANGED <<files, f, phase, ret, size, base, local, writing>>

EndOfRelas ==
  /\ phase = "relas" /\ k > Len(File.relas)
  /\ NextFile
  /\ UNCHANGED <<files, k, ret, reading, writing>>

-----------------------------------------------------------------------------
(* The layout, for ET_EXEC: no relocations are written. *)
FirstOffset == 64 + 64 * 9 + 56 * 3
PageSize == 4096
Region == 16777216

AlignTo(n, align) == ((n + align - 1) \div align) * align

Offset == [text |-> FirstOffset,
           bss  |-> FirstOffset + size["text"],
           data |-> FirstOffset + size["text"]]

TextAddress == 134217728 + Offset.text
BssAddress == AlignTo(TextAddress, Region) + Offset.bss

Address_DataInBssRegion ==
  [text |-> TextAddress, bss |-> BssAddress,
   data |-> AlignTo(TextAddress, Region) + Offset.data]

(* SectionInfo.virtual_address *)
Address ==
  [text |-> TextAddress, bss |-> BssAddress,
   data |-> AlignTo(BssAddress, Region) + Offset.data]

WriteContents ==
  /\ phase = "open" /\ f > Len(files)
  /\ phase' = "emit" /\ k' = 1
  /\ UNCHANGED <<files, f, ret, reading, writing>>

-----------------------------------------------------------------------------
(* Writing the symbols. *)
Emitting == phase = "emit" /\ k <= Len(table)

IgnoreSymbol ==
  /\ Emitting
  /\ ~table[k].defined /\ table[k].relocs = <<>>
  /\ k' = k + 1
  /\ UNCHANGED <<files, f, phase, ret, reading, writing>>

UndefinedSymbol ==
  /\ Emitting
  /\ ~table[k].defined /\ table[k].relocs # <<>>
  /\ Fail("LINKER_ERROR")

FinalValue(sym, r) ==
  LET location == Address[sym.sect] + sym.off
  IN  IF r.type = "PC32" THEN location + r.addend - (Address[r.sect] + r.off)
      ELSE location + r.addend

(* What the relocations of one symbol write, by file offset. *)
Patch(sym) ==
  [at \in {Offset[r.sect] + r.off : r \in ToSet(sym.relocs)} |->
     LET r == CHOOSE r \in ToSet(sym.relocs) : Offset[r.sect] + r.off = at
     IN  FinalValue(sym, r)]

Over(old, new) == [x \in DOMAIN old \cup DOMAIN new |-> IF x \in DOMAIN new THEN new[x] ELSE old[x]]

AddSymbol_OffsetValue(sym) ==
  LET value == sym.off
  IN  /\ entry' = IF sym.name = Start THEN value ELSE entry
      /\ lastLocal' = IF sym.bind = "local" THEN Len(symtab) + 1 ELSE lastLocal
      /\ symtab' = Append(symtab, [name |-> nextString, bind |-> sym.bind,
                                   sect |-> sym.sect, value |-> value])
      /\ nextString' = nextString + NameLen[sym.name] + 1

AddSymbol(sym) ==
  LET value == Address[sym.sect] + sym.off
  IN  /\ entry' = IF sym.name = Start THEN value ELSE entry
      /\ lastLocal' = IF sym.bind = "local" THEN Len(symtab) + 1 ELSE lastLocal
      /\ symtab' = Append(symtab, [name |-> nextString, bind |-> sym.bind,
                                   sect |-> sym.sect, value |-> value])
      /\ nextString' = nextString + NameLen[sym.name] + 1

EmitSymbol ==
  /\ Emitting
  /\ table[k].defined
  /\ AddSymbol(table[k])
  /\ image' = Over(image, Patch(table[k]))
  /\ k' = k + 1
  /\ UNCHANGED <<files, f, phase, ret, reading, strtab>>

(* Where add_string puts the string behind those of the first x entries. *)
StringAt ==
  LET at[x \in 0..Len(table)] == IF x = 0 THEN 1 ELSE at[x - 1] + (NameLen[table[x].name] + 1) IN at

(* The string of every entry of the table, then the headers. *)
WriteStrings ==
  /\ phase = "emit" /\ k > Len(table)
  /\ strtab' = [at \in {StringAt[x - 1] : x \in 1..Len(table)} |->
                  table[CHOOSE x \in 1..Len(table) : StringAt[x - 1] = at].name]
  /\ phase' = "strings"
  /\ UNCHANGED <<files, f, k, ret, reading, image, symtab, entry, lastLocal, nextString>>

(* finish_strtab_section, with its two assertions. *)
WriteHeaders ==
  /\ phase = "strings"
  /\ phase' = "done"
  /\ ret' = IF entry = -1 \/ lastLocal = 0 THEN "ASSERTION" ELSE "SUCCESS"
  /\ UNCHANGED <<files, f, k, reading, writing>>

Done == phase = "done" /\ UNCHANGED vars

Next ==
  \/ OpenFails \/ Unusable \/ Rejected \/ ReadFile
  \/ SkipFileSymbol \/ ReadUndefined \/ ReadDefinition \/ MultipleDefinitions \/ EndOfSymtab
  \/ ReadRela \/ EndOfRelas
  \/ WriteContents
  \/ IgnoreSymbol \/ UndefinedSymbol \/ EmitSymbol
  \/ WriteStrings \/ WriteHeaders \/ Done

Spec == Init /\ [][Next]_vars

-----------------------------------------------------------------------------
(* What linking means, said of the input files alone. *)
Usable == {g \in 1..Len(files) : files[g].format = "object"}

(* What the first g files add to a section, and where file g goes in it. *)
Added(g, s) == IF g \in Usable THEN files[g].size[s] ELSE 0

SizeUpTo(s) ==
  LET sum[g \in 0..Len(files)] == IF g = 0 THEN 0 ELSE sum[g - 1] + Added(g, s) IN sum

Before(g, s) == SizeUpTo(s)[g - 1]

SymAt(d) == files[d[1]].syms[d[2]]

Definitions ==
  {d \in UNION {{g} \X (1..Len(files[g].syms)) : g \in Usable} : SymAt(d).sect \in Sections}

Globals(name) == {d \in Definitions : SymAt(d).bind = "global" /\ SymAt(d).name = name}

Home(d) == Address[SymAt(d).sect] + Before(d[1], SymAt(d).sect) + SymAt(d).value

Target(g, x) ==
  IF files[g].syms[x].bind = "local" THEN <<g, x>>
  ELSE CHOOSE d \in Globals(files[g].syms[x].name) : TRUE

Relas(g) == ToSet(files[g].relas)

Resolvable ==
  \A g \in Usable : \A r \in Relas(g) :
    files[g].syms[r.sym].bind = "global" => Globals(files[g].syms[r.sym].name) # {}

Unambiguous == \A d, e \in Definitions : d # e /\ SymAt(d).name = SymAt(e).name
                                           => "local" \in {SymAt(d).bind, SymAt(e).bind}

Readable == \A g \in 1..Len(files) :
              files[g].format \notin {"absent", "other_rela", "no_section"}

(* The files can be linked: every global symbol that a relocation uses has *)
(* one definition, none has two, and no file is refused.                   *)
Linkable == Readable /\ Resolvable /\ Unambiguous

(* Some file defines a static: the STT_FILE symbols, local too, are not    *)
(* copied into the executable.                                             *)
DefinesStatic == \E d \in Definitions : SymAt(d).bind = "local"

Linked == phase = "done" /\ ret = "SUCCESS"

(* The loaded program finds value at an address of the section. *)
Loaded(s, address, value) ==
  LET at == Offset[s] + address - Address[s]
  IN  at \in DOMAIN image /\ image[at] = value

(***************************************************************************)
(* In a linked program every place a relocation names holds the address of *)
(* the definition it refers to: the definition of the same file for a      *)
(* local symbol, else the one global definition, whatever the order of the *)
(* files and whether the use or the definition was read first.             *)
(***************************************************************************)
RelocationsResolve ==
  Linked => \A g \in Usable : \A r \in Relas(g) :
    LET place == Address[r.sect] + Before(g, r.sect) + r.off
        target == Home(Target(g, r.sym)) + r.addend
    IN  Loaded(r.sect, place, IF r.type = "PC32" THEN target - place ELSE target)

(***************************************************************************)
(* link_elf_executable reports an error exactly when the files cannot be   *)
(* linked, although it looks at each symbol and each relocation once, in   *)
(* the order of the files.  Of the files that can be linked it makes an    *)
(* executable when some definition is local; without one the program ends  *)
(* in the assertion of finish_strtab_section (LastLocalKnown).             *)
(***************************************************************************)
OutcomeRight ==
  phase = "done" =>
    /\ ret = "SUCCESS" <=> Linkable /\ DefinesStatic
    /\ ret = "ASSERTION" <=> Linkable /\ ~DefinesStatic

(***************************************************************************)
(* What the comment above that assertion says of last_local_symbol_index:  *)
(* there is always a local symbol, the STT_FILE one at least.              *)
(***************************************************************************)
LastLocalKnown == ret # "ASSERTION"

(* Each definition once, at the address it is loaded at; sh_info follows   *)
(* the last local symbol.                                                  *)
SymtabRight ==
  Linked =>
    /\ Len(symtab) = Cardinality(Definitions)
    /\ {[bind |-> x.bind, sect |-> x.sect, value |-> x.value] : x \in ToSet(symtab)}
       = {[bind |-> SymAt(d).bind, sect |-> SymAt(d).sect, value |-> Home(d)] : d \in Definitions}
    /\ lastLocal = Max({x \in 1..Len(symtab) : symtab[x].bind = "local"})

(* If no declaration was left without a definition, symbol x is entry x of *)
(* the table: next_string_index and the strings that another loop writes   *)
(* later agree.                                                            *)
NamesRight ==
  Linked /\ (\A x \in 1..Len(table) : table[x].defined) =>
    \A x \in 1..Len(symtab) : /\ symtab[x].name \in DOMAIN strtab
                              /\ strtab[symtab[x].name] = table[x].name

(* Execution starts at _start when one file defines it. *)
EntryRight ==
  \A d \in Definitions :
    Linked /\ SymAt(d).name = Start /\ (\A e \in Definitions \ {d} : SymAt(e).name # Start)
      => entry = Home(d)

(***************************************************************************)
(* The symbol table of the executable: every definition once, at the       *)
(* address it is loaded at and under its own name, with sh_info after the  *)
(* last local symbol, and the entry point at _start.                       *)
(***************************************************************************)
SymbolsRight == SymtabRight /\ NamesRight /\ EntryRight

(* What is read of the files stays inside the sections they were appended to. *)
TypeOK ==
  /\ f \in 1..(Len(files) + 1) /\ k \in Nat \ {0}
  /\ phase \in {"open", "symbols", "relas", "emit", "strings", "done"}
  /\ ret \in {"SUCCESS", "IO_ERROR", "LINKER_ERROR", "UNIMPLEMENTED", "ASSERTION"}
  /\ \A s \in Sections : base[s] \in 0..size[s]
  /\ \A x \in DOMAIN local : local[x] \in 0..Len(table)
  /\ \A x \in 1..Len(table) : table[x].defined => table[x].off \in 0..size[table[x].sect]

(* Up to 16 MiB of zeroed data, the distance write_contents leaves for it. *)
SegmentsSound ==
  phase \in {"emit", "strings", "done"} /\ size["bss"] <= Region =>
    /\ \A s \in Sections : (Address[s] - Offset[s]) % PageSize = 0
    /\ \A s, t \in Sections : s # t /\ Address[s] <= Address[t]
                                => Address[s] + size[s] <= Address[t]

(***************************************************************************)
(* Every definition stays inside its section, the three segments do not    *)
(* overlap in memory, and each address is congruent to its file offset     *)
(* modulo the page size.                                                   *)
(***************************************************************************)
LayoutSound == TypeOK /\ SegmentsSound
=============================================================================
