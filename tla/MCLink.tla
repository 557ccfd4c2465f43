------------------------------- MODULE MCLink -------------------------------
(***************************************************************************)
(* Object code in three views: the bytes of an object file as the          *)
(* assembler makes them (Assembler), archives as nar writes and ncc's      *)
(* linker reads them (Archive), and the linking of objects (Linker).       *)
(* Assembler ends where the sections are written, Archive where            *)
(* process_elf_file gets a member, and Linker starts on a list of objects, *)
(* so the three share no state: a behaviour here is a behaviour of one of  *)
(* them, and the variables of the others rest.                             *)
(***************************************************************************)
EXTENDS Linker, Archive

LOCAL INSTANCE TLC

CONSTANTS
  MaxFiles,                                \* bound: files of an archive
  Bits, Programs, Symbols, InText, NoSym   \* Assembler

VARIABLES
  view,
  instrs, reached, text, starts, offset, fixups, patched, relas, step   \* Assembler

X == INSTANCE Assembler WITH i <- reached, phase <- step
E == INSTANCE Encodings

ASSUME ScaleAssumption ==
  /\ DOMAIN Bits = {8, 16, 32, 64}
  /\ 0 < Bits[8] /\ Bits[8] < Bits[16] /\ Bits[16] < Bits[32] /\ Bits[32] < Bits[64]

ASSUME SymbolAssumption == InText \subseteq ToSet(Symbols) /\ NoSym \notin InText

asmVars == <<instrs, reached, text, starts, offset, fixups, patched, relas, step>>
linkVars == <<view, archiveVars, vars, asmVars>>

(* No file is given to nar. *)
ArchiveRests == ArchiveInitWith(<<>>)
LinkerRests == InitWith(<<>>)
(* A module without instructions has been assembled. *)
AssemblerRests == /\ instrs = <<>> /\ reached = 1 /\ text = <<>> /\ starts = <<>> /\ offset = <<>>
                  /\ fixups = <<>> /\ patched = 0 /\ relas = <<>> /\ step = "done"

LinkInit == \/ view = "assembler" /\ X!Init /\ ArchiveRests /\ LinkerRests
            \/ view = "archive" /\ ArchiveInit /\ LinkerRests /\ AssemblerRests
            \/ view = "objects" /\ Init /\ ArchiveRests /\ AssemblerRests

Assembles == view = "assembler" /\ X!Next /\ UNCHANGED <<view, archiveVars, vars>>
Archives == view = "archive" /\ ArchiveNext /\ UNCHANGED <<view, vars, asmVars>>
Links == view = "objects" /\ Next /\ UNCHANGED <<view, archiveVars, asmVars>>

LinkNext == Assembles \/ Archives \/ Links

LinkSpec == LinkInit /\ [][LinkNext]_linkVars

-----------------------------------------------------------------------------
(* Assembler!DecodesBack: the bytes of an instruction mean what it says. *)
DecodesBack == X!DecodesBack

(* Assembler!SymbolsReached: every reference reaches its symbol, by the     *)
(* displacement in the bytes or by the relocation left to the linker.       *)
SymbolsReached == X!SymbolsReached

(* Assembler!KeptConstsEncode: which constants that instruction selection   *)
(* leaves in an instruction have a row.                                     *)
KeptConstsEncode == X!KeptConstsEncode

-----------------------------------------------------------------------------
(* Up to three files of 0, 1, 2, 3 or 5 bytes, read in chunks of two.       *)
Members == [long : BOOLEAN, size : {0, 1, 2, 3, 5}] \cup {Absent}
MCFiles == UNION {[1..n -> Members] : n \in 0..MaxFiles}

(* Two and three small objects that share the names _start and a. *)
MCNameLen == [_start |-> 6, a |-> 1]

S(name, bind, sect) == [name |-> name, bind |-> bind, sect |-> sect,
                        value |-> IF sect = "text" THEN 4 ELSE 0]

(* write_elf_object_file ends every symbol table with the STT_FILE symbol. *)
FileSym == [name |-> "file.c", bind |-> "local", sect |-> "file", value |-> 0]

StartSyms == {S("_start", "global", s) : s \in {"undef", "text"}}
ASyms == {S("a", "global", s) : s \in {"undef", "text", "data", "bss"}}
           \cup {S("a", "local", s) : s \in {"text", "data", "bss"}}

Symtabs(as) == {<<x>> : x \in as \cup StartSyms}
                 \cup UNION {{<<x, y>>, <<y, x>>} : x \in as, y \in StartSyms}

(* Each symbol is used once from .text and once from .data. *)
Uses(syms) ==
  [x \in 1..Len(syms) |-> [sect |-> "text", off |-> 4 * x, sym |-> x, type |-> "PC32", addend |-> -4]]
    \o [x \in 1..Len(syms) |-> [sect |-> "data", off |-> 8 * (x - 1), sym |-> x, type |-> "64", addend |-> 0]]

Object(syms, uses, bss) ==
  [format |-> "object", size |-> [text |-> 16, data |-> 16, bss |-> bss],
   syms |-> Append(syms, FileSym), relas |-> uses]

ObjectsOf(symtabs, sizes) ==
  UNION {{Object(t, <<>>, b), Object(t, Uses(t), b)} : t \in symtabs, b \in sizes}

Bad(format) == [format |-> format, size |-> [s \in {"text", "data", "bss"} |-> 0], syms |-> <<>>, relas |-> <<>>]

(* A static a in one file: without any, the assertion of OutcomeRight fails. *)
Anchor == Object(<<S("a", "local", "data")>>, <<>>, 8)

Gap == 16777216   \* Linker!Region, the distance of segments
Pairs == {<<x, y>> : x, y \in ObjectsOf(Symtabs(ASyms), {8, Gap})}
Triples == {<<x, Anchor, y>> : x, y \in ObjectsOf(Symtabs(ASyms), {0})}
WithBad == {<<x, Bad(b), Anchor>> : x \in ObjectsOf(Symtabs(ASyms), {8}),
             b \in {"absent", "short", "other_arch", "other_rela", "no_section"}}

MCObjects == Pairs \cup Triples \cup WithBad

-----------------------------------------------------------------------------
(* Programs for the assembler: every shape of instruction that instruction *)
(* selection and the libc's .s files use, and modules with labels.         *)
MCBits == (8 :> 3) @@ (16 :> 4) @@ (32 :> 5) @@ (64 :> 7)

Values == 0..(2^7 - 1)
(* Offsets below 2^31: struct fields, frame slots. *)
Offsets == 0..(2^4 - 1)

Classes == {"A", "SP", "BP", "SI", "R8", "R12", "R13", "R15"}
Widths == {8, 16, 32, 64}
Floats == {"XMM0", "XMM3", "XMM7"}

Instr(op, operands) == [op |-> op, args |-> operands, label |-> NoSym]
At(s, ins) == [ins EXCEPT !.label = s]

Regs(cs, ws) == {E!PhysReg(c, w) : c \in cs, w \in ws}
Mems(os) == {E!Deref(E!OffsetReg(c, E!Imm(o))) : c \in Classes, o \in os}

SameWidth(op, ws) ==
  UNION {{Instr(op, <<a, b>>) : a \in Regs(Classes, {w}), b \in Regs(Classes, {w})} : w \in ws}
WithImm(ops, cs, ws) ==
  {Instr(op, <<a, E!Const(E!Imm(v))>>) : op \in ops, a \in Regs(cs, ws), v \in Values}
Single(op, ws) == {Instr(op, <<a>>) : a \in Regs(Classes, ws)}

RegisterInstrs ==
  SameWidth("MOV", Widths) \cup SameWidth("ADD", {8, 32, 64}) \cup SameWidth("CMP", Widths)
  \cup SameWidth("XOR", {32, 64}) \cup SameWidth("TEST", {8, 32}) \cup SameWidth("SUB", {64})
  \cup SameWidth("AND", {32}) \cup SameWidth("OR", {64}) \cup SameWidth("IMUL", {32, 64})
  \cup {Instr("MOVSX", <<a, b>>) : a \in Regs(Classes, {16, 32, 64}), b \in Regs(Classes, {8, 32})}
  \cup {Instr("MOVZX", <<a, b>>) : a \in Regs(Classes, {32, 64}), b \in Regs(Classes, {8, 16})}
  \cup UNION {Single(op, {32, 64}) : op \in {"NEG", "NOT", "IDIV"}}
  \cup UNION {Single(op, {64}) : op \in {"PUSH", "POP", "CALL"}}
  \cup UNION {Single(E!SetNames[n], {8}) : n \in 1..10}
  \cup {Instr(op, <<a, E!PhysReg("C", 8)>>) : op \in {"SHL", "SHR"}, a \in Regs(Classes, {32, 64})}
  \cup {Instr(op, <<>>) : op \in {"CDQ", "CQO", "NOP", "RET", "SYSCALL"}}

MovImms == WithImm({"MOV"}, Classes, Widths)
CmpImms == WithImm({"CMP"}, Classes, {8, 32, 64})
ArithmeticImms == WithImm({"ADD", "SUB", "AND", "OR", "SHL", "SHR"}, Classes, {32, 64})
AnyWidthImms == WithImm({"ADD", "SUB", "AND", "OR", "XOR", "CMP"}, {"SI"}, Widths)
ImulImms == {Instr("IMUL", <<E!PhysReg("SI", w), E!PhysReg("R12", w), E!Const(E!Imm(v))>>) :
               w \in {32, 64}, v \in Values}

Loads == {Instr("MOV", <<a, m>>) : a \in Regs({"A", "SI", "R13"}, Widths), m \in Mems(Offsets)}
Stores == {Instr("MOV", <<m, a>>) : a \in Regs({"A", "SI", "R13"}, Widths), m \in Mems(Offsets)}
ConstStores == {Instr("MOV", <<m, E!Const(E!FixedImm(v, w))>>) :
                  m \in Mems({0, 3, 9}), v \in {0, 5, 127}, w \in {8, 16, 32}}

FloatRegs == Regs(Floats, {128})
FloatInstrs ==
  {Instr(op, <<a, b>>) : op \in {"ADDSS", "ADDSD", "MULSS", "MULSD", "UCOMISS", "UCOMISD",
                                 "CVTSS2SD", "CVTSD2SS", "MOVSS", "MOVSD", "MOVAPS"},
                         a \in FloatRegs, b \in FloatRegs}
  \cup {Instr(op, <<a, b>>) : op \in {"CVTSI2SS", "CVTSI2SD"}, a \in FloatRegs, b \in Regs(Classes, {32, 64})}
  \cup {Instr(op, <<b, a>>) : op \in {"CVTSS2SI", "CVTSD2SI"}, a \in FloatRegs, b \in Regs(Classes, {32})}
FloatLoads == {Instr(op, <<a, m>>) : op \in {"MOVSS", "MOVSD"}, a \in FloatRegs, m \in Mems(Offsets)}
FloatStores == {Instr(op, <<m, a>>) : op \in {"MOVSS", "MOVSD", "MOVAPS"}, a \in FloatRegs, m \in Mems(Offsets)}

(* Modules with two labels, a symbol of another module and one of .data. *)
MCSymbols == <<"ext", "l1", "datum", "l2">>
MCInText == {"l1", "l2"}

IPRel(s) == E!Deref(E!OffsetReg("IP", E!Sym(s)))

Referring(s) ==
  {Instr("JMP", <<E!Const(E!Sym(s))>>), Instr("JLE", <<E!Const(E!Sym(s))>>),
   Instr("CALL", <<E!Const(E!Sym(s))>>),
   Instr("MOV", <<E!PhysReg("R8", 32), IPRel(s)>>),
   Instr("MOV", <<IPRel(s), E!Const(E!FixedImm(5, 32))>>),
   Instr("MOV", <<IPRel(s), E!Const(E!FixedImm(5, 8))>>),
   Instr("MOV", <<E!PhysReg("R13", 64), E!Const(E!Sym(s))>>)}

Filler == {Instr("RET", <<>>), Instr("ADD", <<E!PhysReg("R8", 64), E!Const(E!Imm(1))>>)}
Body == Filler \cup UNION {Referring(s) : s \in {"ext", "l1", "datum", "l2"}}

LabelledPrograms ==
  {<<At(s, a), b, At(t, c)>> : a \in Body, b \in Body, c \in Filler,
                               s \in {"l1"}, t \in {"l2"}}
  \cup {<<a, At("l2", b), At("l1", c)>> : a \in Body, b \in Body, c \in Filler}

Instrs ==
  RegisterInstrs \cup MovImms \cup CmpImms \cup ArithmeticImms \cup AnyWidthImms \cup ImulImms
  \cup Loads \cup Stores \cup ConstStores \cup FloatInstrs \cup FloatLoads \cup FloatStores

SinglePrograms == {<<ins>> : ins \in Instrs}

AllPrograms == LabelledPrograms \cup SinglePrograms
NoPrograms == {}
=============================================================================
