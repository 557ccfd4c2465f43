------------------------------ MODULE Assembler ------------------------------
(***************************************************************************)
(* The assembler: assemble in src/src/backend/asm.c, which encodes the     *)
(* instructions of a module one after the other, gives the labels their    *)
(* offsets and patches the branches, and the .rela.text loop of            *)
(* write_contents in elf.c, which turns what is left into relocations.     *)
(* assemble_instr is the function dsl/enc.py generates from x64.enc: the   *)
(* rows of that file are the table of Encodings, arg_conditions an         *)
(* operator here.                                                          *)
(*                                                                         *)
(* The text section is a sequence of fields: a prefix, opcode, ModR/M or   *)
(* SIB byte, or a displacement or immediate of n bytes.  Their values      *)
(* keep the widths of the code up to the scale Bits, which gives the       *)
(* number of bits an 8-, 16-, 32- and 64-bit integer has in the model.     *)
(*                                                                         *)
(* What the bytes mean is given by X64Decoder, which reads the fields back *)
(* the way the processor does.                                             *)
(***************************************************************************)
EXTENDS X64Decoder, Encodings, FiniteSets

CONSTANTS
  Programs,  \* the modules to assemble: sequences of instructions
  Symbols,   \* the symbols of a module, in the order of asm_module->symbols
  InText     \* the symbols that some instruction of the module carries

VARIABLES
  instrs,    \* text.instrs
  i,         \* the instruction assemble has reached
  text,      \* text.bytes, as fields [at, n, v]
  starts,    \* instr_start of the instructions so far
  offset,    \* AsmSymbol.offset, -1 before the label is met
  fixups,    \* asm_module->fixups
  patched,   \* the number of fixups the patching loop has gone through
  relas,     \* the entries of .rela.text
  phase      \* "assemble", "fixup", "done" or "unimplemented"

vars == <<instrs, i, text, starts, offset, fixups, patched, relas, phase>>

-----------------------------------------------------------------------------
Fits_NoSignBit(k, ext, imm, sext) ==
  \/ k.t = "FIXED_IMMEDIATE" /\ imm = k.width
  \/ k.t = "SYMBOL" /\ imm = 64
  \/ k.t = "IMMEDIATE" /\ imm = 64
  \/ k.t = "IMMEDIATE" /\ imm # 64 /\ k.v = TruncTo(k.v, imm)

(* is_const_and_fits: the bits of the constant survive being cut to imm    *)
(* bits and extended to ext again.                                         *)
Fits(k, ext, imm, sext) ==
  \/ k.t = "FIXED_IMMEDIATE" /\ imm = k.width
  \/ k.t = "SYMBOL" /\ imm = 64
  \/ k.t = "IMMEDIATE" /\ imm = 64
  \/ /\ k.t = "IMMEDIATE" /\ imm # 64
     /\ LET e         == Bits[ext]
            b         == Bits[imm]
            above     == k.v \div Pow(e)
            negative  == above = Pow(Bits[64] - e) - 1 /\ (k.v \div Pow(e - 1)) % 2 = 1
            truncated == k.v % Pow(b)
            extended  == IF sext /\ truncated >= Pow(b - 1)
                         THEN truncated + (Pow(e - b) - 1) * Pow(b) ELSE truncated
        IN  /\ ext = 64 \/ above = 0 \/ negative
            /\ k.v % Pow(e) = extended

-----------------------------------------------------------------------------
(* arg_conditions: the generated test of one row.  An immediate is the     *)
(* last operand and is extended to the width of the one before it.         *)
ArgMatches(row, n, a) ==
  LET p == row.args[n]
  IN  CASE p.k = "r/m"   -> \/ a.t = "REGISTER" /\ a.width = p.w
                            \/ a.deref /\ a.width = 64
        [] p.k = "r"     -> a.t = "REGISTER" /\ a.width = p.w /\ ~a.deref
        [] p.k = "xmm"   -> a.t = "REGISTER" /\ a.width = 128 /\ ~a.deref
        [] p.k = "xmm/m" -> \/ a.t = "REGISTER" /\ a.width = 128 /\ ~a.deref
                            \/ a.deref /\ a.width = 64
        [] p.k = "imm"   -> a.t = "CONST"
                            /\ Fits(a.const, row.args[n - 1].w, p.w, row.op \in SignExtendingOps)
        [] p.k = "rel"   -> a.t = "CONST"
        [] p.k = "CL"    -> a.t = "REGISTER" /\ a.class = "C" /\ a.width = 8

RowMatches(row, ins) ==
  /\ row.op = ins.op
  /\ Len(row.args) # 0 => /\ Len(row.args) = Len(ins.args)
                          /\ \A n \in 1..Len(row.args) : ArgMatches(row, n, ins.args[n])

(* assemble_instr takes the first row of the operation that matches. *)
Candidates(ins) == SelectSeq(Rows, LAMBDA row : RowMatches(row, ins))
RowFor(ins) == Head(Candidates(ins))

-----------------------------------------------------------------------------
(* add_mod_rm_arg.  Sizes are -1 for a field that is absent. *)
ModRM(mod, rm, base, dsize, disp, sym) ==
  [mod |-> mod, rm |-> rm, base |-> base, dsize |-> dsize, disp |-> disp, sym |-> sym]

SmallOffset_Unsigned(v) == v < Pow(Bits[8])

(* (i8)offset == (i64)offset *)
SmallOffset(v) == v < Pow(Bits[8] - 1) \/ v >= Pow(Bits[64]) - Pow(Bits[8] - 1)
LargeOffset(v) == v < Pow(Bits[32])

PlainDeref(c) ==
  CASE c \in {"SP", "R12"} -> ModRM(0, 4, RegNumber[c], -1, 0, NoSym)
    [] c \in {"BP", "R13"} -> ModRM(1, RegNumber[c], -1, 1, 0, NoSym)
    [] OTHER               -> ModRM(0, RegNumber[c], -1, -1, 0, NoSym)

OffsetDeref(c, k) ==
  LET mod   == IF k.t = "SYMBOL" \/ ~SmallOffset(k.v) THEN 2 ELSE 1
      dsize == IF mod = 1 THEN 1 ELSE 4
  IN  CASE c = "IP" -> ModRM(0, 5, -1, 4, 0, k.sym)
        [] c \in {"SP", "R12"} -> ModRM(mod, RegNumber[c], 4, dsize, k.v, k.sym)
        [] OTHER -> ModRM(mod, RegNumber[c], -1, IF k.t = "SYMBOL" THEN -1 ELSE dsize, k.v, k.sym)

ModRMArg(a) ==
  CASE a.t = "REGISTER" /\ ~a.deref -> ModRM(3, RegNumber[a.class], -1, -1, 0, NoSym)
    [] a.t = "REGISTER" /\ a.deref  -> PlainDeref(a.class)
    [] a.t = "OFFSET_REGISTER"      -> OffsetDeref(a.class, a.const)

(* The asserts of add_mod_rm_arg: an offset has to fit four bytes. *)
Addressable(a) ==
  a.t = "OFFSET_REGISTER" /\ a.const.t = "IMMEDIATE"
    => SmallOffset(a.const.v) \/ LargeOffset(a.const.v)

-----------------------------------------------------------------------------
(* encode_instr *)
IsM(p) == p.k \in {"r/m", "xmm/m"}

(* The operand that goes into the r/m bits, and the reg bits. *)
MemoryOperand(row, ins) ==
  IF row.slash = "/r" /\ IsM(row.args[2]) THEN ins.args[2] ELSE ins.args[1]
RegBits(row, ins) ==
  IF row.slash = "/r"
  THEN RegNumber[IF IsM(row.args[2]) THEN ins.args[1].class ELSE ins.args[2].class]
  ELSE CHOOSE n \in 0..7 :
         row.slash = <<"/0", "/1", "/2", "/3", "/4", "/5", "/6", "/7">>[n + 1]

(* SPL, BPL, SIL and DIL differ from AH, CH, DH and BH by a REX prefix. *)
NeedsHighRex(ins) ==
  \E n \in 1..Len(ins.args) :
    /\ ins.args[n].t = "REGISTER" /\ ins.args[n].width = 8
    /\ ins.args[n].class \in {"SP", "BP", "SI", "DI"}

Flag(b, v) == IF b THEN v ELSE 0

RexByte(row, ins, m, reg, ext) ==
  LET bits == Flag(row.rexw, 8) + Flag(reg >= 8, 4)
              + Flag(m.rm >= 8 \/ m.base >= 8 \/ ext >= 8, 1)
  IN  IF bits # 0 \/ NeedsHighRex(ins) THEN <<64 + bits>> ELSE <<>>

(* The bytes before the displacement: a mandatory prefix of the opcode     *)
(* goes in front of REX, the rest of the opcode behind it.                 *)
LeadBytes(row, ins, m, reg, ext) ==
  LET mandatory == row.opcode[1] \in {\hF2, \hF3, \h66}
      opcode    == <<row.opcode[1] + (ext % 8)>> \o Tail(row.opcode)
      modrm     == IF row.slash = "none" THEN <<>>
                   ELSE <<m.mod * 64 + (reg % 8) * 8 + (m.rm % 8)>>
      sib       == IF m.base = -1 THEN <<>> ELSE <<4 * 8 + (m.base % 8)>>
  IN  (IF mandatory THEN <<Head(opcode)>> ELSE <<>>)
      \o (IF row.oso THEN <<\h66>> ELSE <<>>)
      \o RexByte(row, ins, m, reg, ext)
      \o (IF mandatory THEN Tail(opcode) ELSE opcode) \o modrm \o sib

ImmediateOf(ins) == (CHOOSE n \in 1..Len(ins.args) : ins.args[n].t = "CONST")

FixupType(row) == IF REL \in {row.args[n] : n \in 1..Len(row.args)} THEN "RELATIVE" ELSE "ABSOLUTE"

NextOffset_WithoutImmediate(row, start, lead, m) == start + Len(lead) + Flag(m.dsize # -1, m.dsize)

(* next_instr_offset: where the instruction ends, its immediate included. *)
NextOffset(row, start, lead, m) ==
  start + Len(lead) + Flag(m.dsize # -1, m.dsize) + Flag(row.imm # -1, row.imm)

(* The fields and the fixups of an instruction at offset start: row is its *)
(* row of the table, m its ModR/M and displacement, lead the bytes before. *)
Encoded(ins, start, row, m, lead) ==
  LET k     == IF row.imm = -1 THEN Imm(0) ELSE ins.args[ImmediateOf(ins)].const
      dat   == start + Len(lead)
      iat   == dat + Flag(m.dsize # -1, m.dsize)
      disp  == IF m.dsize = -1 THEN <<>>
               ELSE <<[at |-> dat, n |-> m.dsize, v |-> TruncTo(m.disp, 8 * m.dsize)]>>
      imm   == IF row.imm = -1 THEN <<>>
               ELSE <<[at |-> iat, n |-> row.imm, v |-> TruncTo(k.v, 8 * row.imm)]>>
      Fix(type, at, sym) ==
        <<[type |-> type, at |-> at, next |-> NextOffset(row, start, lead, m), sym |-> sym]>>
  IN  [fields |-> [n \in 1..Len(lead) |-> [at |-> start + n - 1, n |-> 1, v |-> lead[n]]]
                  \o disp \o imm,
       fixups |-> (IF m.sym = NoSym THEN <<>> ELSE Fix(IF m.mod = 0 THEN "RELATIVE" ELSE FixupType(row), dat, m.sym))
                  \o (IF k.sym = NoSym THEN <<>> ELSE Fix(FixupType(row), iat, k.sym))]

EncodeModRM(ins, start, row, m) ==
  LET ext == IF row.plus THEN RegNumber[ins.args[1].class] ELSE 0
      reg == IF row.slash = "none" THEN 0 ELSE RegBits(row, ins)
  IN  Encoded(ins, start, row, m, LeadBytes(row, ins, m, reg, ext))

EncodeRow(ins, start, row) ==
  EncodeModRM(ins, start, row,
              IF row.slash = "none" THEN ModRM(0, 0, -1, -1, 0, NoSym)
              ELSE ModRMArg(MemoryOperand(row, ins)))

EncodeInstr(ins, start) == EncodeRow(ins, start, RowFor(ins))

-----------------------------------------------------------------------------
Init ==
  /\ instrs \in Programs
  /\ i = 1
  /\ text = <<>> /\ starts = <<>>
  /\ offset = [s \in InText |-> -1]
  /\ fixups = <<>> /\ patched = 0 /\ relas = <<>>
  /\ phase = "assemble"

TextSize == IF text = <<>> THEN 0 ELSE text[Len(text)].at + text[Len(text)].n

SetLabel(ins) ==
  offset' = IF ins.label = NoSym THEN offset ELSE [offset EXCEPT ![ins.label] = TextSize]

(* One round of the first loop of assemble. *)
AssembleInstr ==
  /\ phase = "assemble" /\ i <= Len(instrs)
  /\ LET ins == instrs[i]
     IN  /\ Candidates(ins) # <<>>
         /\ \A n \in 1..Len(ins.args) : Addressable(ins.args[n])
         /\ \E enc \in {EncodeInstr(ins, TextSize)} :
              /\ text' = text \o enc.fields
              /\ fixups' = fixups \o enc.fixups
         /\ SetLabel(ins)
         /\ starts' = Append(starts, TextSize)
  /\ i' = i + 1
  /\ UNCHANGED <<instrs, patched, relas, phase>>

(* "Unimplemented instruction" and "Offset too large!" both end the run. *)
Refuse ==
  /\ phase = "assemble" /\ i <= Len(instrs)
  /\ \/ Candidates(instrs[i]) = <<>>
     \/ \E n \in 1..Len(instrs[i].args) : ~Addressable(instrs[i].args[n])
  /\ phase' = "unimplemented"
  /\ UNCHANGED <<instrs, i, text, starts, offset, fixups, patched, relas>>

StartFixups ==
  /\ phase = "assemble" /\ i > Len(instrs)
  /\ phase' = "fixup"
  /\ UNCHANGED <<instrs, i, text, starts, offset, fixups, patched, relas>>

(* The fixups assemble patches itself, and leaves to the linker. *)
PatchedHere(f) == f.type # "ABSOLUTE" /\ f.sym \in InText

PatchFixup ==
  /\ phase = "fixup" /\ patched < Len(fixups)
  /\ LET f == fixups[patched + 1]
     IN  text' = IF PatchedHere(f)
                 THEN [n \in 1..Len(text) |->
                         IF text[n].at = f.at THEN [text[n] EXCEPT !.v = offset[f.sym] - f.next]
                         ELSE text[n]]
                 ELSE text
  /\ patched' = patched + 1
  /\ UNCHANGED <<instrs, i, starts, offset, fixups, relas, phase>>

SymtabIndex(s) == CHOOSE n \in 1..Len(Symbols) : Symbols[n] = s

Rela(f) ==
  [at |-> f.at, symbol |-> SymtabIndex(f.sym),
   addend |-> IF f.type = "RELATIVE" THEN f.at - f.next ELSE 0]

LeftForLinker(f) == ~(f.type = "RELATIVE" /\ f.sym \in InText)

(* The .rela.text loop of write_contents. *)
WriteRelas ==
  /\ phase = "fixup" /\ patched = Len(fixups)
  /\ LET left == SelectSeq(fixups, LeftForLinker)
     IN  relas' = [n \in 1..Len(left) |-> Rela(left[n])]
  /\ phase' = "done"
  /\ UNCHANGED <<instrs, i, text, starts, offset, fixups, patched>>

Done == phase \in {"done", "unimplemented"} /\ UNCHANGED vars

Next == AssembleInstr \/ Refuse \/ StartFixups \/ PatchFixup \/ WriteRelas \/ Done

Spec == Init /\ [][Next]_vars

(***************************************************************************)
(* What the author of an instruction means by operand n: the register, the *)
(* memory at base plus offset accessed with the width of the other         *)
(* operand, or the constant at the width of the destination.               *)
(***************************************************************************)
AccessWidth(ins) ==
  CASE ins.op = "MOVSS" -> 32 [] ins.op = "MOVSD" -> 64 [] ins.op = "MOVAPS" -> 128
    [] ins.op = "CALL" -> 64
    [] OTHER -> LET others == {n \in 1..Len(ins.args) : ~ins.args[n].deref}
                    a      == ins.args[CHOOSE n \in others : TRUE]
                IN  IF a.t = "CONST" THEN a.const.width ELSE a.width

MeantOperand(ins, n) ==
  LET a == ins.args[n]
      w == CASE ins.op \in {"SHL", "SHR"} -> 8
             [] ins.args[1].deref         -> AccessWidth(ins)
             [] OTHER                     -> ins.args[1].width
  IN  CASE a.deref -> Operand("mem", a.class, AccessWidth(ins), a.const.v)
        [] ~a.deref /\ a.t = "REGISTER" -> Operand("reg", a.class, a.width, 0)
        [] a.t = "CONST" /\ Len(ins.args) = 1 -> Operand("code", "IP", 0, 0)
        [] a.t = "CONST" /\ Len(ins.args) # 1 -> Operand("imm", "", w, TruncTo(a.const.v, w))

FieldAt(at) == CHOOSE k \in 1..Len(text) : text[k].at = at
DecodedAt(n) == Decode(text, FieldAt(starts[n]))
EndOf(n) == IF n = Len(instrs) THEN TextSize ELSE starts[n + 1]

(***************************************************************************)
(* Round trip: the processor reads back the operation, the registers, the  *)
(* address and the value that the instruction names, whichever of the      *)
(* encodings of x64.enc was taken, and goes on at the next instruction     *)
(* (asm.c, encode_instr, add_mod_rm_arg, is_const_and_fits; dsl/enc.py).   *)
(***************************************************************************)
DecodesBack ==
  phase = "done" =>
    \A n \in 1..Len(instrs) :
      \E d \in {DecodedAt(n)} :
          /\ d.op = instrs[n].op
          /\ Len(d.args) = Len(instrs[n].args)
          /\ \A m \in 1..Len(d.args) :
               LET meant == MeantOperand(instrs[n], m)
               IN  /\ d.args[m].k = meant.k /\ d.args[m].c = meant.c /\ d.args[m].w = meant.w
                   /\ meant.c # "IP" => d.args[m].v = meant.v
          /\ IF d.next > Len(text) THEN EndOf(n) = TextSize ELSE text[d.next].at = EndOf(n)

SymbolsOf(ins) ==
  {ins.args[m].const.sym : m \in 1..Len(ins.args)} \ {NoSym}
RelasIn(n) ==
  {m \in 1..Len(relas) : starts[n] <= relas[m].at /\ relas[m].at < EndOf(n)}
CarrierOf(s) == {n \in 1..Len(instrs) : instrs[n].label = s}

(***************************************************************************)
(* Every reference to a symbol is settled exactly once: assemble patched   *)
(* it and the processor lands on the instruction that carries the label,   *)
(* or the object file has one relocation for it that will make it land     *)
(* there, also when an immediate follows the displacement (asm.c,          *)
(* assemble; elf.c, write_contents).                                       *)
(***************************************************************************)
SymbolsReached ==
  phase = "done" =>
    \A n \in 1..Len(instrs) :
      \E d \in {DecodedAt(n)} :
      LET here == RelasIn(n)
          f    == text[d.relative]
      IN  IF SymbolsOf(instrs[n]) = {} THEN here = {}
          ELSE LET s == CHOOSE s \in SymbolsOf(instrs[n]) : TRUE
               IN  IF d.relative # 0 /\ s \in InText
                   THEN /\ here = {}
                        /\ \E c \in CarrierOf(s) : EndOf(n) + f.v = starts[c]
                   ELSE \E m \in here :
                          /\ here = {m} /\ Symbols[relas[m].symbol] = s
                          /\ IF d.relative # 0
                             THEN relas[m].at = f.at /\ relas[m].addend + EndOf(n) = f.at
                             ELSE relas[m].at = text[d.next - 1].at /\ relas[m].addend = 0

(* maybe_move_const_to_reg: the constants instruction selection leaves in  *)
(* the instruction; it moves the others to a register.                     *)
KeepsConst(op, v) ==
  IF op \in SignExtendingOps
  THEN v < Pow(Bits[32] - 1) \/ v >= Pow(Bits[64]) - Pow(Bits[32] - 1)
  ELSE v < Pow(Bits[32])

(* v has w bits, read as unsigned or as signed. *)
HasWidth(v, w) == v < Pow(Bits[w]) \/ v >= Pow(Bits[64]) - Pow(Bits[w] - 1)

(* v is the sign extension of 8 bits to w bits. *)
IsSmall(v, w) ==
  HasWidth(v, w) /\ (TruncTo(v, w) < Pow(Bits[8] - 1) \/ TruncTo(v, w) >= Pow(Bits[w]) - Pow(Bits[8] - 1))

(* Where the table has no row for the constant v and an operand of w bits, *)
(* although instruction selection keeps v: these end the compilation.      *)
NoRow(op, w, v) ==
  \/ op = "XOR"
  \/ op = "OR" /\ (w < 32 \/ ~IsSmall(v, w))
  \/ op \in {"ADD", "SUB", "AND"} /\ w < 32
  \/ op = "CMP" /\ (w = 16 \/ (w = 8 /\ ~HasWidth(v, w)))
  \/ op = "MOV" /\ ~HasWidth(v, w)

(* An instruction with a constant that instruction selection has kept. *)
KeepsItsConst(ins) ==
  /\ Len(ins.args) = 2 /\ ins.args[1].t = "REGISTER"
  /\ ins.args[2].t = "CONST" /\ ins.args[2].const.t = "IMMEDIATE"
  /\ \/ ins.op \in {"ADD", "SUB", "AND", "OR", "XOR", "CMP"} /\ KeepsConst(ins.op, ins.args[2].const.v)
     \/ ins.op = "MOV"

(***************************************************************************)
(* Which constants end a compilation.  emit_mov leaves every constant in   *)
(* its MOV, maybe_move_const_to_reg those of KeepsConst in an arithmetic   *)
(* instruction or comparison; of all of these, at every width, exactly     *)
(* the cases of NoRow are refused: XOR with a constant, OR with one beyond *)
(* a signed byte, ADD, SUB and AND of 8 or 16 bits, CMP of 16 bits or of 8 *)
(* bits with a wider constant, and a MOV to fewer bits than the constant   *)
(* has (asm_gen.c, asm_gen_binary_instr; x64.enc).                         *)
(***************************************************************************)
KeptConstsEncode ==
  \A n \in 1..Len(instrs) :
    (n < i \/ (n = i /\ phase = "unimplemented")) /\ KeepsItsConst(instrs[n]) =>
      (n < i <=> ~NoRow(instrs[n].op, instrs[n].args[1].width, instrs[n].args[2].const.v))
=============================================================================
