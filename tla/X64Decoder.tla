----------------------------- MODULE X64Decoder -----------------------------
(***************************************************************************)
(* How an x86-64 processor reads the part of the instruction set that      *)
(* src/src/backend/x64.enc uses.  The assembler is judged by it: it is     *)
(* written from the opcode map of the processor, not from x64.enc.         *)
(*                                                                         *)
(* The input is a sequence of fields [at, n, v]: one field per prefix,     *)
(* opcode, ModR/M and SIB byte, and one per displacement and immediate of  *)
(* n bytes.  Displacements and immediates have as many bits as Bits gives  *)
(* their width; a displacement relative to the next instruction is kept as *)
(* the integer it stands for.                                              *)
(***************************************************************************)
EXTENDS Integers, Sequences

CONSTANT Bits   \* bits of a model integer for each of the widths 8, 16, 32, 64

Pow(n) == 2^n
TruncTo(v, w) == v % Pow(Bits[w])

(* v has the low from bits; the result has to bits, the sign repeated. *)
SignExtend(v, from, to) ==
  IF v >= Pow(Bits[from] - 1) THEN v + Pow(Bits[to]) - Pow(Bits[from]) ELSE v

GPRs == <<"A", "C", "D", "B", "SP", "BP", "SI", "DI",
          "R8", "R9", "R10", "R11", "R12", "R13", "R14", "R15">>
OldByteRegs == <<"AL", "CL", "DL", "BL", "AH", "CH", "DH", "BH">>
XMMs == <<"XMM0", "XMM1", "XMM2", "XMM3", "XMM4", "XMM5", "XMM6", "XMM7">>

-----------------------------------------------------------------------------
(* Operand forms of the opcode map: E is the r/m operand, G the reg        *)
(* operand, V and W the same for XMM registers, I an immediate, J a        *)
(* relative target, Z a register in the opcode.  Width 0 stands for the    *)
(* operand size.                                                           *)
Form(k, w) == [k |-> k, w |-> w]
E(w) == Form("E", w)
G(w) == Form("G", w)
V == Form("V", 128)
W(w) == Form("W", w)
I(w) == Form("I", w)
Z(w) == Form("Z", w)
J == Form("J", 32)
Count == Form("CL", 8)

Bad == [op |-> "BAD", forms |-> <<>>]
Entry(op, forms) == [op |-> op, forms |-> forms]

Arithmetic == <<"ADD", "OR", "ADC", "SBB", "AND", "SUB", "XOR", "CMP">>
JumpOn == [n \in 0..15 |-> <<"JO", "JNO", "JB", "JAE", "JE", "JNE", "JBE", "JA",
                             "JS", "JNS", "JP", "JNP", "JL", "JGE", "JLE", "JG">>[n + 1]]
SetOn == [n \in 0..15 |-> <<"SETO", "SETNO", "SETB", "SETAE", "SETE", "SETNE", "SETBE", "SETA",
                            "SETS", "SETNS", "SETP", "SETNP", "SETL", "SETGE", "SETLE", "SETG">>[n + 1]]

(* One-byte opcodes; reg is the reg field of the ModR/M byte that follows. *)
OneByte(b, reg, rexw) ==
  CASE b < 64 /\ b % 8 = 0 -> Entry(Arithmetic[(b \div 8) + 1], <<E(8), G(8)>>)
    [] b < 64 /\ b % 8 = 1 -> Entry(Arithmetic[(b \div 8) + 1], <<E(0), G(0)>>)
    [] b = \h80 -> Entry(Arithmetic[reg + 1], <<E(8), I(8)>>)
    [] b = \h81 -> Entry(Arithmetic[reg + 1], <<E(0), I(32)>>)
    [] b = \h83 -> Entry(Arithmetic[reg + 1], <<E(0), I(8)>>)
    [] b \in \h50..\h57 -> Entry("PUSH", <<Z(64)>>)
    [] b \in \h58..\h5F -> Entry("POP", <<Z(64)>>)
    [] b = \h63 -> Entry("MOVSX", <<G(0), E(32)>>)
    [] b = \h69 -> Entry("IMUL", <<G(0), E(0), I(32)>>)
    [] b = \h84 -> Entry("TEST", <<E(8), G(8)>>)
    [] b = \h85 -> Entry("TEST", <<E(0), G(0)>>)
    [] b = \h88 -> Entry("MOV", <<E(8), G(8)>>)
    [] b = \h89 -> Entry("MOV", <<E(0), G(0)>>)
    [] b = \h8A -> Entry("MOV", <<G(8), E(8)>>)
    [] b = \h8B -> Entry("MOV", <<G(0), E(0)>>)
    [] b = \h90 -> Entry("NOP", <<>>)
    [] b = \h99 -> Entry(IF rexw THEN "CQO" ELSE "CDQ", <<>>)
    [] b \in \hB0..\hB7 -> Entry("MOV", <<Z(8), I(8)>>)
    [] b \in \hB8..\hBF -> Entry("MOV", <<Z(0), I(0)>>)
    [] b = \hC1 /\ reg = 4 -> Entry("SHL", <<E(0), I(8)>>)
    [] b = \hC1 /\ reg = 5 -> Entry("SHR", <<E(0), I(8)>>)
    [] b = \hD3 /\ reg = 4 -> Entry("SHL", <<E(0), Count>>)
    [] b = \hD3 /\ reg = 5 -> Entry("SHR", <<E(0), Count>>)
    [] b = \hC3 -> Entry("RET", <<>>)
    [] b = \hC6 /\ reg = 0 -> Entry("MOV", <<E(8), I(8)>>)
    [] b = \hC7 /\ reg = 0 -> Entry("MOV", <<E(0), I(32)>>)
    [] b = \hE8 -> Entry("CALL", <<J>>)
    [] b = \hE9 -> Entry("JMP", <<J>>)
    [] b = \hF7 /\ reg = 2 -> Entry("NOT", <<E(0)>>)
    [] b = \hF7 /\ reg = 3 -> Entry("NEG", <<E(0)>>)
    [] b = \hF7 /\ reg = 7 -> Entry("IDIV", <<E(0)>>)
    [] b = \hFF /\ reg = 2 -> Entry("CALL", <<E(64)>>)
    [] OTHER -> Bad

(* Opcodes after 0F; prefix is F2, F3, 66 or 0. *)
TwoByte(b, prefix) ==
  CASE b = \h05 -> Entry("SYSCALL", <<>>)
    [] b \in \h80..\h8F -> Entry(JumpOn[b - \h80], <<J>>)
    [] b \in \h90..\h9F -> Entry(SetOn[b - \h90], <<E(8)>>)
    [] b = \hAF -> Entry("IMUL", <<G(0), E(0)>>)
    [] b = \hB6 -> Entry("MOVZX", <<G(0), E(8)>>)
    [] b = \hB7 -> Entry("MOVZX", <<G(0), E(16)>>)
    [] b = \hBE -> Entry("MOVSX", <<G(0), E(8)>>)
    [] b = \h10 /\ prefix = \hF3 -> Entry("MOVSS", <<V, W(32)>>)
    [] b = \h11 /\ prefix = \hF3 -> Entry("MOVSS", <<W(32), V>>)
    [] b = \h10 /\ prefix = \hF2 -> Entry("MOVSD", <<V, W(64)>>)
    [] b = \h11 /\ prefix = \hF2 -> Entry("MOVSD", <<W(64), V>>)
    [] b = \h28 /\ prefix = 0 -> Entry("MOVAPS", <<V, W(128)>>)
    [] b = \h29 /\ prefix = 0 -> Entry("MOVAPS", <<W(128), V>>)
    [] b = \h2A /\ prefix = \hF3 -> Entry("CVTSI2SS", <<V, E(0)>>)
    [] b = \h2A /\ prefix = \hF2 -> Entry("CVTSI2SD", <<V, E(0)>>)
    [] b = \h2D /\ prefix = \hF3 -> Entry("CVTSS2SI", <<G(0), W(32)>>)
    [] b = \h2D /\ prefix = \hF2 -> Entry("CVTSD2SI", <<G(0), W(64)>>)
    [] b = \h2E /\ prefix = 0 -> Entry("UCOMISS", <<V, W(32)>>)
    [] b = \h2E /\ prefix = \h66 -> Entry("UCOMISD", <<V, W(64)>>)
    [] b = \h58 /\ prefix = \hF3 -> Entry("ADDSS", <<V, W(32)>>)
    [] b = \h58 /\ prefix = \hF2 -> Entry("ADDSD", <<V, W(64)>>)
    [] b = \h59 /\ prefix = \hF3 -> Entry("MULSS", <<V, W(32)>>)
    [] b = \h59 /\ prefix = \hF2 -> Entry("MULSD", <<V, W(64)>>)
    [] b = \h5A /\ prefix = \hF3 -> Entry("CVTSS2SD", <<V, W(32)>>)
    [] b = \h5A /\ prefix = \hF2 -> Entry("CVTSD2SS", <<V, W(64)>>)
    [] OTHER -> Bad

-----------------------------------------------------------------------------
(* A decoded operand: a register, a memory access of w bits at the base c  *)
(* plus v, an immediate, or a target relative to the next instruction.     *)
Operand(k, c, w, v) == [k |-> k, c |-> c, w |-> w, v |-> v]

(* A register by its number; a byte register means something else without  *)
(* a REX prefix.                                                           *)
GPR(n, w, rex) ==
  Operand("reg", IF w = 8 /\ rex = 0 /\ n \in 4..7 THEN OldByteRegs[n + 1] ELSE GPRs[n + 1], w, 0)

Bit(b, n) == (b \div Pow(n)) % 2

(* Prefix, REX, escape and opcode: what they are, and the opcode's field.  *)
Opening(text, k) ==
  LET prefix == IF text[k].v \in {\hF2, \hF3, \h66} THEN text[k].v ELSE 0
      k1     == IF prefix = 0 THEN k ELSE k + 1
      rex    == IF text[k1].v \in \h40..\h4F THEN text[k1].v ELSE 0
      k2     == IF rex = 0 THEN k1 ELSE k1 + 1
      two    == text[k2].v = \h0F
  IN  [prefix |-> prefix, rex |-> rex, two |-> two, at |-> IF two THEN k2 + 1 ELSE k2]

OperandSize(o) == IF Bit(o.rex, 3) = 1 THEN 64 ELSE IF o.prefix = \h66 THEN 16 ELSE 32

Has(entry, ks) == \E n \in 1..Len(entry.forms) : entry.forms[n].k \in ks

(* The address of an r/m operand, and where its displacement is.           *)
Addressing(text, entry, modrm, at) ==
  LET mod  == IF Has(entry, {"E", "W"}) THEN modrm \div 64 ELSE 3
      rm   == modrm % 8
      sib  == mod # 3 /\ rm = 4
      next == at + (IF Has(entry, {"E", "W"}) THEN 2 ELSE 1)
      base == IF sib THEN text[next].v % 8 ELSE rm
      none == sib /\ mod = 0 /\ base = 5
      rip  == mod = 0 /\ rm = 5
  IN  [mod |-> mod, rm |-> rm, base |-> base, rip |-> rip, none |-> none,
       disp |-> IF sib THEN next + 1 ELSE next,
       dsize |-> CASE mod = 1 -> 1 [] mod = 2 \/ rip \/ none -> 4 [] OTHER -> 0]

ImmediateSize(entry, size) ==
  LET w == entry.forms[Len(entry.forms)].w
  IN  CASE Has(entry, {"J"}) -> 4
        [] Has(entry, {"I"}) -> CASE w = 8 -> 1 [] w = 0 -> size \div 8 [] OTHER -> IF size = 16 THEN 2 ELSE 4
        [] OTHER -> 0

Mem(text, o, a, w) ==
  CASE a.rip       -> Operand("mem", "IP", w, text[a.disp].v)
    [] a.dsize = 0 -> Operand("mem", GPRs[a.base + 8 * Bit(o.rex, 0) + 1], w, 0)
    [] a.none      -> Operand("mem", "NONE", w, 0)
    [] OTHER       -> Operand("mem", GPRs[a.base + 8 * Bit(o.rex, 0) + 1], w,
                              SignExtend(text[a.disp].v, 8 * a.dsize, 64))

ImmediateOperand(entry, v, w, isize) ==
  LET to == IF entry.op \in {"SHL", "SHR"} THEN 8 ELSE w
  IN  Operand("imm", "", to, IF 8 * isize >= to THEN TruncTo(v, to) ELSE SignExtend(v, 8 * isize, to))

(* The operand of form f, from all that has been read: o the opening, a    *)
(* the addressing, imm the field of the immediate and isize its size.      *)
Arg(text, entry, o, a, imm, isize, f) ==
  LET Width(g) == IF g.w = 0 THEN OperandSize(o) ELSE g.w
      reg == (text[o.at + 1].v \div 8) % 8
  IN CASE f.k = "E" /\ a.mod # 3 -> Mem(text, o, a, Width(f))
       [] f.k = "E" /\ a.mod = 3 -> GPR(a.rm + 8 * Bit(o.rex, 0), Width(f), o.rex)
       [] f.k = "G"  -> GPR(reg + 8 * Bit(o.rex, 2), Width(f), o.rex)
       [] f.k = "Z"  -> GPR((text[o.at].v % 8) + 8 * Bit(o.rex, 0), Width(f), o.rex)
       [] f.k = "V"  -> Operand("reg", XMMs[reg + 1], 128, 0)
       [] f.k = "W" /\ a.mod # 3 -> Mem(text, o, a, f.w)
       [] f.k = "W" /\ a.mod = 3 -> Operand("reg", XMMs[a.rm + 1], 128, 0)
       [] f.k = "CL" -> Operand("reg", "C", 8, 0)
       [] f.k = "J"  -> Operand("code", "IP", 0, text[imm].v)
       [] f.k = "I"  -> ImmediateOperand(entry, text[imm].v, Width(entry.forms[1]), isize)

Whole(text, k, entry, o, a, imm, isize) ==
  IF \/ a.dsize # 0 /\ (a.disp > Len(text) \/ text[a.disp].n # a.dsize)
     \/ isize # 0 /\ (imm > Len(text) \/ text[imm].n # isize)
  THEN [op |-> "BAD", args |-> <<>>, relative |-> 0, next |-> k]
  ELSE [op |-> entry.op,
        args |-> [n \in 1..Len(entry.forms) |-> Arg(text, entry, o, a, imm, isize, entry.forms[n])],
        relative |-> CASE Has(entry, {"J"}) -> imm [] a.rip -> a.disp [] OTHER -> 0,
        next |-> imm + (IF isize = 0 THEN 0 ELSE 1)]

Addressed(text, k, entry, o, a) ==
  Whole(text, k, entry, o, a, IF a.dsize = 0 THEN a.disp ELSE a.disp + 1,
        ImmediateSize(entry, OperandSize(o)))

(* The opcode map is looked up with the ModR/M byte that may follow.       *)
Opened(text, k, o) ==
  LET modrm == IF o.at < Len(text) THEN text[o.at + 1].v ELSE 0
      entry == IF o.two THEN TwoByte(text[o.at].v, o.prefix)
               ELSE OneByte(text[o.at].v, (modrm \div 8) % 8, Bit(o.rex, 3) = 1)
  IN  Addressed(text, k, entry, o, Addressing(text, entry, modrm, o.at))

(* Reads the instruction whose first field is number k of text: its        *)
(* operation, operands and the number of the field after it.  A field of   *)
(* the wrong size is not an instruction the processor would read.          *)
Decode(text, k) == Opened(text, k, Opening(text, k))
=============================================================================
