------------------------------ MODULE CallFrame ------------------------------
(***************************************************************************)
(* One call, from the caller's argument set-up to its clean-up, as         *)
(* src/src/backend/asm_gen.c emits it: classify_arguments, asm_gen_call,   *)
(* the prologue, entry MOVs and epilogue of asm_gen_function, the reads of *)
(* arguments in asm_value, OP_BUILTIN_VA_START, and the va_arg functions   *)
(* of src/freestanding/stdarg.h.  Each action is a group of the emitted    *)
(* instructions, run on a machine of registers and bytes.                  *)
(*                                                                         *)
(* A type is [kind, size]; the value of argument n is the sequence of its  *)
(* bytes <<<<"arg", n>>, b>>.  The numbers of argument registers and the   *)
(* limits that stdarg.h has for them are parameters, so that small ones    *)
(* can be explored; the code has 6, 8, 48 and 304.                         *)
(***************************************************************************)
EXTENDS Integers, FiniteSetsExt, SequencesExt

CONSTANTS
  Calls,      \* the calls: [types, fixed, variadic]
  Frames,     \* the frames of the callee: [saved, locals]
  IntRegs, FloatRegs,    \* lengths of int_argument_registers, float_argument_registers
  IntLimit, FloatLimit   \* where va_arg turns to the stack

(* Integers and pointers are passed as 8 bytes, structs whole; there is no *)
(* va_arg for structs.                                                     *)
TypeOf(kind, sizes) == [kind : {kind}, size : sizes]
Types == TypeOf("int", {8}) \cup TypeOf("float", {4, 8}) \cup TypeOf("struct", Nat)

CallOK(c) ==
  /\ c.types \in Seq(Types) /\ c.fixed \in 0..Len(c.types) /\ c.variadic \in BOOLEAN
  /\ ~c.variadic => c.fixed = Len(c.types)
  /\ \A x \in 1..Len(c.types) : x > c.fixed => c.types[x].kind # "struct"

(* The limits of stdarg.h are not below the ends of the two parts of the   *)
(* register save area, and exact for integers.                             *)
ASSUME CallFrameAssumption ==
  /\ IntRegs \in Nat /\ FloatRegs \in Nat
  /\ IntLimit = IntRegs * 8 /\ FloatLimit \in Nat /\ FloatLimit >= IntRegs * 8 + FloatRegs * 16
  /\ \A c \in Calls : CallOK(c)
  /\ \A fr \in Frames : fr.saved \subseteq 1..5 /\ fr.locals \in Nat

VARIABLES
  call, frame,  \* the call and the callee
  step, n,     \* the next group of instructions and argument
  sp, bp,       \* the stack and frame pointers
  regs,         \* the argument registers: <<kind, index>> |-> value, and the
                \* places of the parameters that are none: <<"home", index>>
  al,           \* the number of vector registers used
  saves,        \* the callee-save registers
  mem,          \* the stack, byte by byte
  got,          \* the values of the arguments as the callee has read them
  va            \* the va_list: [ints, floats, stack, area]

callVars == <<call, frame, step, n, sp, bp, regs, al, saves, mem, got, va>>

Bytes(tag, size) == [b \in 1..size |-> <<tag, b>>]
Junk == <<<<"junk">>, 0>>

Over(old, new) == [a \in DOMAIN old \cup DOMAIN new |-> IF a \in DOMAIN new THEN new[a] ELSE old[a]]
StoreAt(m, address, bytes) ==
  Over(m, [a \in address..(address + Len(bytes) - 1) |-> bytes[a - address + 1]])

(* Several stores, of value[x] at address[x], to places that do not overlap. *)
StoreAll(m, address, value) ==
  LET places(x) == address[x]..(address[x] + Len(value[x]) - 1)
  IN  Over(m, [a \in UNION {places(x) : x \in DOMAIN address} |->
                 LET x == CHOOSE x \in DOMAIN address : a \in places(x)
                 IN  value[x][a - address[x] + 1]])

LoadAt(m, address, size) ==
  [b \in 1..size |-> IF address + b - 1 \in DOMAIN m THEN m[address + b - 1] ELSE Junk]

(* Between instructions of the caller: 16 bytes of its own above sp. *)
Top == 1024
CallerBytes == Bytes(<<"caller">>, 16)

CallInit ==
  /\ call \in Calls /\ frame \in Frames
  /\ step = "sub" /\ n = 1
  /\ sp = Top /\ bp = Top + 512
  /\ regs = <<>> /\ al = "unset"
  /\ saves = [r \in 1..5 |-> Bytes(<<"saved", r>>, 8)]
  /\ mem = StoreAt(<<>>, Top, CallerBytes)
  /\ got = <<>> /\ va = <<>>

-----------------------------------------------------------------------------
(* classify_arguments, one argument after another: how far the registers   *)
(* and the stack are used up, and the class of the next argument.          *)
ByReg(reg) == [t |-> "reg", reg |-> reg]
ByMem(offset, size, remains) ==
  [t |-> "mem", offset |-> offset, size |-> size, remains |-> remains]

ClassOf(used, type) ==
  CASE type.kind = "int" /\ used.ints < IntRegs -> ByReg(<<"int", used.ints>>)
    [] type.kind = "int" /\ used.ints >= IntRegs -> ByMem(used.space, 8, FALSE)
    [] type.kind = "float" /\ used.floats < FloatRegs -> ByReg(<<"float", used.floats>>)
    [] type.kind = "float" /\ used.floats >= FloatRegs -> ByMem(used.space, type.size, FALSE)
    [] type.kind = "struct" -> ByMem(used.space, type.size, TRUE)

Advance(used, type) ==
  [ints   |-> IF type.kind = "int" /\ used.ints < IntRegs THEN used.ints + 1 ELSE used.ints,
   floats |-> IF type.kind = "float" /\ used.floats < FloatRegs THEN used.floats + 1 ELSE used.floats,
   space  |-> IF type.kind = "struct" THEN used.space + type.size
              ELSE IF type.kind = "int" /\ used.ints >= IntRegs THEN used.space + 8 ELSE used.space]

UsedUp(types) ==
  LET used[x \in 0..Len(types)] ==
        IF x = 0 THEN [ints |-> 0, floats |-> 0, space |-> 0] ELSE Advance(used[x - 1], types[x])
  IN  used

(* A CallSeq, with the numbers of registers that are counted from it. *)
CallSeqOf(types) ==
  LET used == UsedUp(types)
  IN  [classes |-> [x \in 1..Len(types) |-> ClassOf(used[x - 1], types[x])],
       ints |-> used[Len(types)].ints, floats |-> used[Len(types)].floats,
       space |-> used[Len(types)].space]

(* The CallSeq of the function, made from the parameters before the "...". *)
CalleeSeq == CallSeqOf(SubSeq(call.types, 1, call.fixed))

(* A new one for varargs, else the one of the function. *)
CallerSeq == IF call.variadic THEN CallSeqOf(call.types) ELSE CalleeSeq

AlignTo(x, align) == ((x + align - 1) \div align) * align

ArgsPlusPadding_Unpadded == CallerSeq.space

ArgsPlusPadding == AlignTo(CallerSeq.space, 16)

-----------------------------------------------------------------------------
(* asm_gen_call, up to the CALL *)
MakeSpace ==
  /\ step = "sub"
  /\ sp' = sp - ArgsPlusPadding
  /\ step' = "args"
  /\ UNCHANGED <<call, frame, n, bp, regs, al, saves, mem, got, va>>

Passing == step = "args" /\ n <= Len(call.types)
Class == CallerSeq.classes[n]
Value == Bytes(<<"arg", n>>, call.types[n].size)

PassInRegister ==
  /\ Passing
  /\ Class.t = "reg"
  /\ regs' = Over(regs, [r \in {Class.reg} |-> Value])
  /\ n' = n + 1
  /\ UNCHANGED <<call, frame, step, sp, bp, al, saves, mem, got, va>>

(* An integer through a temporary register, a struct copied in pieces. *)
PassInMemory ==
  /\ Passing
  /\ Class.t = "mem" /\ call.types[n].kind # "float"
  /\ mem' = StoreAt(mem, sp + Class.offset, Value)
  /\ n' = n + 1
  /\ UNCHANGED <<call, frame, step, sp, bp, regs, al, saves, got, va>>

(* ASSERT(size == 8) for a float, the precondition of emit_mov (a 128-bit  *)
(* source, a 64-bit target) for a double.                                  *)
PassFloatInMemory ==
  /\ Passing
  /\ Class.t = "mem" /\ call.types[n].kind = "float"
  /\ step' = "assertion"
  /\ UNCHANGED <<call, frame, n, sp, bp, regs, al, saves, mem, got, va>>

FloatsInRegs == Cardinality({x \in 1..Len(call.types) :
                               call.types[x].kind = "float" /\ CallerSeq.classes[x].t = "reg"})

DoCall ==
  /\ step = "args" /\ n > Len(call.types)
  /\ al' = IF call.variadic THEN FloatsInRegs ELSE "unset"
  /\ sp' = sp - 8
  /\ mem' = StoreAt(mem, sp - 8, Bytes(<<"return address">>, 8))
  /\ step' = "prologue"
  /\ UNCHANGED <<call, frame, n, bp, regs, saves, got, va>>

-----------------------------------------------------------------------------
(* asm_gen_function *)
SaveAreaSize == IntRegs * 8 + FloatRegs * 16

LocalUsage == frame.locals + IF call.variadic THEN SaveAreaSize ELSE 0

StackAdjustment == LocalUsage + 16 - ((Cardinality(frame.saved) * 8 + LocalUsage) % 16)

(* PUSH rbp, then the callee-save registers from the lowest: where r is in *)
(* that order, 0 standing for rbp.                                         *)
PushIndex(r) == Cardinality({s \in frame.saved : s <= r})

Prologue ==
  LET pushed == {0} \cup frame.saved
  IN  /\ step = "prologue"
      /\ mem' = StoreAll(mem, [r \in pushed |-> sp - 8 - 8 * PushIndex(r)],
                         [r \in pushed |-> IF r = 0 THEN Bytes(<<"caller bp">>, 8) ELSE saves[r]])
      /\ bp' = sp - 8
      /\ sp' = sp - 8 - 8 * Cardinality(frame.saved) - StackAdjustment
      /\ step' = IF call.variadic THEN "save" ELSE "moves"
      /\ n' = 1
      /\ UNCHANGED <<call, frame, regs, al, saves, got, va>>

(* Registers that carried a parameter are not saved; a register nobody set *)
(* holds junk.                                                             *)
RegValue(r, size) == IF r \in DOMAIN regs THEN regs[r] ELSE Bytes(<<"junk">>, size)

SaveInts(m) ==
  LET unused == CalleeSeq.ints..(IntRegs - 1)
  IN  StoreAll(m, [x \in unused |-> sp + x * 8], [x \in unused |-> RegValue(<<"int", x>>, 8)])

SaveFloats(m) ==
  LET unused == CalleeSeq.floats..(FloatRegs - 1)
  IN  StoreAll(m, [x \in unused |-> sp + IntRegs * 8 + x * 16],
               [x \in unused |-> RegValue(<<"float", x>>, 8)])

SaveRegisters ==
  /\ step = "save"
  /\ mem' = IF al = 0 THEN SaveInts(mem) ELSE SaveFloats(SaveInts(mem))
  /\ step' = "moves"
  /\ UNCHANGED <<call, frame, n, sp, bp, regs, al, saves, got, va>>

(* The body begins with one MOV per parameter in a register, into a        *)
(* virtual register each.  All of these live until the parameters are      *)
(* stored to their variables, so the allocator hands out the registers of  *)
(* its orders one after another: no integer goes to an argument register,  *)
(* but float number f goes to XMM(6 - f), and number 7, for which none is  *)
(* left, to the stack.                                                     *)
LastFloat == <<"float", FloatRegs - 1>>

Home(reg) ==
  IF reg[1] = "int" \/ reg = LastFloat THEN <<"home", reg>> ELSE <<"float", FloatRegs - 2 - reg[2]>>

(* The spill register of floats is the last argument register: what        *)
(* precedes the MOV to the stack loads the slot into it.                   *)
MovedValue(reg) ==
  IF reg = LastFloat THEN Bytes(<<"junk">>, call.types[n].size) ELSE regs[reg]

MoveParam ==
  LET class == CalleeSeq.classes[n]
  IN  /\ step = "moves" /\ n <= call.fixed
      /\ regs' = IF class.t = "reg"
                 THEN Over(regs, [r \in {Home(class.reg)} |-> MovedValue(class.reg)])
                 ELSE regs
      /\ n' = n + 1
      /\ UNCHANGED <<call, frame, step, sp, bp, al, saves, mem, got, va>>

(* Locals and spill slots start above the register save area; a callee-    *)
(* save register is used only if it was pushed.                            *)
LocalsAt == sp + IF call.variadic THEN SaveAreaSize ELSE 0

UseFrame ==
  /\ step = "moves" /\ n > call.fixed
  /\ mem' = StoreAt(mem, LocalsAt, [b \in 1..frame.locals |-> Junk])
  /\ saves' = [r \in 1..5 |-> IF r \in frame.saved THEN Bytes(<<"junk">>, 8) ELSE saves[r]]
  /\ n' = 1 /\ step' = "params"
  /\ UNCHANGED <<call, frame, sp, bp, regs, al, got, va>>

ReadParam ==
  LET class == CalleeSeq.classes[n]
  IN  /\ step = "params" /\ n <= call.fixed
      /\ got' = Append(got, IF class.t = "reg" THEN regs[Home(class.reg)]
                            ELSE LoadAt(mem, bp + class.offset + 16, call.types[n].size))
      /\ n' = n + 1
      /\ UNCHANGED <<call, frame, step, sp, bp, regs, al, saves, mem, va>>

-----------------------------------------------------------------------------
(* stdarg *)
VaStart_AtZero == [ints |-> 0, floats |-> IntRegs * 8, stack |-> bp + 16, area |-> sp]

VaStart == [ints |-> CalleeSeq.ints * 8, floats |-> IntRegs * 8 + CalleeSeq.floats * 16,
            stack |-> bp + 16, area |-> sp]

StartVarArgs ==
  /\ step = "params" /\ n > call.fixed
  /\ IF call.variadic THEN va' = VaStart /\ step' = "va_arg"
     ELSE UNCHANGED va /\ step' = "epilogue"
  /\ UNCHANGED <<call, frame, n, sp, bp, regs, al, saves, mem, got>>

(* __builtin_va_arg_uint64, __builtin_va_arg_float, __builtin_va_arg_double *)
Fetch(type) ==
  CASE type.kind = "int" /\ va.ints >= IntLimit ->
         [at |-> va.stack, next |-> [va EXCEPT !.stack = @ + 8]]
    [] type.kind = "int" /\ va.ints < IntLimit ->
         [at |-> va.area + va.ints, next |-> [va EXCEPT !.ints = @ + 8]]
    [] type.kind = "float" /\ va.floats >= FloatLimit ->
         [at |-> va.stack, next |-> [va EXCEPT !.stack = @ + type.size]]
    [] type.kind = "float" /\ va.floats < FloatLimit ->
         [at |-> va.area + va.floats, next |-> [va EXCEPT !.floats = @ + 16]]

VaArg ==
  LET fetched == Fetch(call.types[n])
  IN  /\ step = "va_arg" /\ n <= Len(call.types)
      /\ got' = Append(got, LoadAt(mem, fetched.at, call.types[n].size))
      /\ va' = fetched.next
      /\ n' = n + 1
      /\ UNCHANGED <<call, frame, step, sp, bp, regs, al, saves, mem>>

EndVarArgs ==
  /\ step = "va_arg" /\ n > Len(call.types)
  /\ step' = "epilogue"
  /\ UNCHANGED <<call, frame, n, sp, bp, regs, al, saves, mem, got, va>>

-----------------------------------------------------------------------------
(* The epilogue pops from the highest; the caller gives the space back. *)
PopIndex_SameAsPush(r) == PushIndex(r)

PopIndex(r) == Cardinality({s \in frame.saved : s >= r})

Epilogue ==
  LET base == sp + StackAdjustment
      top == base + 8 * Cardinality(frame.saved)
  IN  /\ step = "epilogue"
      /\ saves' = [r \in 1..5 |-> IF r \in frame.saved THEN LoadAt(mem, base + 8 * (PopIndex(r) - 1), 8)
                                  ELSE saves[r]]
      /\ bp' = IF LoadAt(mem, top, 8) = Bytes(<<"caller bp">>, 8) THEN Top + 512 ELSE 0
      /\ sp' = top + 8 + 8
      /\ step' = "add"
      /\ UNCHANGED <<call, frame, n, regs, al, mem, got, va>>

GiveBackSpace ==
  /\ step = "add"
  /\ sp' = sp + ArgsPlusPadding
  /\ step' = "returned"
  /\ UNCHANGED <<call, frame, n, bp, regs, al, saves, mem, got, va>>

CallDone == step \in {"returned", "assertion"} /\ UNCHANGED callVars

CallNext ==
  \/ MakeSpace \/ PassInRegister \/ PassInMemory \/ PassFloatInMemory \/ DoCall
  \/ Prologue \/ SaveRegisters \/ MoveParam \/ UseFrame \/ ReadParam
  \/ StartVarArgs \/ VaArg \/ EndVarArgs
  \/ Epilogue \/ GiveBackSpace \/ CallDone

CallSpec == CallInit /\ [][CallNext]_callVars

-----------------------------------------------------------------------------
(* No parameter before the "..." is passed on the stack. *)
ParamsInRegisters == CalleeSeq.space = 0

Arrived(x) == got[x] = Bytes(<<"arg", x>>, call.types[x].size)

(* The float parameters of the lower half: with eight registers the first  *)
(* four.  The MOVs of the lower half overwrite the registers of the upper  *)
(* half before they are moved.                                             *)
InLowerHalf(x) ==
  LET class == CalleeSeq.classes[x]
  IN  class.t = "reg" /\ class.reg[1] = "float" => 2 * class.reg[2] < FloatRegs - 1

(***************************************************************************)
(* The callee reads every parameter as it was passed, through registers or *)
(* the stack, structs of any size and mixed kinds included, although it    *)
(* has moved the registers and used its frame in between and each side     *)
(* computed the places on its own.  The exception are the float parameters *)
(* of the upper half, which the entry MOVs of asm_gen_function lose.       *)
(***************************************************************************)
ParametersArrive ==
  \A x \in 1..Len(got) : x <= call.fixed /\ InLowerHalf(x) => Arrived(x)

(***************************************************************************)
(* va_start is initialised so that va_arg yields the arguments after the   *)
(* last parameter, wherever the parameters themselves were passed.         *)
(***************************************************************************)
VarArgsFollowParams == \A x \in 1..Len(got) : x > call.fixed => Arrived(x)

(***************************************************************************)
(* va_arg yields the variable arguments in order, from the register save   *)
(* area and then from the stack, if the parameters left the stack alone.   *)
(***************************************************************************)
VarArgsArrive == VarArgsFollowParams \/ ~ParamsInRegisters

(* The callee reads what was passed, its parameters and what va_arg yields. *)
ArgumentsArrive == ParametersArrive /\ VarArgsArrive

(***************************************************************************)
(* The stack is aligned to 16 bytes where the ABI and MOVAPS need it: at   *)
(* the CALL and in the body of the callee.                                 *)
(***************************************************************************)
StackAligned ==
  /\ step = "prologue" => (sp + 8) % 16 = 0
  /\ step \in {"save", "moves", "params", "va_arg"} => sp % 16 = 0

(***************************************************************************)
(* After the call the caller finds its stack pointer, its frame pointer,   *)
(* the callee-save registers and its own part of the stack as they were.   *)
(***************************************************************************)
CallerUndisturbed ==
  step = "returned" =>
    /\ sp = Top /\ bp = Top + 512
    /\ saves = [r \in 1..5 |-> Bytes(<<"saved", r>>, 8)]
    /\ LoadAt(mem, Top, 16) = CallerBytes
=============================================================================
