----------------------------- MODULE LinearScan -----------------------------
(***************************************************************************)
(* The linear-scan pass of the register allocator, the first half of       *)
(* allocate_registers in src/src/backend/reg_alloc.c.  The pass walks the  *)
(* live ranges in order of their start, keeps the ranges that are still    *)
(* live in active_vregs, and gives each virtual register a physical        *)
(* register or an 8-byte slot of the stack frame.                          *)
(*                                                                         *)
(* The virtual registers (live range, register class, pre-assigned         *)
(* register) are the input of the pass: Init chooses them, no action       *)
(* changes them.  The bit sets of free registers are one set of registers: *)
(* reg_to_alloc_index is injective and the two classes share no register.  *)
(* The call sequence also pins XMM7, the spill register, for which the     *)
(* table has no entry: the read past it is undefined, and the model claims *)
(* nothing of what follows it.                                             *)
(***************************************************************************)
EXTENDS Integers, SequencesExt

CONSTANTS
  VRegs,       \* the virtual registers of the function
  IntOrder,    \* INT_ALLOCATION_ORDER, a sequence of registers
  FloatOrder,  \* FLOAT_ALLOCATION_ORDER
  Unindexed,   \* the registers asm_gen pins that are in neither order: XMM7
  NoReg,       \* no register is assigned
  NoVReg,      \* no live range is being placed
  MaxPC,       \* bound: the last instruction index of a live range
  FrameBase    \* local_stack_usage when the pass starts

ASSUME OrderAssumption ==
  /\ IntOrder \in Seq(ToSet(IntOrder)) /\ FloatOrder \in Seq(ToSet(FloatOrder))
  /\ ToSet(IntOrder) \cap ToSet(FloatOrder) = {}
  /\ Unindexed \cap (ToSet(IntOrder) \cup ToSet(FloatOrder)) = {}
  /\ NoReg \notin ToSet(IntOrder) \cup ToSet(FloatOrder) \cup Unindexed

ASSUME ScanAssumption == NoVReg \notin VRegs /\ MaxPC \in Nat /\ FrameBase \in Nat

VARIABLES
  start, end,   \* live_range_start and live_range_end, -1 when never live
  type,         \* the register class: "int" or "float"
  pre,          \* the register asm_gen pre-assigned, or NoReg
  t,            \* VReg.t
  reg,          \* VReg.u.assigned_register
  slot,         \* VReg.u.assigned_stack_slot
  free,         \* the registers whose bit is set in free_regs_bitsets
  active,       \* active_vregs
  todo,         \* the live ranges not reached yet
  cur,          \* the live range being placed
  stack,        \* builder->local_stack_usage
  status        \* "scanning", or how the pass stopped: "aborted", "undefined"

input == <<start, end, type, pre>>
vars == <<start, end, type, pre, t, reg, slot, free, active, todo, cur, stack,
          status>>

Regs == ToSet(IntOrder) \cup ToSet(FloatOrder)
Types == {"int", "float"}
AllocOrder(ty) == IF ty = "int" THEN IntOrder ELSE FloatOrder
RegsOf(ty) == ToSet(AllocOrder(ty))

Overlap(u, v) == start[u] <= end[v] /\ start[v] <= end[u]

(***************************************************************************)
(* What instruction selection hands over: a range is empty or ordered and  *)
(* a pinned register is of the range's class.  Ranges pinned to one        *)
(* register may overlap: a call with a float argument and a float result   *)
(* pins XMM0 up to the CALL and again from the CALL on (gen_call).         *)
(***************************************************************************)
InputOK ==
  \A v \in VRegs :
    /\ \/ start[v] = -1 /\ end[v] = -1
       \/ start[v] >= 0 /\ start[v] <= end[v]
    /\ pre[v] # NoReg =>
         pre[v] \in RegsOf(type[v]) \/ (pre[v] \in Unindexed /\ type[v] = "float")

Init ==
  /\ start \in [VRegs -> -1..MaxPC] /\ end \in [VRegs -> -1..MaxPC]
  /\ type \in [VRegs -> Types] /\ pre \in [VRegs -> Regs \cup Unindexed \cup {NoReg}]
  /\ InputOK
  /\ t = [v \in VRegs |-> IF pre[v] = NoReg THEN "UNASSIGNED" ELSE "IN_REG"]
  /\ reg = pre
  /\ slot = [v \in VRegs |-> 0]
  /\ free = Regs
  /\ active = <<>>
  /\ todo = {v \in VRegs : start[v] # -1}
  /\ cur = NoVReg
  /\ stack = FrameBase
  /\ status = "scanning"

-----------------------------------------------------------------------------
(* qsort by compare_live_range_start: equal starts come in any order. *)
PickRange(v) ==
  /\ cur = NoVReg
  /\ v \in todo
  /\ \A w \in todo : start[v] <= start[w]
  /\ cur' = v
  /\ todo' = todo \ {v}
  /\ UNCHANGED <<input, t, reg, slot, free, active, stack, status>>

HeadExpired_LateExpiry == active # <<>> /\ end[Head(active)] <= start[cur]

(* The head of active_vregs ends before the range being placed starts. *)
HeadExpired == active # <<>> /\ end[Head(active)] < start[cur]

ExpireHead_KeepsBit ==
  /\ cur # NoVReg
  /\ HeadExpired
  /\ active' = Tail(active)
  /\ UNCHANGED <<input, t, reg, slot, free, todo, cur, stack, status>>

ExpireHead ==
  /\ cur # NoVReg
  /\ HeadExpired
  /\ free' = IF t[Head(active)] = "IN_REG" THEN free \cup {reg[Head(active)]} ELSE free
  /\ active' = Tail(active)
  /\ UNCHANGED <<input, t, reg, slot, todo, cur, stack, status>>

(* Index of the first active range that ends later: where v is inserted. *)
InsertionPoint(v) ==
  LET later == {j \in 1..Len(active) : end[active[j]] > end[v]}
  IN  IF later = {} THEN Len(active) + 1
      ELSE CHOOSE j \in later : \A k \in later : j <= k

Placing(v) == status = "scanning" /\ cur = v /\ v # NoVReg /\ ~HeadExpired

Activate(v) ==
  /\ active' = InsertAt(active, InsertionPoint(v), v)
  /\ cur' = NoVReg

NewSlot_SameOffset(v) ==
  /\ t' = [t EXCEPT ![v] = "ON_STACK"]
  /\ slot' = [slot EXCEPT ![v] = stack]
  /\ stack' = stack
  /\ reg' = [reg EXCEPT ![v] = NoReg]

NewSlot(v) ==
  /\ t' = [t EXCEPT ![v] = "ON_STACK"]
  /\ slot' = [slot EXCEPT ![v] = stack]
  /\ stack' = stack + 8
  /\ reg' = [reg EXCEPT ![v] = NoReg]

(* The register of the lowest free bit, in allocation order. *)
LowestFree(ty) ==
  LET order == AllocOrder(ty)
      avail == {k \in 1..Len(order) : order[k] \in free}
  IN  order[CHOOSE k \in avail : \A l \in avail : k <= l]

TakeRegister(v) ==
  /\ Placing(v)
  /\ t[v] = "UNASSIGNED"
  /\ free \cap RegsOf(type[v]) # {}
  /\ t' = [t EXCEPT ![v] = "IN_REG"]
  /\ reg' = [reg EXCEPT ![v] = LowestFree(type[v])]
  /\ free' = free \ {LowestFree(type[v])}
  /\ Activate(v)
  /\ UNCHANGED <<input, slot, todo, stack, status>>

SpillCurrent(v) ==
  /\ Placing(v)
  /\ t[v] = "UNASSIGNED"
  /\ free \cap RegsOf(type[v]) = {}
  /\ NewSlot(v)
  /\ Activate(v)
  /\ UNCHANGED <<input, free, todo, status>>

ClaimPreAlloced(v) ==
  /\ Placing(v)
  /\ t[v] # "UNASSIGNED"
  /\ reg[v] \in free
  /\ free' = free \ {reg[v]}
  /\ Activate(v)
  /\ UNCHANGED <<input, t, reg, slot, todo, stack, status>>

(* The active ranges that sit in register r. *)
HoldersOf(r) == {u \in ToSet(active) : t[u] = "IN_REG" /\ reg[u] = r}

NeedsEviction(v) ==
  /\ Placing(v)
  /\ t[v] # "UNASSIGNED"
  /\ reg[v] \in RegsOf(type[v]) \ free

EvictFor_SpillsCurrent(v) ==
  /\ NeedsEviction(v)
  /\ NewSlot(v)
  /\ Activate(v)
  /\ UNCHANGED <<input, free, todo, status>>

(* v is pinned to a register that something else holds: the holder goes to *)
(* the stack for its whole live range.                                     *)
EvictFor(v) ==
  /\ NeedsEviction(v)
  /\ \E existing \in HoldersOf(reg[v]) :
       /\ pre[existing] = NoReg
       /\ NewSlot(existing)
  /\ Activate(v)
  /\ UNCHANGED <<input, free, todo, status>>

Stop(how) == status' = how /\ UNCHANGED <<input, t, reg, slot, free, active, todo, cur, stack>>

(* The ASSERTs of the pinned path: the range is in a register and pinned,  *)
(* and when the register is taken, something active that is not pinned     *)
(* itself holds it.                                                        *)
Asserts(v) ==
  /\ t[v] = "IN_REG" /\ pre[v] # NoReg
  /\ NeedsEviction(v) => \E existing \in HoldersOf(reg[v]) : pre[existing] = NoReg

AssertFails(v) ==
  /\ Placing(v)
  /\ t[v] # "UNASSIGNED"
  /\ ~Asserts(v)
  /\ Stop("aborted")

(* reg_to_alloc_index is read past its end. *)
ReadPastIndex(v) ==
  /\ Placing(v)
  /\ t[v] # "UNASSIGNED"
  /\ reg[v] \notin RegsOf(type[v])
  /\ Stop("undefined")

Finished == todo = {} /\ cur = NoVReg

Done == (Finished \/ status # "scanning") /\ UNCHANGED vars

Next ==
  \/ \E v \in VRegs : \/ PickRange(v) \/ TakeRegister(v) \/ SpillCurrent(v)
                      \/ ClaimPreAlloced(v) \/ EvictFor(v)
                      \/ AssertFails(v) \/ ReadPastIndex(v)
  \/ ExpireHead
  \/ Done

Spec == Init /\ [][Next]_vars

-----------------------------------------------------------------------------
TypeOK ==
  /\ start \in [VRegs -> Int] /\ end \in [VRegs -> Int]
  /\ type \in [VRegs -> Types] /\ pre \in [VRegs -> Regs \cup Unindexed \cup {NoReg}]
  /\ t \in [VRegs -> {"UNASSIGNED", "IN_REG", "ON_STACK"}]
  /\ reg \in [VRegs -> Regs \cup Unindexed \cup {NoReg}]
  /\ slot \in [VRegs -> Nat]
  /\ free \in SUBSET Regs
  /\ active \in Seq(VRegs)
  /\ todo \in SUBSET VRegs
  /\ cur \in VRegs \cup {NoVReg}
  /\ stack \in Nat
  /\ status \in {"scanning", "aborted", "undefined"}

(* The live ranges that have been given a place. *)
Placed == {v \in VRegs : start[v] # -1 /\ v \notin todo /\ v # cur}

(***************************************************************************)
(* The point of the allocator: two values that are live at the same time   *)
(* never sit in the same register, whatever evictions and expiries the     *)
(* scan went through (reg_alloc.c, allocate_registers).                    *)
(***************************************************************************)
NoInterference ==
  \A u, v \in Placed :
    u # v /\ Overlap(u, v) /\ t[u] = "IN_REG" /\ t[v] = "IN_REG" => reg[u] # reg[v]

(***************************************************************************)
(* free_regs_bitset and active_vregs agree: a register is taken exactly    *)
(* when one active range sits in it.  A lost or a doubled bit here is a    *)
(* leaked register or a clobbered value many ranges later.                 *)
(***************************************************************************)
RegistersAccounted ==
  \A r \in Regs :
    /\ r \in free => HoldersOf(r) = {}
    /\ r \notin free => \E u \in ToSet(active) : HoldersOf(r) = {u}

(* Two ranges pinned to one register overlap. *)
PinnedClash ==
  \E u, v \in VRegs :
    /\ u # v /\ pre[u] # NoReg /\ pre[u] = pre[v]
    /\ start[u] # -1 /\ start[v] # -1 /\ Overlap(u, v)

(***************************************************************************)
(* The three ASSERTs on the pinned path fail only for the one reason the   *)
(* comment above the last of them names, two overlapping ranges pinned to  *)
(* one register, and the table is read past its end only for a register    *)
(* outside the orders; a scan that gets through has met neither.  So on    *)
(* every other input no bit is ever lost: the holder of a taken register   *)
(* is found, and can be moved (reg_alloc.c, allocate_registers).           *)
(***************************************************************************)
EvictionAsserts ==
  /\ status = "aborted" => PinnedClash
  /\ status = "undefined" => \E v \in VRegs : pre[v] \in Unindexed
  /\ Finished => /\ ~PinnedClash
                 /\ \A v \in VRegs : start[v] # -1 => pre[v] \notin Unindexed

(***************************************************************************)
(* "two vregs with overlapping live ranges that need the same physical     *)
(* register.  This should never happen" (reg_alloc.c, above the ASSERT).   *)
(***************************************************************************)
PinnedNeverClash == status # "aborted"

(***************************************************************************)
(* Stack slots are never shared, even by ranges that do not overlap, and   *)
(* lie inside the frame the prologue will reserve, above the locals that   *)
(* instruction selection placed below FrameBase.                           *)
(***************************************************************************)
SlotsDisjoint ==
  /\ FrameBase <= stack
  /\ \A u \in VRegs : t[u] = "ON_STACK" =>
       /\ FrameBase <= slot[u] /\ slot[u] + 8 <= stack
       /\ \A v \in VRegs : v # u /\ t[v] = "ON_STACK" =>
            slot[u] + 8 <= slot[v] \/ slot[v] + 8 <= slot[u]

(***************************************************************************)
(* No step moves a value that already has a place, except the one eviction *)
(* of an unpinned register to a fresh slot: a pinned range keeps its       *)
(* register and a slot, once given, is final.                              *)
(***************************************************************************)
PlacesAreStable ==
  [][\A v \in VRegs :
       /\ pre[v] # NoReg => t'[v] = "IN_REG" /\ reg'[v] = pre[v]
       /\ t[v] = "ON_STACK" => t'[v] = "ON_STACK" /\ slot'[v] = slot[v]
       /\ t[v] = "IN_REG" /\ t'[v] = "IN_REG" => reg'[v] = reg[v]]_vars

-----------------------------------------------------------------------------
(* The strengthening that makes NoInterference inductive. *)
ActiveSorted ==
  \A i, j \in 1..Len(active) : i < j => end[active[i]] <= end[active[j]]

ActiveDistinct ==
  \A i, j \in 1..Len(active) : active[i] = active[j] => i = j

(* What is placed and not active any more ends before everything to come. *)
ExpiredIsPast ==
  \A v \in Placed : v \notin ToSet(active) =>
    /\ \A w \in todo : end[v] < start[w]
    /\ cur # NoVReg => end[v] < start[cur]

ActivePlaced == \A v \in ToSet(active) : v \in Placed /\ t[v] # "UNASSIGNED"

StartOrder ==
  /\ \A v \in Placed : /\ \A w \in todo : start[v] <= start[w]
                       /\ cur # NoVReg => start[v] <= start[cur]
  /\ cur # NoVReg => start[cur] # -1 /\ cur \notin todo
                     /\ \A w \in todo : start[cur] <= start[w]
  /\ \A w \in todo : start[w] # -1

(* What has not been placed is as instruction selection left it. *)
Untouched ==
  \A v \in VRegs : v \notin Placed =>
    /\ reg[v] = pre[v]
    /\ t[v] = IF pre[v] = NoReg THEN "UNASSIGNED" ELSE "IN_REG"

PinnedInPlace == \A v \in VRegs : pre[v] # NoReg => t[v] = "IN_REG" /\ reg[v] = pre[v]

RegClassOK == \A v \in Placed : t[v] = "IN_REG" => reg[v] \in RegsOf(type[v])

ScanInv ==
  /\ TypeOK /\ InputOK
  /\ ActiveSorted /\ ActiveDistinct /\ ActivePlaced
  /\ ExpiredIsPast /\ StartOrder /\ Untouched /\ PinnedInPlace /\ RegClassOK
  /\ RegistersAccounted /\ SlotsDisjoint /\ NoInterference
=============================================================================
