-------------------------- MODULE LinearScanProofs --------------------------
(***************************************************************************)
(* Proofs about the linear-scan pass, for any set of virtual registers,    *)
(* any allocation orders and any live ranges.                              *)
(***************************************************************************)
EXTENDS LinearScan, SeqFacts

USE DEF input

(* The insertion loop stops at an index between 1 and one past the last    *)
(* element; what is before it ends no later than v, what is after ends     *)
(* later.                                                                  *)
LEMMA InsertionPointProps ==
  ASSUME TypeOK, ActiveSorted, NEW v \in VRegs
  PROVE  /\ InsertionPoint(v) \in 1..Len(active)+1
         /\ \A j \in 1..Len(active) : j < InsertionPoint(v) => end[active[j]] <= end[v]
         /\ \A j \in 1..Len(active) : j >= InsertionPoint(v) => end[v] <= end[active[j]]
  <1> DEFINE later == {j \in 1..Len(active) : end[active[j]] > end[v]}
  <1>1. Len(active) \in Nat /\ \A j \in 1..Len(active) : end[active[j]] \in Int
    BY DEF TypeOK
  <1>2. end[v] \in Int
    BY DEF TypeOK
  <1>3. CASE later = {}
    <2>1. InsertionPoint(v) = Len(active) + 1
      BY <1>3 DEF InsertionPoint
    <2> QED BY <2>1, <1>1, <1>2, <1>3
  <1>4. CASE later # {}
    <2>1. later \in SUBSET Nat
      BY <1>1
    <2>2. \E j \in later : \A k \in later : j <= k
      BY <2>1, <1>4, LeastNat
    <2>3. InsertionPoint(v) \in later /\ \A k \in later : InsertionPoint(v) <= k
      BY <2>2, <1>4 DEF InsertionPoint
    <2> QED BY <2>3, <1>1, <1>2 DEF ActiveSorted
  <1> QED BY <1>3, <1>4


(* lowest_set_bit on a non-empty bit set names a free register of the      *)
(* class.                                                                  *)
LEMMA LowestFreeProps ==
  ASSUME NEW ty \in Types, free \cap RegsOf(ty) # {}
  PROVE  LowestFree(ty) \in free \cap RegsOf(ty)
  <1> DEFINE order == AllocOrder(ty)
             avail == {k \in 1..Len(order) : order[k] \in free}
  <1>1. order \in Seq(ToSet(order))
    BY OrderAssumption DEF AllocOrder
  <1>2. DOMAIN order = 1..Len(order) /\ 1..Len(order) \subseteq Nat
    BY <1>1
  <1>3. \E k \in DOMAIN order : order[k] \in free
    BY DEF RegsOf, ToSet
  <1>4. avail # {} /\ avail \in SUBSET Nat
    BY <1>2, <1>3
  <1> DEFINE k == CHOOSE k \in avail : \A l \in avail : k <= l
  <1>5. k \in avail
    <2> HIDE DEF avail
    <2> QED BY <1>4, LeastNat
  <1>6. LowestFree(ty) = order[k]
    BY DEF LowestFree
  <1>7. order[k] \in ToSet(order)
    <2> HIDE DEF k, order
    <2> QED BY <1>5, <1>2 DEF ToSet
  <1> QED BY <1>5, <1>6, <1>7 DEF RegsOf

(* What every way of placing v has in common: v joins active_vregs, which  *)
(* stays sorted and free of duplicates, and v counts as placed.            *)
LEMMA ActivateProps ==
  ASSUME ScanInv, NEW v \in VRegs, Placing(v), Activate(v), UNCHANGED <<input, todo>>
  PROVE  /\ v \notin Placed /\ v \notin ToSet(active) /\ v \notin todo
         /\ cur' = NoVReg /\ Placed' = Placed \cup {v}
         /\ active' \in Seq(VRegs) /\ ToSet(active') = ToSet(active) \cup {v}
         /\ ActiveSorted' /\ ActiveDistinct' /\ ExpiredIsPast' /\ StartOrder'
         /\ InputOK'
         /\ \A u \in Placed \ ToSet(active) : end[u] < start[v]
  <1>1. cur = v /\ v # NoVReg /\ v \notin Placed /\ v \notin todo
        /\ start[v] # -1 /\ cur' = NoVReg
    BY DEF Placing, Activate, ScanInv, StartOrder, Placed
  <1>2. v \notin ToSet(active)
    BY <1>1 DEF ScanInv, ActivePlaced
  <1>3. Placed' = Placed \cup {v}
    BY <1>1, ScanAssumption DEF Placed
  <1> DEFINE i == InsertionPoint(v)
  <1>4. /\ i \in 1..Len(active)+1
        /\ \A j \in 1..Len(active) : j < i => end[active[j]] <= end[v]
        /\ \A j \in 1..Len(active) : j >= i => end[v] <= end[active[j]]
    BY InsertionPointProps DEF ScanInv
  <1>5. active \in Seq(VRegs) /\ Len(active) \in Nat
    BY DEF ScanInv, TypeOK
  <1> HIDE DEF i
  <1>6. active' = InsertAt(active, i, v)
    BY DEF Activate, i
  <1>7. /\ active' \in Seq(VRegs) /\ Len(active') = Len(active) + 1
        /\ \A k \in 1..Len(active)+1 :
             active'[k] = IF k < i THEN active[k] ELSE IF k = i THEN v ELSE active[k-1]
        /\ ToSet(active') = ToSet(active) \cup {v}
    <2>1. /\ InsertAt(active, i, v) \in Seq(VRegs)
          /\ Len(InsertAt(active, i, v)) = Len(active) + 1
          /\ \A k \in 1..Len(active)+1 :
               InsertAt(active, i, v)[k] =
                 IF k < i THEN active[k] ELSE IF k = i THEN v ELSE active[k-1]
          /\ ToSet(InsertAt(active, i, v)) = ToSet(active) \cup {v}
      BY <1>4, <1>5, InsertAtProps
    <2> QED BY <2>1, <1>6
  <1>8. ActiveSorted'
    <2>1. \A j \in 1..Len(active) : end[active[j]] \in Int
      BY <1>5 DEF ScanInv, TypeOK
    <2>2. end[v] \in Int
      BY DEF ScanInv, TypeOK
    <2> SUFFICES ASSUME NEW j \in 1..Len(active)+1, NEW k \in 1..Len(active)+1, j < k
                 PROVE  end[active'[j]] <= end[active'[k]]
      BY <1>7 DEF ActiveSorted
    <2>3. \A a, b \in 1..Len(active) : a < b => end[active[a]] <= end[active[b]]
      BY DEF ScanInv, ActiveSorted
    <2>4. CASE k < i
      BY <2>4, <2>3, <1>4, <1>5, <1>7
    <2>5. CASE k = i
      BY <2>5, <1>4, <1>5, <1>7
    <2>6. CASE k > i /\ j = i
      <3>1. k-1 \in 1..Len(active) /\ k-1 >= i
        BY <2>6, <1>4, <1>5
      <3>2. active'[k] = active[k-1] /\ active'[j] = v
        BY <2>6, <1>4, <1>7
      <3> QED BY <3>1, <3>2, <1>4
    <2>7. CASE k > i /\ j > i
      <3>1. k-1 \in 1..Len(active) /\ j-1 \in 1..Len(active) /\ j-1 < k-1
        BY <2>7, <1>4, <1>5
      <3>2. active'[k] = active[k-1] /\ active'[j] = active[j-1]
        BY <2>7, <1>4, <1>7
      <3> QED BY <3>1, <3>2, <2>3
    <2>8. CASE k > i /\ j < i
      <3>1. k-1 \in 1..Len(active) /\ j \in 1..Len(active) /\ k-1 >= i
        BY <2>8, <1>4, <1>5
      <3>2. active'[k] = active[k-1] /\ active'[j] = active[j]
        BY <2>8, <1>4, <1>7
      <3>3. end[active[j]] <= end[v] /\ end[v] <= end[active[k-1]]
        BY <3>1, <2>8, <1>4
      <3> QED BY <3>1, <3>2, <3>3, <2>1, <2>2
    <2> QED BY <2>4, <2>5, <2>6, <2>7, <2>8, <1>4
  <1>9. ActiveDistinct'
    <2>1. \A a \in 1..Len(active) : active[a] # v
      <3>1. \A a \in 1..Len(active) : active[a] \in ToSet(active)
        BY <1>5 DEF ToSet
      <3> QED BY <3>1, <1>2
    <2>2. \A a, b \in 1..Len(active) : active[a] = active[b] => a = b
      BY DEF ScanInv, ActiveDistinct
    <2> SUFFICES ASSUME NEW j \in 1..Len(active)+1, NEW k \in 1..Len(active)+1, j < k,
                        active'[j] = active'[k]
                 PROVE  FALSE
      BY <1>7 DEF ActiveDistinct
    <2>3. CASE k <= i
      BY <2>3, <2>1, <2>2, <1>4, <1>5, <1>7
    <2>4. CASE k > i /\ j <= i
      <3>1. k-1 \in 1..Len(active) /\ active'[k] = active[k-1]
        BY <2>4, <1>4, <1>5, <1>7
      <3>2. CASE j = i
        BY <3>1, <3>2, <2>1, <1>7
      <3>3. CASE j < i
        <4>1. j \in 1..Len(active) /\ active'[j] = active[j] /\ j # k-1
          BY <3>3, <2>4, <1>4, <1>5, <1>7
        <4> QED BY <3>1, <4>1, <2>2
      <3> QED BY <3>2, <3>3, <2>4, <1>4
    <2>5. CASE k > i /\ j > i
      <3>1. k-1 \in 1..Len(active) /\ j-1 \in 1..Len(active)
            /\ active'[k] = active[k-1] /\ active'[j] = active[j-1] /\ j-1 # k-1
        BY <2>5, <1>4, <1>5, <1>7
      <3> QED BY <3>1, <2>2
    <2> QED BY <2>3, <2>4, <2>5, <1>4
  <1>10. ExpiredIsPast' /\ StartOrder' /\ InputOK'
         /\ \A u \in Placed \ ToSet(active) : end[u] < start[v]
    <2>1. ExpiredIsPast'
      BY <1>1, <1>3, <1>7 DEF ScanInv, ExpiredIsPast
    <2>2. StartOrder'
      BY <1>1, <1>3 DEF ScanInv, StartOrder
    <2>3. InputOK'
      BY DEF ScanInv, InputOK, Overlap
    <2>4. \A u \in Placed \ ToSet(active) : end[u] < start[v]
      BY <1>1 DEF ScanInv, ExpiredIsPast
    <2> QED BY <2>1, <2>2, <2>3, <2>4
  <1> QED BY <1>1, <1>2, <1>3, <1>7, <1>8, <1>9, <1>10

-----------------------------------------------------------------------------
(* A register belongs to one class only, so the class of a register that   *)
(* is taken is the class of its holder.                                    *)
LEMMA ClassFacts ==
  /\ \A ty \in Types : RegsOf(ty) \subseteq Regs
  /\ NoReg \notin Regs
  BY OrderAssumption DEF Types, RegsOf, AllocOrder, Regs

(* Before the first range every register is free and active_vregs is empty.*)
LEMMA InitInv == Init => ScanInv
  <1> SUFFICES ASSUME Init PROVE ScanInv
    OBVIOUS
  <1>1. active = <<>> /\ ToSet(active) = {} /\ Len(active) = 0
    BY DEF Init, ToSet
  <1>2. Placed = {}
    BY ScanAssumption DEF Init, Placed
  <1>3. TypeOK
    <2>1. stack \in Nat /\ slot \in [VRegs -> Nat]
      BY ScanAssumption DEF Init
    <2>2. start \in [VRegs -> Int] /\ end \in [VRegs -> Int]
      BY ScanAssumption DEF Init
    <2> QED BY <2>1, <2>2 DEF Init, TypeOK
  <1>4. InputOK
    BY DEF Init
  <1>5. ActiveSorted /\ ActiveDistinct /\ ActivePlaced /\ ExpiredIsPast /\ NoInterference
    BY <1>1, <1>2 DEF ActiveSorted, ActiveDistinct, ActivePlaced, ExpiredIsPast, NoInterference
  <1>6. StartOrder
    BY <1>2 DEF Init, StartOrder
  <1>7. Untouched /\ PinnedInPlace
    BY DEF Init, Untouched, PinnedInPlace
  <1>8. RegClassOK
    BY <1>2 DEF RegClassOK
  <1>9. RegistersAccounted
    BY <1>1 DEF Init, RegistersAccounted, HoldersOf
  <1>10. SlotsDisjoint
    BY ScanAssumption DEF Init, SlotsDisjoint
  <1> QED BY <1>3, <1>4, <1>5, <1>6, <1>7, <1>8, <1>9, <1>10 DEF ScanInv

(* Picking the next range changes no place and no register. *)
LEMMA PickRangeInv ==
  ASSUME ScanInv, NEW v \in VRegs, PickRange(v)
  PROVE  ScanInv'
  <1>1. /\ cur = NoVReg /\ cur' = v /\ v \in todo /\ todo' = todo \ {v}
        /\ v # NoVReg /\ \A w \in todo : start[v] <= start[w]
    BY ScanAssumption DEF PickRange
  <1>2. UNCHANGED <<start, end, type, pre, t, reg, slot, free, active, stack, status>>
    BY DEF PickRange
  <1>3. Placed' = Placed
    BY <1>1, <1>2, ScanAssumption DEF Placed
  <1>4. TypeOK'
    BY <1>1, <1>2 DEF ScanInv, TypeOK
  <1>5. InputOK' /\ ActiveSorted' /\ ActiveDistinct' /\ ActivePlaced'
    BY <1>2, <1>3 DEF ScanInv, InputOK, Overlap, ActiveSorted, ActiveDistinct, ActivePlaced
  <1>6. ExpiredIsPast'
    BY <1>1, <1>2, <1>3 DEF ScanInv, ExpiredIsPast
  <1>7. StartOrder'
    BY <1>1, <1>2, <1>3 DEF ScanInv, StartOrder
  <1>8. Untouched' /\ PinnedInPlace' /\ RegClassOK' /\ NoInterference'
    BY <1>2, <1>3 DEF ScanInv, Untouched, PinnedInPlace, RegClassOK, NoInterference, Overlap
  <1>9. RegistersAccounted' /\ SlotsDisjoint'
    BY <1>2 DEF ScanInv, RegistersAccounted, HoldersOf, SlotsDisjoint
  <1> QED BY <1>4, <1>5, <1>6, <1>7, <1>8, <1>9 DEF ScanInv

(* Expiring the head of active_vregs frees exactly the register it held.   *)
LEMMA ExpireHeadInv ==
  ASSUME ScanInv, ExpireHead
  PROVE  ScanInv'
  <1> DEFINE h == Head(active)
  <1>1. /\ cur # NoVReg /\ active # <<>> /\ end[h] < start[cur]
        /\ free' = IF t[h] = "IN_REG" THEN free \cup {reg[h]} ELSE free
        /\ active' = Tail(active)
    BY DEF ExpireHead, HeadExpired
  <1>2. UNCHANGED <<start, end, type, pre, t, reg, slot, todo, cur, stack, status>>
    BY DEF ExpireHead
  <1>3. active \in Seq(VRegs)
    BY DEF ScanInv, TypeOK
  <1>4. /\ active' \in Seq(VRegs) /\ Len(active') = Len(active) - 1 /\ Len(active) \in Nat
        /\ \A k \in 1..Len(active)-1 : active'[k] = active[k+1]
        /\ h = active[1] /\ h \in VRegs
        /\ ToSet(active) = {h} \cup ToSet(active')
    BY <1>1, <1>3, TailProps
  <1> HIDE DEF h
  <1>5. Placed' = Placed
    BY <1>2 DEF Placed
  <1>6. ActiveDistinct' /\ ActiveSorted'
    <2>1. \A k \in 1..Len(active)-1 : k+1 \in 1..Len(active)
      BY <1>4
    <2>2. \A j, k \in 1..Len(active)-1 : active'[j] = active'[k] => j + 1 = k + 1
      BY <1>4, <2>1 DEF ScanInv, ActiveDistinct
    <2>3. ActiveDistinct'
      BY <2>2, <1>4 DEF ActiveDistinct
    <2>4. \A j, k \in 1..Len(active)-1 : j + 1 < k + 1 => end[active'[j]] <= end[active'[k]]
      BY <1>4, <2>1 DEF ScanInv, ActiveSorted
    <2>5. ActiveSorted'
      BY <2>4, <1>2, <1>4 DEF ActiveSorted
    <2> QED BY <2>3, <2>5
  <1>7. h \notin ToSet(active')
    <2>1. \A k \in 1..Len(active)-1 : active[k+1] # h
      BY <1>4, <1>1, <1>3 DEF ScanInv, ActiveDistinct
    <2>2. DOMAIN active' = 1..Len(active)-1
      BY <1>4
    <2> QED BY <2>1, <2>2, <1>4 DEF ToSet
  <1>8. ActivePlaced' /\ h \in Placed /\ t[h] # "UNASSIGNED"
    BY <1>2, <1>4, <1>5 DEF ScanInv, ActivePlaced
  <1>9. ExpiredIsPast'
    <2>1. \A w \in todo : start[cur] <= start[w]
      BY <1>1 DEF ScanInv, StartOrder
    <2>2. \A w \in todo : end[h] < start[w]
      BY <2>1, <1>1, <1>4 DEF ScanInv, TypeOK
    <2> QED BY <2>2, <1>1, <1>2, <1>4, <1>5 DEF ScanInv, ExpiredIsPast
  <1>10. StartOrder' /\ InputOK' /\ Untouched' /\ PinnedInPlace' /\ RegClassOK'
         /\ NoInterference' /\ SlotsDisjoint'
    BY <1>2, <1>5 DEF ScanInv, StartOrder, InputOK, Overlap, Untouched, PinnedInPlace,
                       RegClassOK, NoInterference, SlotsDisjoint
  <1>11. t[h] = "IN_REG" => reg[h] \in Regs
    BY <1>4, <1>8, ClassFacts DEF ScanInv, RegClassOK, TypeOK
  <1>12. TypeOK'
    BY <1>1, <1>2, <1>4, <1>11 DEF ScanInv, TypeOK
  <1>13. RegistersAccounted'
    <2>1. \A r \in Regs : HoldersOf(r)' = HoldersOf(r) \ {h}
      BY <1>2, <1>4, <1>7 DEF HoldersOf
    <2>2. \A r \in Regs : h \in HoldersOf(r) <=> t[h] = "IN_REG" /\ reg[h] = r
      BY <1>4 DEF HoldersOf
    <2> SUFFICES ASSUME NEW r \in Regs
                 PROVE  /\ r \in free' => HoldersOf(r)' = {}
                        /\ r \notin free' => \E u \in ToSet(active') : HoldersOf(r)' = {u}
      BY DEF RegistersAccounted
    <2>3. CASE h \in HoldersOf(r)
      <3>1. r \notin free /\ HoldersOf(r) = {h}
        BY <2>3 DEF ScanInv, RegistersAccounted
      <3> QED BY <3>1, <2>1, <2>2, <2>3, <1>1
    <2>4. CASE h \notin HoldersOf(r)
      <3>1. HoldersOf(r)' = HoldersOf(r) /\ (r \in free' <=> r \in free)
        BY <2>1, <2>2, <2>4, <1>1
      <3> QED BY <3>1, <2>4, <1>4 DEF ScanInv, RegistersAccounted
    <2> QED BY <2>3, <2>4
  <1> QED BY <1>6, <1>8, <1>9, <1>10, <1>12, <1>13 DEF ScanInv

(* Placing a range leaves a place on whatever is not placed yet, and the   *)
(* other ranges hold what they held.                                       *)
LEMMA TakeRegisterInv ==
  ASSUME ScanInv, NEW v \in VRegs, TakeRegister(v)
  PROVE  ScanInv'
  <1> DEFINE r == LowestFree(type[v])
  <1>1. /\ t[v] = "UNASSIGNED" /\ t' = [t EXCEPT ![v] = "IN_REG"]
        /\ reg' = [reg EXCEPT ![v] = r] /\ free' = free \ {r}
    BY DEF TakeRegister
  <1>2. UNCHANGED <<start, end, type, pre, slot, todo, stack, status>>
    BY DEF TakeRegister
  <1>3. type[v] \in Types
    BY DEF ScanInv, TypeOK
  <1>4. r \in free /\ r \in RegsOf(type[v])
    BY <1>3, LowestFreeProps DEF TakeRegister
  <1>5. r \in Regs
    BY <1>4 DEF ScanInv, TypeOK
  <1> HIDE DEF r
  <1>6. /\ v \notin Placed /\ v \notin ToSet(active) /\ v \notin todo
        /\ cur' = NoVReg /\ Placed' = Placed \cup {v}
        /\ active' \in Seq(VRegs) /\ ToSet(active') = ToSet(active) \cup {v}
        /\ ActiveSorted' /\ ActiveDistinct' /\ ExpiredIsPast' /\ StartOrder'
        /\ InputOK'
        /\ \A u \in Placed \ ToSet(active) : end[u] < start[v]
    <2>1. Placing(v) /\ Activate(v) /\ UNCHANGED <<input, todo>>
      BY DEF TakeRegister
    <2> QED BY <2>1, ActivateProps
  <1>7. TypeOK'
    BY <1>1, <1>2, <1>5, <1>6 DEF ScanInv, TypeOK
  <1>8. pre[v] = NoReg
    BY <1>1 DEF ScanInv, PinnedInPlace
  <1>9. \A u \in VRegs : /\ t'[u] = IF u = v THEN "IN_REG" ELSE t[u]
                         /\ reg'[u] = IF u = v THEN r ELSE reg[u]
    BY <1>1 DEF ScanInv, TypeOK
  <1>10. ActivePlaced'
    <2>1. \A u \in ToSet(active) : u \in VRegs /\ u \in Placed /\ t[u] # "UNASSIGNED"
      BY DEF ScanInv, ActivePlaced, Placed
    <2> QED BY <2>1, <1>6, <1>9 DEF ActivePlaced
  <1>11. Untouched' /\ PinnedInPlace' /\ RegClassOK'
    <2>1. Untouched'
      BY <1>2, <1>6, <1>9 DEF ScanInv, Untouched
    <2>2. PinnedInPlace'
      BY <1>2, <1>8, <1>9 DEF ScanInv, PinnedInPlace
    <2>3. RegClassOK'
      BY <1>2, <1>4, <1>6, <1>9 DEF ScanInv, RegClassOK, RegsOf, AllocOrder, Placed
    <2> QED BY <2>1, <2>2, <2>3
  <1>12. HoldersOf(r) = {}
    BY <1>4, <1>5 DEF ScanInv, RegistersAccounted
  <1>13. RegistersAccounted'
    <2>1. \A q \in Regs : HoldersOf(q)' = IF q = r THEN HoldersOf(q) \cup {v} ELSE HoldersOf(q)
      <3>1. \A u \in ToSet(active) : u \in VRegs /\ u # v
        BY <1>6 DEF ScanInv, ActivePlaced, Placed
      <3> QED BY <3>1, <1>6, <1>9 DEF HoldersOf
    <2> QED BY <2>1, <1>1, <1>6, <1>12 DEF ScanInv, RegistersAccounted
  <1>14. SlotsDisjoint'
    BY <1>2, <1>9 DEF ScanInv, SlotsDisjoint
  <1>15. NoInterference'
    <2>1. ASSUME NEW u \in Placed, t[u] = "IN_REG", reg[u] = r
          PROVE  ~Overlap(u, v)
      <3>1. u \notin ToSet(active)
        BY <2>1, <1>12 DEF HoldersOf
      <3>2. u \in VRegs /\ end[u] \in Int /\ start[v] \in Int /\ end[u] < start[v]
        BY <3>1, <1>6 DEF ScanInv, TypeOK, Placed
      <3> QED BY <3>2 DEF Overlap
    <2>2. \A u, w \in VRegs : Overlap(u, w)' = Overlap(u, w) /\ Overlap(u, w) = Overlap(w, u)
      BY <1>2 DEF Overlap
    <2>3. Placed \subseteq VRegs
      BY DEF Placed
    <2> QED BY <2>1, <2>2, <2>3, <1>6, <1>9 DEF ScanInv, NoInterference
  <1> QED BY <1>6, <1>7, <1>10, <1>11, <1>13, <1>14, <1>15 DEF ScanInv

(* Giving the current range a new stack slot leaves every register alone.  *)
LEMMA SpillCurrentInv ==
  ASSUME ScanInv, NEW v \in VRegs, SpillCurrent(v)
  PROVE  ScanInv'
  <1>1. /\ t[v] = "UNASSIGNED" /\ t' = [t EXCEPT ![v] = "ON_STACK"]
        /\ slot' = [slot EXCEPT ![v] = stack] /\ stack' = stack + 8
        /\ reg' = [reg EXCEPT ![v] = NoReg]
    BY DEF SpillCurrent, NewSlot
  <1>2. UNCHANGED <<start, end, type, pre, free, todo, status>>
    BY DEF SpillCurrent
  <1>6. /\ v \notin Placed /\ v \notin ToSet(active) /\ v \notin todo
        /\ cur' = NoVReg /\ Placed' = Placed \cup {v}
        /\ active' \in Seq(VRegs) /\ ToSet(active') = ToSet(active) \cup {v}
        /\ ActiveSorted' /\ ActiveDistinct' /\ ExpiredIsPast' /\ StartOrder'
        /\ InputOK'
    <2>1. Placing(v) /\ Activate(v) /\ UNCHANGED <<input, todo>>
      BY DEF SpillCurrent
    <2> QED BY <2>1, ActivateProps
  <1>7. TypeOK'
    BY <1>1, <1>2, <1>6 DEF ScanInv, TypeOK
  <1>8. pre[v] = NoReg
    BY <1>1 DEF ScanInv, PinnedInPlace
  <1>9. \A u \in VRegs : /\ t'[u] = IF u = v THEN "ON_STACK" ELSE t[u]
                         /\ reg'[u] = IF u = v THEN NoReg ELSE reg[u]
                         /\ slot'[u] = IF u = v THEN stack ELSE slot[u]
    BY <1>1 DEF ScanInv, TypeOK
  <1>10. ActivePlaced'
    <2>1. \A u \in ToSet(active) : u \in VRegs /\ u \in Placed /\ t[u] # "UNASSIGNED"
      BY DEF ScanInv, ActivePlaced, Placed
    <2> QED BY <2>1, <1>6, <1>9 DEF ActivePlaced
  <1>11. Untouched' /\ PinnedInPlace' /\ RegClassOK'
    <2>1. Untouched'
      BY <1>2, <1>6, <1>9 DEF ScanInv, Untouched
    <2>2. PinnedInPlace'
      BY <1>2, <1>8, <1>9 DEF ScanInv, PinnedInPlace
    <2>3. RegClassOK'
      BY <1>2, <1>6, <1>9 DEF ScanInv, RegClassOK, RegsOf, AllocOrder, Placed
    <2> QED BY <2>1, <2>2, <2>3
  <1>13. RegistersAccounted'
    <2>1. \A q \in Regs : HoldersOf(q)' = HoldersOf(q)
      <3>1. \A u \in ToSet(active) : u \in VRegs /\ u # v
        BY <1>6 DEF ScanInv, ActivePlaced, Placed
      <3> QED BY <3>1, <1>6, <1>9 DEF HoldersOf
    <2> QED BY <2>1, <1>2, <1>6 DEF ScanInv, RegistersAccounted
  <1>14. SlotsDisjoint'
    <2>1. stack \in Nat /\ FrameBase <= stack /\ \A u \in VRegs : slot[u] \in Nat
      BY DEF ScanInv, TypeOK, SlotsDisjoint
    <2> QED BY <2>1, <1>1, <1>9, ScanAssumption DEF ScanInv, SlotsDisjoint
  <1>15. NoInterference'
    BY <1>2, <1>6, <1>9 DEF ScanInv, NoInterference, Overlap, Placed
  <1> QED BY <1>6, <1>7, <1>10, <1>11, <1>13, <1>14, <1>15 DEF ScanInv

(* A range that is reached with a place already is pinned.                 *)
LEMMA PinnedProps ==
  ASSUME ScanInv, NEW v \in VRegs, v \notin Placed, t[v] # "UNASSIGNED"
  PROVE  t[v] = "IN_REG" /\ pre[v] # NoReg /\ reg[v] = pre[v]
  BY DEF ScanInv, Untouched

(* Reaching a pre-allocated range takes its own register, which was kept   *)
(* out of every earlier choice.                                            *)
LEMMA ClaimPreAllocedInv ==
  ASSUME ScanInv, NEW v \in VRegs, ClaimPreAlloced(v)
  PROVE  ScanInv'
  <1>1. t[v] # "UNASSIGNED" /\ reg[v] \in free /\ free' = free \ {reg[v]}
    BY DEF ClaimPreAlloced
  <1>2. UNCHANGED <<start, end, type, pre, t, reg, slot, todo, stack, status>>
    BY DEF ClaimPreAlloced
  <1>3. /\ v \notin Placed /\ v \notin ToSet(active) /\ v \notin todo
        /\ cur' = NoVReg /\ Placed' = Placed \cup {v}
        /\ active' \in Seq(VRegs) /\ ToSet(active') = ToSet(active) \cup {v}
        /\ ActiveSorted' /\ ActiveDistinct' /\ ExpiredIsPast' /\ StartOrder'
        /\ InputOK'
        /\ \A u \in Placed \ ToSet(active) : end[u] < start[v]
    <2>1. Placing(v) /\ Activate(v) /\ UNCHANGED <<input, todo>>
      BY DEF ClaimPreAlloced
    <2> QED BY <2>1, ActivateProps
  <1>4. t[v] = "IN_REG" /\ reg[v] \in Regs /\ reg[v] \in RegsOf(type[v])
    <2>1. reg[v] \in Regs /\ free \subseteq Regs
      BY <1>1 DEF ScanInv, TypeOK
    <2>2. pre[v] = reg[v] /\ t[v] = "IN_REG" /\ pre[v] # NoReg
      BY <1>1, <1>3, PinnedProps
    <2> QED BY <2>1, <2>2, OrderAssumption DEF ScanInv, InputOK, Regs
  <1>5. TypeOK'
    BY <1>1, <1>2, <1>3 DEF ScanInv, TypeOK
  <1>6. ActivePlaced'
    BY <1>2, <1>3, <1>4 DEF ScanInv, ActivePlaced
  <1>7. Untouched' /\ PinnedInPlace' /\ RegClassOK' /\ SlotsDisjoint'
    <2>1. Untouched' /\ PinnedInPlace' /\ SlotsDisjoint'
      BY <1>2, <1>3 DEF ScanInv, Untouched, PinnedInPlace, SlotsDisjoint
    <2>2. RegClassOK'
      BY <1>2, <1>3, <1>4 DEF ScanInv, RegClassOK, RegsOf, AllocOrder
    <2> QED BY <2>1, <2>2
  <1>8. HoldersOf(reg[v]) = {}
    BY <1>1, <1>4 DEF ScanInv, RegistersAccounted
  <1>9. RegistersAccounted'
    <2>1. \A q \in Regs :
            HoldersOf(q)' = IF q = reg[v] THEN HoldersOf(q) \cup {v} ELSE HoldersOf(q)
      BY <1>2, <1>3, <1>4 DEF HoldersOf
    <2> QED BY <2>1, <1>1, <1>3, <1>8 DEF ScanInv, RegistersAccounted
  <1>10. NoInterference'
    <2>1. ASSUME NEW u \in Placed, t[u] = "IN_REG", reg[u] = reg[v]
          PROVE  ~Overlap(u, v)
      <3>1. u \notin ToSet(active)
        BY <2>1, <1>8 DEF HoldersOf
      <3>2. u \in VRegs /\ end[u] \in Int /\ start[v] \in Int /\ end[u] < start[v]
        BY <3>1, <1>3 DEF ScanInv, TypeOK, Placed
      <3> QED BY <3>2 DEF Overlap
    <2>2. \A u, w \in VRegs : Overlap(u, w)' = Overlap(u, w) /\ Overlap(u, w) = Overlap(w, u)
      BY <1>2 DEF Overlap
    <2>3. Placed \subseteq VRegs
      BY DEF Placed
    <2> QED BY <2>1, <2>2, <2>3, <1>2, <1>3 DEF ScanInv, NoInterference
  <1> QED BY <1>3, <1>5, <1>6, <1>7, <1>9, <1>10 DEF ScanInv

(* The eviction: the holder moves to a fresh slot and its register passes  *)
(* to v without going through the free set.                                *)
LEMMA EvictForInv ==
  ASSUME ScanInv, NEW v \in VRegs, EvictFor(v)
  PROVE  ScanInv'
  <1>1. /\ t[v] # "UNASSIGNED" /\ reg[v] \in RegsOf(type[v]) /\ reg[v] \notin free
        /\ UNCHANGED <<start, end, type, pre, free, todo, status>>
    BY DEF EvictFor, NeedsEviction
  <1>2. PICK e \in HoldersOf(reg[v]) : pre[e] = NoReg /\ NewSlot(e)
    BY DEF EvictFor
  <1>3. /\ v \notin Placed /\ v \notin ToSet(active) /\ v \notin todo
        /\ cur' = NoVReg /\ Placed' = Placed \cup {v}
        /\ active' \in Seq(VRegs) /\ ToSet(active') = ToSet(active) \cup {v}
        /\ ActiveSorted' /\ ActiveDistinct' /\ ExpiredIsPast' /\ StartOrder'
        /\ InputOK'
        /\ \A u \in Placed \ ToSet(active) : end[u] < start[v]
    <2>1. Placing(v) /\ Activate(v) /\ UNCHANGED <<input, todo>>
      BY DEF EvictFor, NeedsEviction
    <2> QED BY <2>1, ActivateProps
  <1>4. t[v] = "IN_REG" /\ reg[v] \in Regs
    <2>1. type[v] \in Types
      BY DEF ScanInv, TypeOK
    <2> QED BY <2>1, <1>1, <1>3, PinnedProps, ClassFacts
  <1>5. /\ e \in ToSet(active) /\ e \in Placed /\ e \in VRegs /\ e # v
        /\ t[e] = "IN_REG" /\ reg[e] = reg[v]
    BY <1>2, <1>3 DEF HoldersOf, ScanInv, ActivePlaced, Placed
  <1>6. HoldersOf(reg[v]) = {e}
    BY <1>1, <1>2, <1>4 DEF ScanInv, RegistersAccounted
  <1>7. /\ t' = [t EXCEPT ![e] = "ON_STACK"] /\ slot' = [slot EXCEPT ![e] = stack]
        /\ stack' = stack + 8 /\ reg' = [reg EXCEPT ![e] = NoReg]
    BY <1>2 DEF NewSlot
  <1>8. TypeOK'
    BY <1>1, <1>3, <1>5, <1>7 DEF ScanInv, TypeOK
  <1>9. \A u \in VRegs : /\ t'[u] = IF u = e THEN "ON_STACK" ELSE t[u]
                         /\ reg'[u] = IF u = e THEN NoReg ELSE reg[u]
                         /\ slot'[u] = IF u = e THEN stack ELSE slot[u]
    BY <1>5, <1>7 DEF ScanInv, TypeOK
  <1>10. ActivePlaced'
    <2>1. \A u \in ToSet(active) : u \in VRegs /\ u \in Placed /\ t[u] # "UNASSIGNED"
      BY DEF ScanInv, ActivePlaced, Placed
    <2> QED BY <2>1, <1>3, <1>4, <1>9 DEF ActivePlaced
  <1>11. Untouched' /\ PinnedInPlace' /\ RegClassOK'
    <2>1. Untouched'
      BY <1>1, <1>3, <1>5, <1>9 DEF ScanInv, Untouched
    <2>2. PinnedInPlace'
      BY <1>1, <1>2, <1>9 DEF ScanInv, PinnedInPlace
    <2>3. RegClassOK'
      BY <1>1, <1>3, <1>4, <1>5, <1>9 DEF ScanInv, RegClassOK, RegsOf, AllocOrder, Placed
    <2> QED BY <2>1, <2>2, <2>3
  <1>12. RegistersAccounted'
    <2>1. \A q \in Regs : HoldersOf(q)' = IF q = reg[v] THEN {v} ELSE HoldersOf(q)
      <3>1. \A u \in ToSet(active) : u \in VRegs /\ u # v
        BY <1>3 DEF ScanInv, ActivePlaced, Placed
      <3>2. \A q \in Regs \ {reg[v]} : HoldersOf(q)' = HoldersOf(q)
        BY <3>1, <1>3, <1>5, <1>9 DEF HoldersOf
      <3>3. \A u \in ToSet(active) : ~(t'[u] = "IN_REG" /\ reg'[u] = reg[v])
        BY <3>1, <1>6, <1>9 DEF HoldersOf
      <3>4. v \in HoldersOf(reg[v])'
        BY <1>3, <1>4, <1>5, <1>9 DEF HoldersOf
      <3>5. \A q : q = reg[v] => HoldersOf(q)' = {v}
        BY <3>3, <1>3, <1>4, <1>5, <1>9 DEF HoldersOf
      <3> QED BY <3>2, <3>5
    <2> QED BY <2>1, <1>1, <1>3 DEF ScanInv, RegistersAccounted
  <1>13. SlotsDisjoint'
    <2>1. stack \in Nat /\ FrameBase <= stack /\ \A u \in VRegs : slot[u] \in Nat
      BY DEF ScanInv, TypeOK, SlotsDisjoint
    <2> QED BY <2>1, <1>7, <1>9, ScanAssumption DEF ScanInv, SlotsDisjoint
  <1>14. NoInterference'
    <2>1. ASSUME NEW u \in Placed, u # e, t[u] = "IN_REG", reg[u] = reg[v]
          PROVE  ~Overlap(u, v)
      <3>1. u \notin ToSet(active)
        BY <2>1, <1>6 DEF HoldersOf
      <3>2. u \in VRegs /\ end[u] \in Int /\ start[v] \in Int /\ end[u] < start[v]
        BY <3>1, <1>3 DEF ScanInv, TypeOK, Placed
      <3> QED BY <3>2 DEF Overlap
    <2>2. \A u, w \in VRegs : Overlap(u, w)' = Overlap(u, w) /\ Overlap(u, w) = Overlap(w, u)
      BY <1>1 DEF Overlap
    <2>3. Placed \subseteq VRegs
      BY DEF Placed
    <2> QED BY <2>1, <2>2, <2>3, <1>3, <1>5, <1>9 DEF ScanInv, NoInterference
  <1> QED BY <1>3, <1>8, <1>10, <1>11, <1>12, <1>13, <1>14 DEF ScanInv

-----------------------------------------------------------------------------
(* Everything but status unchanged keeps the invariant: a stutter, or the  *)
(* step that stops the pass.                                               *)
LEMMA UnchangedInv ==
  ASSUME ScanInv, status' \in {"scanning", "aborted", "undefined"},
         UNCHANGED <<start, end, type, pre, t, reg, slot, free, active, todo, cur, stack>>
  PROVE  ScanInv'
  <1>1. TypeOK' /\ InputOK' /\ Placed' = Placed
    BY DEF ScanInv, TypeOK, InputOK, Placed
  <1>2. ActiveSorted' /\ ActiveDistinct' /\ ActivePlaced' /\ ExpiredIsPast' /\ StartOrder'
    BY <1>1 DEF ScanInv, ActiveSorted, ActiveDistinct, ActivePlaced, ExpiredIsPast, StartOrder
  <1>3. Untouched' /\ PinnedInPlace' /\ RegClassOK' /\ SlotsDisjoint'
    BY <1>1 DEF ScanInv, Untouched, PinnedInPlace, RegClassOK, SlotsDisjoint
  <1>4. RegistersAccounted' /\ NoInterference'
    BY <1>1 DEF ScanInv, RegistersAccounted, HoldersOf, NoInterference, Overlap
  <1> QED BY <1>1, <1>2, <1>3, <1>4 DEF ScanInv

(* Every step of the scan keeps the inductive invariant: one case per      *)
(* action.                                                                 *)
LEMMA NextInv == ScanInv /\ [Next]_vars => ScanInv'
  <1> SUFFICES ASSUME ScanInv, [Next]_vars PROVE ScanInv'
    OBVIOUS
  <1>1. ASSUME NEW v \in VRegs, PickRange(v) PROVE ScanInv'
    BY <1>1, PickRangeInv
  <1>2. CASE ExpireHead
    BY <1>2, ExpireHeadInv
  <1>3. ASSUME NEW v \in VRegs, TakeRegister(v) PROVE ScanInv'
    BY <1>3, TakeRegisterInv
  <1>4. ASSUME NEW v \in VRegs, SpillCurrent(v) PROVE ScanInv'
    BY <1>4, SpillCurrentInv
  <1>5. ASSUME NEW v \in VRegs, ClaimPreAlloced(v) PROVE ScanInv'
    BY <1>5, ClaimPreAllocedInv
  <1>6. ASSUME NEW v \in VRegs, EvictFor(v) PROVE ScanInv'
    BY <1>6, EvictForInv
  <1>7. CASE UNCHANGED vars
    <2>1. status' \in {"scanning", "aborted", "undefined"}
          /\ UNCHANGED <<start, end, type, pre, t, reg, slot, free, active, todo, cur, stack>>
      BY <1>7 DEF vars, ScanInv, TypeOK
    <2> QED BY <2>1, UnchangedInv
  <1>8. CASE Done
    BY <1>7, <1>8 DEF Done
  <1>9. ASSUME NEW v \in VRegs, AssertFails(v) \/ ReadPastIndex(v) PROVE ScanInv'
    <2>1. \E how \in {"aborted", "undefined"} : Stop(how)
      BY <1>9 DEF AssertFails, ReadPastIndex
    <2> QED BY <2>1, UnchangedInv DEF Stop
  <1> QED BY <1>1, <1>2, <1>3, <1>4, <1>5, <1>6, <1>7, <1>8, <1>9 DEF Next

(***************************************************************************)
(* The scan keeps its inductive invariant: sorted duplicate-free           *)
(* active_vregs, a free set that agrees with it, untouched future ranges.  *)
(***************************************************************************)
THEOREM ScanInvariant == Spec => []ScanInv
  BY InitInv, NextInv, PTL DEF Spec

(***************************************************************************)
(* Type correctness of the scan, for any input.                            *)
(***************************************************************************)
THEOREM TypeCorrect == Spec => []TypeOK
  <1>1. ScanInv => TypeOK
    BY DEF ScanInv
  <1> QED BY <1>1, ScanInvariant, PTL

(***************************************************************************)
(* allocate_registers never gives one register to two values that are live *)
(* at the same time, for any number of ranges and registers.               *)
(***************************************************************************)
THEOREM NoInterferenceHolds == Spec => []NoInterference
  <1>1. ScanInv => NoInterference
    BY DEF ScanInv
  <1> QED BY <1>1, ScanInvariant, PTL

(***************************************************************************)
(* free_regs_bitset and active_vregs always agree.                         *)
(***************************************************************************)
THEOREM RegistersAccountedHolds == Spec => []RegistersAccounted
  <1>1. ScanInv => RegistersAccounted
    BY DEF ScanInv
  <1> QED BY <1>1, ScanInvariant, PTL

(***************************************************************************)
(* No two spilled values share a byte of the frame.                        *)
(***************************************************************************)
THEOREM SlotsDisjointHolds == Spec => []SlotsDisjoint
  <1>1. ScanInv => SlotsDisjoint
    BY DEF ScanInv
  <1> QED BY <1>1, ScanInvariant, PTL

(* When an ASSERT of the pinned path fails, the holder of the register was *)
(* found and is pinned to it as well: the two ranges overlap.              *)
LEMMA AssertNamesClash ==
  ASSUME ScanInv, NEW v \in VRegs, Placing(v), t[v] # "UNASSIGNED", ~Asserts(v)
  PROVE  PinnedClash
  <1>1. cur = v /\ v # NoVReg /\ ~HeadExpired
    BY DEF Placing
  <1>2. v \notin Placed
    BY <1>1 DEF Placed
  <1>3. t[v] = "IN_REG" /\ pre[v] # NoReg /\ reg[v] = pre[v]
    BY <1>2, PinnedProps
  <1>4. /\ reg[v] \in RegsOf(type[v]) /\ reg[v] \notin free
        /\ \A u \in HoldersOf(reg[v]) : pre[u] # NoReg
    BY <1>3 DEF Asserts, NeedsEviction
  <1>5. PICK u \in HoldersOf(reg[v]) : pre[u] # NoReg
    <2>1. type[v] \in Types
      BY DEF ScanInv, TypeOK
    <2>2. reg[v] \in Regs
      BY <2>1, <1>4, ClassFacts
    <2> QED BY <2>2, <1>4 DEF ScanInv, RegistersAccounted
  <1>6. u \in ToSet(active) /\ u \in Placed /\ u \in VRegs /\ u # v
        /\ t[u] = "IN_REG" /\ reg[u] = reg[v]
    BY <1>2, <1>5 DEF HoldersOf, ScanInv, ActivePlaced, Placed
  <1>7. pre[u] = pre[v]
    BY <1>3, <1>5, <1>6 DEF ScanInv, PinnedInPlace
  <1>8. start[u] # -1 /\ start[v] # -1 /\ start[u] <= start[v]
    BY <1>1, <1>6 DEF ScanInv, StartOrder, Placed
  <1>9. end[u] >= start[v]
    <2>1. active \in Seq(VRegs) /\ active # <<>>
      BY <1>6 DEF ScanInv, TypeOK, ToSet
    <2>2. Head(active) = active[1] /\ Len(active) \in Nat /\ 1 \in 1..Len(active)
      BY <2>1
    <2>3. PICK k \in 1..Len(active) : u = active[k]
      BY <2>1, <1>6 DEF ToSet
    <2>4. end[active[1]] <= end[u]
      BY <2>1, <2>2, <2>3 DEF ScanInv, ActiveSorted, TypeOK
    <2>5. end[active[1]] \in Int /\ end[u] \in Int /\ start[v] \in Int
      <3>1. active[1] \in VRegs
        BY <2>1, <2>2
      <3> QED BY <3>1, <1>6 DEF ScanInv, TypeOK
    <2>6. ~(end[active[1]] < start[v])
      BY <1>1, <2>1, <2>2 DEF HeadExpired
    <2> QED BY <2>4, <2>5, <2>6
  <1>10. start[v] <= end[v] /\ start[u] \in Int /\ start[v] \in Int /\ end[v] \in Int
         /\ end[u] \in Int
    BY <1>8, <1>6 DEF ScanInv, InputOK, TypeOK
  <1>11. Overlap(u, v)
    BY <1>8, <1>9, <1>10 DEF Overlap
  <1> QED BY <1>3, <1>6, <1>7, <1>8, <1>11 DEF PinnedClash

(***************************************************************************)
(* The ASSERTs on the pinned path of allocate_registers fail exactly on an *)
(* input with two overlapping ranges pinned to one register, and the index *)
(* is read past its end exactly for a register outside the orders.         *)
(***************************************************************************)
THEOREM EvictionAssertsHold == Spec => []EvictionAsserts
  <1> DEFINE Why == /\ status = "aborted" => PinnedClash
                    /\ status = "undefined" => \E v \in VRegs : pre[v] \in Unindexed
  <1>1. Init => Why
    BY DEF Init
  <1>2. ScanInv /\ Why /\ [Next]_vars => Why'
    <2> SUFFICES ASSUME ScanInv, Why, [Next]_vars PROVE Why'
      OBVIOUS
    <2>1. UNCHANGED <<start, end, type, pre>>
      BY DEF Next, PickRange, ExpireHead, TakeRegister, SpillCurrent, ClaimPreAlloced,
             EvictFor, AssertFails, ReadPastIndex, Stop, Done, vars
    <2>2. PinnedClash' = PinnedClash
      BY <2>1 DEF PinnedClash, Overlap
    <2>3. CASE status' = status
      BY <2>1, <2>2, <2>3
    <2>4. ASSUME NEW v \in VRegs, AssertFails(v) PROVE Why'
      BY <2>2, <2>4, AssertNamesClash DEF AssertFails, Stop
    <2>5. ASSUME NEW v \in VRegs, ReadPastIndex(v) PROVE Why'
      <3>1. v \notin Placed /\ status' = "undefined"
        BY <2>5 DEF ReadPastIndex, Placing, Placed, Stop
      <3>2. pre[v] # NoReg /\ pre[v] \notin RegsOf(type[v])
        BY <2>5, <3>1, PinnedProps DEF ReadPastIndex
      <3>3. pre[v] \in Unindexed
        BY <3>2 DEF ScanInv, InputOK
      <3> QED BY <2>1, <3>1, <3>3
    <2>6. status' = status \/ \E v \in VRegs : AssertFails(v) \/ ReadPastIndex(v)
      BY DEF Next, PickRange, ExpireHead, TakeRegister, SpillCurrent, ClaimPreAlloced,
             EvictFor, Done, vars
    <2> QED BY <2>3, <2>4, <2>5, <2>6
  <1>3. ScanInv /\ Why => EvictionAsserts
    <2> SUFFICES ASSUME ScanInv, Finished
                 PROVE  /\ ~PinnedClash
                        /\ \A v \in VRegs : start[v] # -1 => pre[v] \notin Unindexed
      BY DEF EvictionAsserts
    <2>1. Placed = {v \in VRegs : start[v] # -1}
      BY ScanAssumption DEF Finished, Placed
    <2>2. ~PinnedClash
      BY <2>1 DEF PinnedClash, ScanInv, PinnedInPlace, NoInterference
    <2>3. ASSUME NEW v \in VRegs, start[v] # -1, pre[v] \in Unindexed PROVE FALSE
      <3>1. type[v] \in Types /\ pre[v] # NoReg
        BY <2>3, OrderAssumption DEF ScanInv, TypeOK
      <3>2. pre[v] \in RegsOf(type[v])
        BY <2>1, <2>3, <3>1 DEF ScanInv, PinnedInPlace, RegClassOK
      <3> QED BY <2>3, <3>1, <3>2, ClassFacts, OrderAssumption DEF Regs
    <2> QED BY <2>2, <2>3
  <1> HIDE DEF Why
  <1> QED BY <1>1, <1>2, <1>3, ScanInvariant, PTL DEF Spec

(***************************************************************************)
(* A value that has a place keeps it, but for the one move of an evicted   *)
(* range to a fresh slot.                                                  *)
(***************************************************************************)
THEOREM PlacesAreStableHolds == Spec => PlacesAreStable
  <1> DEFINE Stable ==
        \A v \in VRegs :
          /\ pre[v] # NoReg => t'[v] = "IN_REG" /\ reg'[v] = pre[v]
          /\ t[v] = "ON_STACK" => t'[v] = "ON_STACK" /\ slot'[v] = slot[v]
          /\ t[v] = "IN_REG" /\ t'[v] = "IN_REG" => reg'[v] = reg[v]
  <1>1. ScanInv /\ ScanInv' /\ [Next]_vars => [Stable]_vars
    <2> SUFFICES ASSUME ScanInv, ScanInv', Next PROVE Stable
      OBVIOUS
    <2>1. UNCHANGED pre
      BY DEF Next, PickRange, ExpireHead, TakeRegister, SpillCurrent, ClaimPreAlloced,
             EvictFor, AssertFails, ReadPastIndex, Stop, Done, vars
    <2>2. \A v \in VRegs : pre[v] # NoReg => t'[v] = "IN_REG" /\ reg'[v] = pre[v]
      BY <2>1 DEF ScanInv, PinnedInPlace
    <2>3. t \in [VRegs -> {"UNASSIGNED", "IN_REG", "ON_STACK"}]
          /\ reg \in [VRegs -> Regs \cup Unindexed \cup {NoReg}] /\ slot \in [VRegs -> Nat]
      BY DEF ScanInv, TypeOK
    <2>4. ASSUME NEW e \in VRegs, t[e] # "ON_STACK", NewSlot(e) PROVE Stable
      BY <2>2, <2>3, <2>4 DEF NewSlot
    <2>5. ASSUME NEW u \in VRegs, TakeRegister(u) PROVE Stable
      BY <2>2, <2>3, <2>5 DEF TakeRegister
    <2>6. ASSUME NEW u \in VRegs, SpillCurrent(u) PROVE Stable
      <3>1. t[u] # "ON_STACK" /\ NewSlot(u)
        BY <2>6 DEF SpillCurrent
      <3> QED BY <3>1, <2>4
    <2>7. ASSUME NEW u \in VRegs, EvictFor(u) PROVE Stable
      <3>1. PICK e \in HoldersOf(reg[u]) : NewSlot(e)
        BY <2>7 DEF EvictFor
      <3>2. e \in VRegs /\ t[e] # "ON_STACK"
        BY DEF HoldersOf, ScanInv, ActivePlaced, Placed
      <3> QED BY <3>1, <3>2, <2>4
    <2>8. CASE UNCHANGED <<t, reg, slot>>
      BY <2>2, <2>8
    <2>9. ASSUME NEW u \in VRegs, PickRange(u) \/ ClaimPreAlloced(u) PROVE UNCHANGED <<t, reg, slot>>
      BY <2>9 DEF PickRange, ClaimPreAlloced
    <2>10. ExpireHead \/ Done => UNCHANGED <<t, reg, slot>>
      BY DEF ExpireHead, Done, vars
    <2>11. ASSUME NEW u \in VRegs, AssertFails(u) \/ ReadPastIndex(u) PROVE UNCHANGED <<t, reg, slot>>
      BY <2>11 DEF AssertFails, ReadPastIndex, Stop
    <2> QED BY <2>5, <2>6, <2>7, <2>8, <2>9, <2>10, <2>11 DEF Next
  <1> QED BY <1>1, ScanInvariant, PTL DEF Spec, PlacesAreStable
=============================================================================
