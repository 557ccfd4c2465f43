--------------------------- MODULE CallFrameProofs ---------------------------
(***************************************************************************)
(* Proofs about one call, for any list of arguments, any numbers of        *)
(* argument registers and any frame of the callee: the stack is aligned,   *)
(* the arguments arrive and the caller gets back what is its own.          *)
(***************************************************************************)
EXTENDS CallFrame, SeqFacts, FiniteSetTheorems

-----------------------------------------------------------------------------
(* classify_arguments *)
Usage == [ints : 0..IntRegs, floats : 0..FloatRegs, space : Nat]
NothingUsed == [ints |-> 0, floats |-> 0, space |-> 0]

LEMMA TypeProps ==
  ASSUME NEW t \in Types
  PROVE  /\ t.kind \in {"int", "float", "struct"} /\ t.size \in Nat
         /\ t.kind = "int" => t.size = 8
         /\ t.kind = "float" => t.size <= 8
  BY DEF Types, TypeOf

LEMMA AdvanceProps ==
  ASSUME NEW u \in Usage, NEW t \in Types
  PROVE  /\ Advance(u, t) \in Usage
         /\ u.ints <= Advance(u, t).ints /\ u.floats <= Advance(u, t).floats
         /\ u.space <= Advance(u, t).space
  <1>1. t.kind \in {"int", "float", "struct"} /\ t.size \in Nat
    BY TypeProps
  <1>2. IntRegs \in Nat /\ FloatRegs \in Nat
    BY CallFrameAssumption
  <1>3. u.ints \in 0..IntRegs /\ u.floats \in 0..FloatRegs /\ u.space \in Nat
    BY DEF Usage
  <1>4. Advance(u, t).ints \in 0..IntRegs /\ u.ints <= Advance(u, t).ints
    BY <1>2, <1>3 DEF Advance
  <1>5. Advance(u, t).floats \in 0..FloatRegs /\ u.floats <= Advance(u, t).floats
    BY <1>2, <1>3 DEF Advance
  <1>6. Advance(u, t).space \in Nat /\ u.space <= Advance(u, t).space
    BY <1>1, <1>3 DEF Advance
  <1>7. Advance(u, t) = [ints |-> Advance(u, t).ints, floats |-> Advance(u, t).floats,
                         space |-> Advance(u, t).space]
    BY DEF Advance
  <1> QED
    BY <1>4, <1>5, <1>6, <1>7 DEF Usage

(* The recursion of classify_arguments has a result, the one it should. *)
LEMMA UsedUpProps ==
  ASSUME NEW types \in Seq(Types)
  PROVE  /\ UsedUp(types) \in [0..Len(types) -> Usage] /\ UsedUp(types)[0] = NothingUsed
         /\ \A x \in 1..Len(types) : UsedUp(types)[x] = Advance(UsedUp(types)[x - 1], types[x])
  <1> DEFINE N == Len(types)
             Counts(h, m) == h[0] = NothingUsed /\ \A x \in 1..m : h[x] = Advance(h[x - 1], types[x])
             Bad == {m \in 0..N : ~\E h \in [0..m -> Usage] : Counts(h, m)}
  <1>1. N \in Nat /\ \A x \in 1..N : types[x] \in Types
    OBVIOUS
  <1>0. NothingUsed \in Usage
    BY CallFrameAssumption DEF NothingUsed, Usage
  <1> HIDE DEF N
  <1>2. Bad = {}
    <2> SUFFICES ASSUME Bad # {} PROVE FALSE
      OBVIOUS
    <2>1. Bad \in SUBSET Nat
      BY <1>1
    <2> HIDE DEF Bad
    <2>2. PICK m \in Bad : \A y \in Bad : m <= y
      BY <2>1, LeastNat
    <2> USE DEF Bad
    <2>3. m \in 0..N /\ ~\E h \in [0..m -> Usage] : Counts(h, m)
      OBVIOUS
    <2>4. CASE m = 0
      <3>1. [x \in 0..0 |-> NothingUsed] \in [0..m -> Usage] /\ Counts([x \in 0..0 |-> NothingUsed], m)
        BY <1>0, <2>4
      <3> QED BY <3>1, <2>3
    <2>5. CASE m # 0
      <3>1. m - 1 \in 0..N /\ m - 1 \notin Bad /\ m \in 1..N
        <4>1. m \in Nat /\ m - 1 \in Nat /\ ~(m <= m - 1) /\ m - 1 \in 0..N /\ m \in 1..N
          BY <2>5, <2>3, <1>1
        <4> HIDE DEF Bad
        <4> QED BY <4>1, <2>2
      <3>2. PICK h \in [0..m - 1 -> Usage] : Counts(h, m - 1)
        BY <3>1
      <3> DEFINE last == Advance(h[m - 1], types[m])
                 h2 == [x \in 0..m |-> IF x = m THEN last ELSE h[x]]
      <3>3. last \in Usage
        BY <3>1, <1>1, AdvanceProps
      <3> HIDE DEF last
      <3>4. h2 \in [0..m -> Usage]
        BY <3>1, <3>3
      <3>5. Counts(h2, m)
        <4>1. h2[0] = NothingUsed
          BY <2>5, <3>1, <3>2
        <4>2. ASSUME NEW x \in 1..m PROVE h2[x] = Advance(h2[x - 1], types[x])
          <5>1. x - 1 \in 0..m /\ x - 1 # m /\ x - 1 \in 0..m-1
            BY <3>1, <4>2
          <5>2. h2[x - 1] = h[x - 1]
            BY <5>1
          <5>3. CASE x = m
            BY <5>2, <5>3 DEF last
          <5>4. CASE x # m
            <6>1. x \in 1..m-1 /\ h2[x] = h[x]
              BY <3>1, <5>4
            <6> QED BY <3>2, <5>2, <6>1
          <5> QED BY <5>3, <5>4
        <4> QED BY <4>1, <4>2
      <3> QED BY <3>4, <3>5, <2>3
    <2> QED BY <2>4, <2>5
  <1>3. PICK h \in [0..N -> Usage] : Counts(h, N)
    <2>1. N \in 0..N
      BY <1>1
    <2>2. N \notin Bad
      <3> HIDE DEF Bad
      <3> QED BY <1>2
    <2> QED BY <2>1, <2>2
  <1>4. h = [x \in 0..N |-> IF x = 0 THEN NothingUsed ELSE Advance(h[x - 1], types[x])]
    BY <1>3, <1>1
  <1>5. UsedUp(types) = [x \in 0..N |-> IF x = 0 THEN NothingUsed
                                        ELSE Advance(UsedUp(types)[x - 1], types[x])]
    BY <1>4 DEF UsedUp, N, NothingUsed
  <1>6. UsedUp(types) = h
    <2> DEFINE S == UsedUp(types)
               Differ == {x \in 0..N : S[x] # h[x]}
    <2>1. S[0] = NothingUsed /\ \A x \in 1..N : S[x] = Advance(S[x - 1], types[x])
      BY <1>1, <1>5
    <2>2. S = [x \in 0..N |-> S[x]]
      BY <1>5
    <2> HIDE DEF S
    <2>3. Differ = {}
      <3> SUFFICES ASSUME Differ # {} PROVE FALSE
        OBVIOUS
      <3>1. Differ \in SUBSET Nat
        BY <1>1
      <3> HIDE DEF Differ
      <3>2. PICK m \in Differ : \A y \in Differ : m <= y
        BY <3>1, LeastNat
      <3>3. m \in 0..N /\ S[m] # h[m]
        BY DEF Differ
      <3>4. m # 0
        BY <3>3, <2>1, <1>3
      <3>5. m - 1 \in 0..N /\ m \in 1..N /\ ~(m <= m - 1)
        BY <3>3, <3>4, <1>1
      <3>6. m - 1 \notin Differ
        BY <3>2, <3>5
      <3>7. S[m - 1] = h[m - 1]
        BY <3>5, <3>6 DEF Differ
      <3> QED BY <3>3, <3>5, <3>7, <2>1, <1>3
    <2>4. \A x \in 0..N : S[x] = h[x]
      BY <2>3
    <2>5. S = [x \in 0..N |-> h[x]]
      BY <2>2, <2>4
    <2> QED BY <2>5 DEF S
  <1> QED BY <1>3, <1>6 DEF N

(* The registers and the space used up never become fewer. *)
LEMMA UsageGrows ==
  ASSUME NEW types \in Seq(Types), NEW x \in 0..Len(types), NEW y \in 0..Len(types), x <= y
  PROVE  /\ UsedUp(types)[x].ints <= UsedUp(types)[y].ints
         /\ UsedUp(types)[x].floats <= UsedUp(types)[y].floats
         /\ UsedUp(types)[x].space <= UsedUp(types)[y].space
  <1> DEFINE S == UsedUp(types)
             N == Len(types)
             Below(m) == /\ S[x].ints <= S[m].ints /\ S[x].floats <= S[m].floats
                         /\ S[x].space <= S[m].space
             Bad == {m \in 0..N : x <= m /\ ~Below(m)}
  <1>1. N \in Nat /\ \A m \in 0..N : S[m] \in Usage
    BY UsedUpProps
  <1>2. \A m \in 1..N : /\ S[m - 1].ints <= S[m].ints /\ S[m - 1].floats <= S[m].floats
                        /\ S[m - 1].space <= S[m].space
    <2> TAKE m \in 1..N
    <2>1. S[m - 1] \in Usage /\ types[m] \in Types /\ S[m] = Advance(S[m - 1], types[m])
      BY <1>1, UsedUpProps
    <2> QED
      BY <2>1, AdvanceProps
  <1>3. \A m \in 0..N : S[m].ints \in Int /\ S[m].floats \in Int /\ S[m].space \in Int
    BY <1>1, CallFrameAssumption DEF Usage
  <1> HIDE DEF S, N
  <1>4. Bad = {}
    <2> SUFFICES ASSUME Bad # {} PROVE FALSE
      OBVIOUS
    <2>1. Bad \in SUBSET Nat
      BY <1>1
    <2> HIDE DEF Bad
    <2>2. PICK m \in Bad : \A k \in Bad : m <= k
      BY <2>1, LeastNat
    <2>3. m \in 0..N /\ x <= m /\ ~Below(m)
      BY DEF Bad
    <2>4. x \in 0..N /\ x # m
      BY <1>3, <2>3 DEF N
    <2>5. m \in 1..N /\ m - 1 \in 0..N /\ x <= m - 1 /\ ~(m <= m - 1)
      BY <1>1, <2>3, <2>4
    <2>6. m - 1 \notin Bad
      BY <2>2, <2>5
    <2>7. Below(m - 1)
      BY <2>5, <2>6 DEF Bad
    <2>8. S[x].ints \in Int /\ S[x].floats \in Int /\ S[x].space \in Int
      BY <1>3, <2>4
    <2>9. S[m].ints \in Int /\ S[m].floats \in Int /\ S[m].space \in Int
      BY <1>3, <2>3
    <2>10. S[m - 1].ints \in Int /\ S[m - 1].floats \in Int /\ S[m - 1].space \in Int
      BY <1>3, <2>5
    <2>11. /\ S[m - 1].ints <= S[m].ints /\ S[m - 1].floats <= S[m].floats
           /\ S[m - 1].space <= S[m].space
      BY <1>2, <2>5
    <2>12. S[x].ints <= S[m].ints
      BY <2>7, <2>8, <2>9, <2>10, <2>11
    <2>13. S[x].floats <= S[m].floats
      BY <2>7, <2>8, <2>9, <2>10, <2>11
    <2>14. S[x].space <= S[m].space
      BY <2>7, <2>8, <2>9, <2>10, <2>11
    <2> QED BY <2>3, <2>12, <2>13, <2>14
  <1>5. Below(y)
    BY <1>4 DEF N
  <1> QED BY <1>5 DEF S

(* The parameters before the "..." use up what they use up in any call. *)
LEMMA PrefixUsage ==
  ASSUME NEW types \in Seq(Types), NEW m \in 0..Len(types)
  PROVE  /\ SubSeq(types, 1, m) \in Seq(Types) /\ Len(SubSeq(types, 1, m)) = m
         /\ \A x \in 1..m : SubSeq(types, 1, m)[x] = types[x]
         /\ \A x \in 0..m : UsedUp(SubSeq(types, 1, m))[x] = UsedUp(types)[x]
  <1> DEFINE prefix == SubSeq(types, 1, m)
             S == UsedUp(types)
             P == UsedUp(prefix)
             Differ == {x \in 0..m : P[x] # S[x]}
  <1>1. prefix \in Seq(Types) /\ Len(prefix) = m /\ \A x \in 1..m : prefix[x] = types[x]
    OBVIOUS
  <1>2. S[0] = NothingUsed /\ \A x \in 1..Len(types) : S[x] = Advance(S[x - 1], types[x])
    BY UsedUpProps
  <1> HIDE DEF prefix
  <1>3. P[0] = NothingUsed /\ \A x \in 1..m : P[x] = Advance(P[x - 1], prefix[x])
    BY <1>1, UsedUpProps
  <1>4. m \in Nat /\ Len(types) \in Nat /\ m <= Len(types)
    OBVIOUS
  <1> HIDE DEF S, P
  <1>5. Differ = {}
    <2> SUFFICES ASSUME Differ # {} PROVE FALSE
      OBVIOUS
    <2>1. Differ \in SUBSET Nat
      BY <1>4
    <2> HIDE DEF Differ
    <2>2. PICK d \in Differ : \A y \in Differ : d <= y
      BY <2>1, LeastNat
    <2>3. d \in 0..m /\ P[d] # S[d]
      BY DEF Differ
    <2>4. d # 0
      BY <1>2, <1>3, <2>3
    <2>5. d - 1 \in 0..m /\ d \in 1..m /\ d \in 1..Len(types) /\ ~(d <= d - 1)
      BY <1>4, <2>3, <2>4
    <2>6. d - 1 \notin Differ
      BY <2>2, <2>5
    <2>7. P[d - 1] = S[d - 1]
      BY <2>5, <2>6 DEF Differ
    <2> QED BY <1>1, <1>2, <1>3, <2>3, <2>5, <2>7
  <1>6. \A x \in 0..m : P[x] = S[x]
    BY <1>5
  <1> QED BY <1>1, <1>6 DEF P, S, prefix

-----------------------------------------------------------------------------
(* The call at hand: what its first x arguments use up, and their classes. *)
Args == Len(call.types)
Used(x) == UsedUp(call.types)[x]
ArgClass(x) == ClassOf(Used(x - 1), call.types[x])

LEMMA CallProps ==
  ASSUME CallOK(call)
  PROVE  /\ Args \in Nat /\ call.fixed \in 0..Args /\ (~call.variadic => call.fixed = Args)
         /\ call.variadic \in BOOLEAN /\ \A x \in 0..Args : Used(x) \in Usage
         /\ \A x \in 1..Args : call.types[x] \in Types
  <1>1. call.types \in Seq(Types)
    BY DEF CallOK
  <1>2. UsedUp(call.types) \in [0..Args -> Usage]
    BY <1>1, UsedUpProps DEF Args
  <1>3. \A x \in 0..Args : Used(x) \in Usage
    BY <1>2 DEF Used
  <1> QED BY <1>1, <1>3 DEF CallOK, Args

(* Both sides, from lists of different lengths, find the same classes. *)
LEMMA SidesAgree ==
  ASSUME CallOK(call)
  PROVE  /\ CallerSeq.space = Used(Args).space
         /\ \A x \in 1..Args : CallerSeq.classes[x] = ArgClass(x)
         /\ \A x \in 1..call.fixed : CalleeSeq.classes[x] = ArgClass(x)
         /\ CalleeSeq.ints = Used(call.fixed).ints /\ CalleeSeq.floats = Used(call.fixed).floats
         /\ CalleeSeq.space = Used(call.fixed).space
  <1>1. /\ Args \in Nat /\ call.fixed \in 0..Args /\ (~call.variadic => call.fixed = Args)
        /\ call.variadic \in BOOLEAN
    BY CallProps
  <1>2. call.types \in Seq(Types)
    BY DEF CallOK
  <1> DEFINE prefix == SubSeq(call.types, 1, call.fixed)
             full == call.types
  <1>3. /\ prefix \in Seq(Types) /\ Len(prefix) = call.fixed
        /\ \A x \in 1..call.fixed : prefix[x] = call.types[x]
        /\ \A x \in 0..call.fixed : UsedUp(prefix)[x] = Used(x)
    BY <1>1, <1>2, PrefixUsage DEF Args, Used
  <1> HIDE DEF prefix
  <1>4. CalleeSeq = CallSeqOf(prefix)
    BY DEF CalleeSeq, prefix
  <1>5. \A x \in 1..call.fixed : CalleeSeq.classes[x] = ArgClass(x)
    <2> TAKE x \in 1..call.fixed
    <2>1. CalleeSeq.classes[x] = ClassOf(UsedUp(prefix)[x - 1], prefix[x])
      BY <1>3, <1>4 DEF CallSeqOf
    <2>2. x - 1 \in 0..call.fixed
      BY <1>1
    <2> QED BY <1>3, <2>1, <2>2 DEF ArgClass
  <1>6. /\ CalleeSeq.ints = Used(call.fixed).ints /\ CalleeSeq.floats = Used(call.fixed).floats
        /\ CalleeSeq.space = Used(call.fixed).space
    <2>1. UsedUp(prefix)[Len(prefix)] = Used(call.fixed)
      BY <1>1, <1>3
    <2> QED BY <1>4, <2>1 DEF CallSeqOf
  <1>7. CASE call.variadic
    <2>1. CallerSeq = CallSeqOf(call.types)
      BY <1>7 DEF CallerSeq
    <2>2. CallerSeq.space = Used(Args).space
      BY <2>1 DEF CallSeqOf, Used, Args
    <2>3. \A x \in 1..Args : CallerSeq.classes[x] = ArgClass(x)
      BY <2>1 DEF CallSeqOf, Used, Args, ArgClass
    <2> QED BY <1>5, <1>6, <2>2, <2>3
  <1>8. CASE ~call.variadic
    <2>1. CallerSeq = CalleeSeq /\ call.fixed = Args
      BY <1>1, <1>8 DEF CallerSeq
    <2> QED BY <1>5, <1>6, <2>1
  <1> QED BY <1>1, <1>7, <1>8

(* Where argument x goes. *)
ToIntReg(x) == call.types[x].kind = "int" /\ Used(x - 1).ints < IntRegs
ToFloatReg(x) == call.types[x].kind = "float" /\ Used(x - 1).floats < FloatRegs
ToStack(x) == \/ call.types[x].kind = "int" /\ Used(x - 1).ints >= IntRegs
              \/ call.types[x].kind = "struct"
Dropped(x) == call.types[x].kind = "float" /\ Used(x - 1).floats >= FloatRegs

LEMMA ArgProps ==
  ASSUME CallOK(call), NEW x \in 1..Args
  PROVE  /\ call.types[x].size \in Nat
         /\ call.types[x].kind = "int" => call.types[x].size = 8
         /\ call.types[x].kind = "float" => call.types[x].size <= 8
         /\ Used(x - 1).ints \in 0..IntRegs /\ Used(x).ints \in 0..IntRegs
         /\ Used(x - 1).floats \in 0..FloatRegs /\ Used(x).floats \in 0..FloatRegs
         /\ Used(x - 1).space \in Nat /\ Used(x).space \in Nat
         /\ ToIntReg(x) \/ ToFloatReg(x) \/ ToStack(x) \/ Dropped(x)
  <1>1. call.types[x] \in Types /\ x - 1 \in 0..Args /\ x \in 0..Args
    BY CallProps
  <1>2. Used(x - 1) \in Usage /\ Used(x) \in Usage
    BY <1>1, CallProps
  <1>3. /\ Used(x - 1).ints \in 0..IntRegs /\ Used(x).ints \in 0..IntRegs
        /\ Used(x - 1).floats \in 0..FloatRegs /\ Used(x).floats \in 0..FloatRegs
        /\ Used(x - 1).space \in Nat /\ Used(x).space \in Nat
    BY <1>2 DEF Usage
  <1>4. IntRegs \in Nat /\ FloatRegs \in Nat
    BY CallFrameAssumption
  <1>5. ToIntReg(x) \/ ToFloatReg(x) \/ ToStack(x) \/ Dropped(x)
    <2>1. Used(x - 1).ints < IntRegs \/ Used(x - 1).ints >= IntRegs
      BY <1>3, <1>4
    <2>2. Used(x - 1).floats < FloatRegs \/ Used(x - 1).floats >= FloatRegs
      BY <1>3, <1>4
    <2>3. call.types[x].kind \in {"int", "float", "struct"}
      BY <1>1, TypeProps
    <2> QED BY <2>1, <2>2, <2>3 DEF ToIntReg, ToFloatReg, ToStack, Dropped
  <1> QED BY <1>1, <1>3, <1>5, TypeProps

LEMMA UsedStep ==
  ASSUME CallOK(call), NEW x \in 1..Args
  PROVE  Used(x) = Advance(Used(x - 1), call.types[x])
  <1>1. call.types \in Seq(Types)
    BY DEF CallOK
  <1> QED BY <1>1, UsedUpProps DEF Used, Args

LEMMA IntRegProps ==
  ASSUME CallOK(call), NEW x \in 1..Args, ToIntReg(x)
  PROVE  /\ ArgClass(x) = ByReg(<<"int", Used(x - 1).ints>>)
         /\ Used(x).ints = Used(x - 1).ints + 1 /\ Used(x).floats = Used(x - 1).floats
         /\ Used(x).space = Used(x - 1).space
  <1>1. ~(Used(x - 1).ints >= IntRegs) /\ Used(x - 1).ints < IntRegs /\ call.types[x].kind = "int"
    BY ArgProps, CallFrameAssumption DEF ToIntReg
  <1>2. ArgClass(x) = ByReg(<<"int", Used(x - 1).ints>>)
    BY <1>1 DEF ArgClass, ClassOf
  <1> QED BY <1>1, <1>2, UsedStep DEF Advance

LEMMA FloatRegProps ==
  ASSUME CallOK(call), NEW x \in 1..Args, ToFloatReg(x)
  PROVE  /\ ArgClass(x) = ByReg(<<"float", Used(x - 1).floats>>)
         /\ Used(x).floats = Used(x - 1).floats + 1 /\ Used(x).ints = Used(x - 1).ints
         /\ Used(x).space = Used(x - 1).space
  <1>1. /\ ~(Used(x - 1).floats >= FloatRegs) /\ Used(x - 1).floats < FloatRegs
        /\ call.types[x].kind = "float"
    BY ArgProps, CallFrameAssumption DEF ToFloatReg
  <1>2. ArgClass(x) = ByReg(<<"float", Used(x - 1).floats>>)
    BY <1>1 DEF ArgClass, ClassOf
  <1> QED BY <1>1, <1>2, UsedStep DEF Advance

LEMMA StackProps ==
  ASSUME CallOK(call), NEW x \in 1..Args, ToStack(x)
  PROVE  /\ ArgClass(x).t = "mem" /\ ArgClass(x).offset = Used(x - 1).space
         /\ Used(x).ints = Used(x - 1).ints /\ Used(x).floats = Used(x - 1).floats
         /\ Used(x).space = Used(x - 1).space + call.types[x].size
         /\ call.types[x].kind # "float"
  <1>1. CASE call.types[x].kind = "int" /\ Used(x - 1).ints >= IntRegs
    <2>1. ~(Used(x - 1).ints < IntRegs) /\ call.types[x].size = 8
      BY <1>1, ArgProps, CallFrameAssumption
    <2>2. ArgClass(x) = ByMem(Used(x - 1).space, 8, FALSE)
      BY <1>1, <2>1 DEF ArgClass, ClassOf
    <2>3. ArgClass(x).t = "mem" /\ ArgClass(x).offset = Used(x - 1).space
      BY <2>2 DEF ByMem
    <2> QED BY <1>1, <2>1, <2>3, UsedStep DEF Advance
  <1>2. CASE call.types[x].kind = "struct"
    <2>1. ArgClass(x) = ByMem(Used(x - 1).space, call.types[x].size, TRUE)
      BY <1>2 DEF ArgClass, ClassOf
    <2>2. ArgClass(x).t = "mem" /\ ArgClass(x).offset = Used(x - 1).space
      BY <2>1 DEF ByMem
    <2> QED BY <1>2, <2>2, UsedStep DEF Advance
  <1> QED BY <1>1, <1>2 DEF ToStack

LEMMA DroppedProps ==
  ASSUME CallOK(call), NEW x \in 1..Args, Dropped(x)
  PROVE  ArgClass(x).t = "mem" /\ call.types[x].kind = "float"
  <1>1. ~(Used(x - 1).floats < FloatRegs)
    BY ArgProps, CallFrameAssumption DEF Dropped
  <1>2. ArgClass(x) = ByMem(Used(x - 1).space, call.types[x].size, FALSE)
    BY <1>1 DEF ArgClass, ClassOf, Dropped
  <1> QED BY <1>2 DEF ByMem, Dropped

-----------------------------------------------------------------------------
(* The bytes of the value tag are in memory at an address. *)
Holds(m, at, tag, size) ==
  \A b \in 1..size : at + (b - 1) \in DOMAIN m /\ m[at + (b - 1)] = <<tag, b>>

LEMMA BytesProps ==
  ASSUME NEW tag, NEW size \in Nat
  PROVE  /\ Len(Bytes(tag, size)) = size
         /\ \A b \in 1..size : Bytes(tag, size)[b] = <<tag, b>>
  <1>1. Bytes(tag, size) \in Seq({<<tag, b>> : b \in 1..size})
    BY DEF Bytes
  <1>2. DOMAIN Bytes(tag, size) = 1..size
    BY DEF Bytes
  <1>3. Len(Bytes(tag, size)) \in Nat /\ DOMAIN Bytes(tag, size) = 1..Len(Bytes(tag, size))
    BY <1>1
  <1>4. Len(Bytes(tag, size)) = size
    BY <1>2, <1>3
  <1> QED BY <1>4 DEF Bytes

LEMMA LoadHolds ==
  ASSUME NEW m, NEW at \in Int, NEW tag, NEW size \in Nat, Holds(m, at, tag, size)
  PROVE  LoadAt(m, at, size) = Bytes(tag, size)
  <1>1. \A b \in 1..size : at + b - 1 = at + (b - 1)
    OBVIOUS
  <1>2. \A b \in 1..size : LoadAt(m, at, size)[b] = <<tag, b>>
    BY <1>1 DEF LoadAt, Holds
  <1> QED BY <1>2 DEF LoadAt, Bytes

LEMMA OverProps ==
  ASSUME NEW old, NEW new, NEW a
  PROVE  /\ a \in DOMAIN new => a \in DOMAIN Over(old, new) /\ Over(old, new)[a] = new[a]
         /\ a \in DOMAIN old /\ a \notin DOMAIN new =>
              a \in DOMAIN Over(old, new) /\ Over(old, new)[a] = old[a]
  BY DEF Over

LEMMA StoreAtHolds ==
  ASSUME NEW m, NEW at \in Int, NEW tag, NEW size \in Nat
  PROVE  Holds(StoreAt(m, at, Bytes(tag, size)), at, tag, size)
  <1> DEFINE new == [a \in at..(at + size - 1) |-> Bytes(tag, size)[a - at + 1]]
  <1>1. StoreAt(m, at, Bytes(tag, size)) = Over(m, new)
    BY BytesProps DEF StoreAt
  <1>2. ASSUME NEW b \in 1..size
        PROVE  at + (b - 1) \in DOMAIN new /\ new[at + (b - 1)] = <<tag, b>>
    <2>1. at + (b - 1) \in at..(at + size - 1) /\ at + (b - 1) - at + 1 = b
      OBVIOUS
    <2> QED BY <2>1, BytesProps
  <1> HIDE DEF new
  <1> QED BY <1>1, <1>2, OverProps DEF Holds

LEMMA StoreAtKeeps ==
  ASSUME NEW m, NEW p \in Int, NEW bytes, Len(bytes) \in Nat,
         NEW at \in Int, NEW tag, NEW size \in Nat, Holds(m, at, tag, size),
         at + size <= p \/ p + Len(bytes) <= at
  PROVE  Holds(StoreAt(m, p, bytes), at, tag, size)
  <1> DEFINE new == [a \in p..(p + Len(bytes) - 1) |-> bytes[a - p + 1]]
  <1>1. StoreAt(m, p, bytes) = Over(m, new)
    BY DEF StoreAt
  <1>2. ASSUME NEW b \in 1..size
        PROVE  at + (b - 1) \notin DOMAIN new
    BY <1>2
  <1> HIDE DEF new
  <1>3. \A b \in 1..size : at + (b - 1) \in DOMAIN m /\ m[at + (b - 1)] = <<tag, b>>
    BY DEF Holds
  <1>4. \A b \in 1..size : /\ at + (b - 1) \in DOMAIN Over(m, new)
                           /\ Over(m, new)[at + (b - 1)] = <<tag, b>>
    <2> TAKE b \in 1..size
    <2>1. PICK a : a = at + (b - 1)
      OBVIOUS
    <2>2. a \in DOMAIN m /\ m[a] = <<tag, b>> /\ a \notin DOMAIN new
      BY <1>2, <1>3, <2>1
    <2>3. a \in DOMAIN Over(m, new) /\ Over(m, new)[a] = m[a]
      BY <2>2, OverProps
    <2> QED BY <2>1, <2>2, <2>3
  <1> QED BY <1>1, <1>4 DEF Holds

(* The stores of StoreAll do not touch what is elsewhere. *)
LEMMA StoreAllKeeps ==
  ASSUME NEW m, NEW address, NEW value, NEW at \in Int, NEW tag, NEW size \in Nat,
         Holds(m, at, tag, size),
         \A x \in DOMAIN address : address[x] \in Int /\ Len(value[x]) \in Nat,
         \A x \in DOMAIN address : at + size <= address[x] \/ address[x] + Len(value[x]) <= at
  PROVE  Holds(StoreAll(m, address, value), at, tag, size)
  <1> DEFINE places(x) == address[x]..(address[x] + Len(value[x]) - 1)
             new == [a \in UNION {places(x) : x \in DOMAIN address} |->
                       LET x == CHOOSE x \in DOMAIN address : a \in places(x)
                       IN  value[x][a - address[x] + 1]]
  <1>1. StoreAll(m, address, value) = Over(m, new)
    BY DEF StoreAll
  <1>2. ASSUME NEW b \in 1..size
        PROVE  at + (b - 1) \notin DOMAIN new
    <2> SUFFICES ASSUME NEW x \in DOMAIN address, at + (b - 1) \in places(x) PROVE FALSE
      OBVIOUS
    <2>1. address[x] \in Int /\ Len(value[x]) \in Nat
      OBVIOUS
    <2>2. at + size <= address[x] \/ address[x] + Len(value[x]) <= at
      OBVIOUS
    <2>3. address[x] <= at + (b - 1) /\ at + (b - 1) <= address[x] + Len(value[x]) - 1
      BY <2>1
    <2> QED BY <2>1, <2>2, <2>3
  <1> HIDE DEF new
  <1>3. \A b \in 1..size : at + (b - 1) \in DOMAIN m /\ m[at + (b - 1)] = <<tag, b>>
    BY DEF Holds
  <1>4. \A b \in 1..size : /\ at + (b - 1) \in DOMAIN Over(m, new)
                           /\ Over(m, new)[at + (b - 1)] = <<tag, b>>
    <2> TAKE b \in 1..size
    <2>1. PICK a : a = at + (b - 1)
      OBVIOUS
    <2>2. a \in DOMAIN m /\ m[a] = <<tag, b>> /\ a \notin DOMAIN new
      BY <1>2, <1>3, <2>1
    <2>3. a \in DOMAIN Over(m, new) /\ Over(m, new)[a] = m[a]
      BY <2>2, OverProps
    <2> QED BY <2>1, <2>2, <2>3
  <1> QED BY <1>1, <1>4 DEF Holds

(* Each of them is found at its place if the places do not overlap. *)
LEMMA StoreAllHolds ==
  ASSUME NEW m, NEW address, NEW value, NEW x \in DOMAIN address, NEW tag, NEW size \in Nat,
         value[x] = Bytes(tag, size),
         \A y \in DOMAIN address : address[y] \in Int /\ Len(value[y]) \in Nat,
         \A y \in DOMAIN address : y # x =>
           address[x] + size <= address[y] \/ address[y] + Len(value[y]) <= address[x]
  PROVE  Holds(StoreAll(m, address, value), address[x], tag, size)
  <1> DEFINE places(y) == address[y]..(address[y] + Len(value[y]) - 1)
             new == [a \in UNION {places(y) : y \in DOMAIN address} |->
                       LET y == CHOOSE y \in DOMAIN address : a \in places(y)
                       IN  value[y][a - address[y] + 1]]
  <1>1. StoreAll(m, address, value) = Over(m, new)
    BY DEF StoreAll
  <1>2. Len(value[x]) = size /\ \A b \in 1..size : value[x][b] = <<tag, b>>
    BY BytesProps
  <1>3. ASSUME NEW b \in 1..size
        PROVE  address[x] + (b - 1) \in DOMAIN new /\ new[address[x] + (b - 1)] = <<tag, b>>
    <2> DEFINE a == address[x] + (b - 1)
    <2>1. address[x] \in Int /\ a \in places(x) /\ a - address[x] + 1 = b /\ a \in Int
      BY <1>2
    <2>2. ASSUME NEW y \in DOMAIN address, a \in places(y) PROVE y = x
      <3> SUFFICES ASSUME y # x PROVE FALSE
        OBVIOUS
      <3>1. address[y] \in Int /\ Len(value[y]) \in Nat
        OBVIOUS
      <3>2. address[x] + size <= address[y] \/ address[y] + Len(value[y]) <= address[x]
        OBVIOUS
      <3>3. address[y] <= a /\ a <= address[y] + Len(value[y]) - 1
        BY <2>2, <3>1
      <3>4. address[x] <= a /\ a <= address[x] + size - 1
        BY <2>1, <1>2
      <3>5. CASE address[x] + size <= address[y]
        BY <2>1, <3>1, <3>3, <3>4, <3>5
      <3>6. CASE address[y] + Len(value[y]) <= address[x]
        BY <2>1, <3>1, <3>3, <3>4, <3>6
      <3> QED BY <3>2, <3>5, <3>6
    <2>3. (CHOOSE y \in DOMAIN address : a \in places(y)) = x
      <3> HIDE DEF a, places
      <3> QED BY <2>1, <2>2
    <2>4. a \in DOMAIN new
      BY <2>1
    <2>5. new[a] = value[x][a - address[x] + 1]
      BY <2>3, <2>4
    <2> QED BY <1>2, <2>1, <2>4, <2>5
  <1> HIDE DEF new
  <1> QED BY <1>1, <1>3, OverProps DEF Holds

-----------------------------------------------------------------------------
(* The inductive invariant. *)
FrameOK == frame.saved \subseteq 1..5 /\ frame.locals \in Nat

Saved == Cardinality(frame.saved)

(* The stack pointer while arguments are passed, and in the body. *)
SpArgs == Top - ArgsPlusPadding
SpBody == SpArgs - 16 - 8 * Saved - StackAdjustment

Before == {"sub", "args", "prologue", "assertion"}
InCallee == {"save", "moves", "params", "va_arg", "epilogue"}
After == {"add", "returned"}

PointersOK ==
  /\ step \in Before \cup InCallee \cup After
  /\ step \in {"sub", "returned"} => sp = Top
  /\ step \in {"args", "assertion", "add"} => sp = SpArgs
  /\ step = "prologue" => sp = SpArgs - 8
  /\ step \in InCallee => sp = SpBody /\ bp = SpArgs - 16
  /\ step \in Before \cup After => bp = Top + 512

(* The callee-save registers, but for the ones the body may have used. *)
SavesOK ==
  /\ saves = [r \in 1..5 |-> saves[r]]
  /\ \A r \in 1..5 : \/ saves[r] = Bytes(<<"saved", r>>, 8)
                     \/ step \in {"params", "va_arg", "epilogue"} /\ r \in frame.saved

CallerKept == Holds(mem, Top, <<"caller">>, 16)

PushedKept ==
  step \in InCallee =>
    /\ Holds(mem, SpArgs - 16, <<"caller bp">>, 8)
    /\ \A r \in frame.saved : Holds(mem, SpArgs - 16 - 8 * PushIndex(r), <<"saved", r>>, 8)

(* The arguments that were passed so far are where their classes say. *)
Passed == IF step = "sub" THEN 0 ELSE IF step \in {"args", "assertion"} THEN n - 1 ELSE Args

RegHolds(r, x) == r \in DOMAIN regs /\ regs[r] = Bytes(<<"arg", x>>, call.types[x].size)

(* The callee has moved nothing out of the argument registers yet. *)
Unmoved == step \in Before \cup {"save"}

Placed(x) ==
  /\ ~Dropped(x)
  /\ ToStack(x) => Holds(mem, SpArgs + Used(x - 1).space, <<"arg", x>>, call.types[x].size)
  /\ Unmoved /\ ToIntReg(x) => RegHolds(<<"int", Used(x - 1).ints>>, x)
  /\ Unmoved /\ ToFloatReg(x) => RegHolds(<<"float", Used(x - 1).floats>>, x)

ArgsPlaced ==
  /\ \A x \in 1..Passed : Placed(x)
  /\ Unmoved => \A r \in DOMAIN regs : Len(regs[r]) \in 0..8

(* While the parameters are moved, those before n are at home, the others  *)
(* still in their argument registers, as far as they are in the lower half. *)
Moved(x) == step = "params" \/ x < n

IntPlace(x) ==
  IF Moved(x) THEN <<"home", <<"int", Used(x - 1).ints>>>> ELSE <<"int", Used(x - 1).ints>>

FloatPlace(x) ==
  IF Moved(x) THEN <<"float", FloatRegs - 2 - Used(x - 1).floats>> ELSE <<"float", Used(x - 1).floats>>

LowFloat(x) == ToFloatReg(x) /\ 2 * Used(x - 1).floats < FloatRegs - 1

ParamKept(x) ==
  /\ ToIntReg(x) => RegHolds(IntPlace(x), x)
  /\ LowFloat(x) => RegHolds(FloatPlace(x), x)

MovesOK == step \in {"moves", "params"} => \A x \in 1..call.fixed : ParamKept(x)

(* The register save area has what the caller passed after the parameters. *)
Kept(x) ==
  /\ ToIntReg(x) => Holds(mem, SpBody + Used(x - 1).ints * 8, <<"arg", x>>, call.types[x].size)
  /\ ToFloatReg(x) => Holds(mem, SpBody + IntRegs * 8 + Used(x - 1).floats * 16, <<"arg", x>>,
                            call.types[x].size)

SaveAreaOK ==
  /\ call.variadic /\ step \in {"prologue", "save"} => al = FloatsInRegs
  /\ call.variadic /\ step \in {"moves", "params", "va_arg"} =>
       \A x \in 1..Args : x > call.fixed => Kept(x)

(* n is the argument being passed, then the one being read. *)
IndexOK ==
  /\ n \in Nat \ {0}
  /\ step \in {"sub", "args", "assertion"} => n <= Args + 1
  /\ step = "sub" => n = 1
  /\ step \in {"moves", "params"} => n <= call.fixed + 1
  /\ step = "va_arg" => n > call.fixed /\ n <= Args + 1 /\ call.variadic
  /\ step = "save" => call.variadic /\ n = 1

(* What was read, in order. *)
ReadRight ==
  /\ \E S : got \in Seq(S)
  /\ ParametersArrive
  /\ Used(call.fixed).space = 0 => VarArgsFollowParams

GotOK ==
  /\ ReadRight
  /\ step \in Before \cup {"save", "moves"} => got = <<>>
  /\ step \in {"params", "va_arg"} => Len(got) = n - 1

VaListOK ==
  step = "va_arg" =>
    va = [ints |-> Used(n - 1).ints * 8, floats |-> IntRegs * 8 + Used(n - 1).floats * 16,
          stack |-> SpArgs + (Used(n - 1).space - Used(call.fixed).space), area |-> SpBody]

CallFrameInv ==
  /\ CallOK(call) /\ FrameOK
  /\ PointersOK /\ SavesOK /\ CallerKept /\ PushedKept
  /\ ArgsPlaced /\ SaveAreaOK /\ MovesOK /\ IndexOK /\ GotOK /\ VaListOK

-----------------------------------------------------------------------------
(* What follows from the call and the frame alone. *)
LEMMA CallFixed ==
  ASSUME call' = call, frame' = frame
  PROVE  /\ Args' = Args /\ Saved' = Saved /\ SpArgs' = SpArgs /\ SpBody' = SpBody
         /\ (CallOK(call) => CallOK(call)') /\ (FrameOK => FrameOK')
         /\ FloatsInRegs' = FloatsInRegs
         /\ \A x : Used(x)' = Used(x)
         /\ \A r : PushIndex(r)' = PushIndex(r)
         /\ \A x : /\ (Dropped(x)' <=> Dropped(x)) /\ (ToStack(x)' <=> ToStack(x))
                   /\ (ToIntReg(x)' <=> ToIntReg(x)) /\ (ToFloatReg(x)' <=> ToFloatReg(x))
                   /\ (LowFloat(x)' <=> LowFloat(x)) /\ (InLowerHalf(x)' <=> InLowerHalf(x))
  <1>1. \A x : Used(x)' = Used(x)
    BY DEF Used
  <1>2. CalleeSeq' = CalleeSeq
    BY DEF CalleeSeq
  <1>3. CallerSeq' = CallerSeq
    BY <1>2 DEF CallerSeq
  <1>4. ArgsPlusPadding' = ArgsPlusPadding
    BY <1>3 DEF ArgsPlusPadding
  <1>5. SpArgs' = SpArgs
    BY <1>4 DEF SpArgs
  <1>6. StackAdjustment' = StackAdjustment
    BY DEF StackAdjustment, LocalUsage
  <1>7. Saved' = Saved /\ \A r : PushIndex(r)' = PushIndex(r)
    BY DEF Saved, PushIndex
  <1>8. SpBody' = SpBody
    BY <1>5, <1>6, <1>7 DEF SpBody
  <1>9. FloatsInRegs' = FloatsInRegs
    BY <1>3 DEF FloatsInRegs
  <1>10. Args' = Args /\ (CallOK(call) => CallOK(call)') /\ (FrameOK => FrameOK')
    BY DEF Args, CallOK, FrameOK
  <1>11. \A x : /\ (Dropped(x)' <=> Dropped(x)) /\ (ToStack(x)' <=> ToStack(x))
                /\ (ToIntReg(x)' <=> ToIntReg(x)) /\ (ToFloatReg(x)' <=> ToFloatReg(x))
    BY <1>1 DEF Dropped, ToStack, ToIntReg, ToFloatReg
  <1>12. \A x : (LowFloat(x)' <=> LowFloat(x)) /\ (InLowerHalf(x)' <=> InLowerHalf(x))
    BY <1>1, <1>2, <1>11 DEF LowFloat, InLowerHalf
  <1> QED BY <1>1, <1>5, <1>7, <1>8, <1>9, <1>10, <1>11, <1>12

LEMMA AlignToProps ==
  ASSUME NEW x \in Nat
  PROVE  AlignTo(x, 16) \in Nat /\ AlignTo(x, 16) % 16 = 0 /\ x <= AlignTo(x, 16)
  BY DEF AlignTo

(* The geometry of the stack: the space of the arguments, the return       *)
(* address and rbp, the pushed registers, the padding, the locals and the  *)
(* save area, from Top downwards.                                          *)
LEMMA Geometry ==
  ASSUME CallOK(call), FrameOK
  PROVE  /\ ArgsPlusPadding \in Nat /\ ArgsPlusPadding % 16 = 0
         /\ Used(Args).space \in Nat /\ Used(Args).space <= ArgsPlusPadding
         /\ SpArgs \in Int /\ SpArgs + ArgsPlusPadding = Top /\ SpArgs % 16 = 0
         /\ Saved \in Nat /\ IsFiniteSet(frame.saved)
         /\ LocalUsage \in Nat /\ StackAdjustment \in Nat /\ LocalUsage <= StackAdjustment
         /\ SpBody \in Int /\ SpBody % 16 = 0
         /\ SpBody + StackAdjustment + 8 * Saved + 16 = SpArgs
  <1>1. CallerSeq.space = Used(Args).space /\ Used(Args).space \in Nat
    <2>1. Used(Args) \in Usage
      BY CallProps
    <2> QED BY <2>1, SidesAgree DEF Usage
  <1>2. /\ ArgsPlusPadding \in Nat /\ ArgsPlusPadding % 16 = 0
        /\ Used(Args).space <= ArgsPlusPadding
    BY <1>1, AlignToProps DEF ArgsPlusPadding
  <1>3. SpArgs \in Int /\ SpArgs + ArgsPlusPadding = Top /\ SpArgs % 16 = 0
    BY <1>2 DEF SpArgs, Top
  <1>4. Saved \in Nat /\ IsFiniteSet(frame.saved)
    <2>1. IsFiniteSet(1..5)
      <3>1. 1 \in Int /\ 5 \in Int
        OBVIOUS
      <3> QED BY <3>1, FS_Interval
    <2>2. IsFiniteSet(frame.saved)
      BY <2>1, FS_Subset DEF FrameOK
    <2> QED BY <2>2, FS_CardinalityType DEF Saved
  <1>5. SaveAreaSize \in Nat
    BY CallFrameAssumption DEF SaveAreaSize
  <1>6. LocalUsage \in Nat
    BY <1>5 DEF LocalUsage, FrameOK
  <1> DEFINE t == Saved * 8 + LocalUsage
  <1>7. t \in Nat
    BY <1>4, <1>6
  <1>8. StackAdjustment = LocalUsage + (16 - (t % 16))
    BY <1>4, <1>6, <1>7 DEF StackAdjustment, Saved
  <1>9. t % 16 \in 0..15 /\ (t - (t % 16)) % 16 = 0
    <2> HIDE DEF t
    <2> QED BY <1>7
  <1>10. StackAdjustment \in Nat /\ LocalUsage <= StackAdjustment
    <2> HIDE DEF t
    <2> QED BY <1>6, <1>8, <1>9
  <1>11. SpBody \in Int /\ SpBody + StackAdjustment + 8 * Saved + 16 = SpArgs
    BY <1>3, <1>4, <1>10 DEF SpBody
  <1>12. SpBody = SpArgs - 32 - (t - (t % 16))
    BY <1>3, <1>4, <1>6, <1>8, <1>9, <1>11
  <1>13. SpBody % 16 = 0
    <2> HIDE DEF t
    <2> QED BY <1>3, <1>7, <1>9, <1>12
  <1> QED BY <1>1, <1>2, <1>3, <1>4, <1>6, <1>10, <1>11, <1>13

(* Pushed from the lowest and popped from the highest, every register is   *)
(* popped from where it was pushed.                                        *)
LEMMA PushProps ==
  ASSUME CallOK(call), FrameOK
  PROVE  /\ PushIndex(0) = 0
         /\ \A r \in frame.saved : PushIndex(r) \in 1..Saved /\ PopIndex(r) = Saved - PushIndex(r) + 1
         /\ \A r, s \in frame.saved : r # s => PushIndex(r) # PushIndex(s)
  <1> DEFINE Low(r) == {s \in frame.saved : s <= r}
             High(r) == {s \in frame.saved : s >= r}
  <1>1. IsFiniteSet(frame.saved) /\ Saved \in Nat /\ \A r \in frame.saved : r \in 1..5
    BY Geometry DEF FrameOK
  <1>2. PushIndex(0) = 0
    <2>1. Low(0) = {}
      BY <1>1
    <2> QED BY <2>1, FS_EmptySet DEF PushIndex
  <1>3. \A r : /\ IsFiniteSet(Low(r)) /\ Cardinality(Low(r)) \in Nat /\ Cardinality(Low(r)) <= Saved
               /\ IsFiniteSet(High(r)) /\ Cardinality(High(r)) \in Nat
    <2> TAKE r
    <2>1. Low(r) \in SUBSET frame.saved /\ High(r) \in SUBSET frame.saved
      OBVIOUS
    <2> HIDE DEF Low, High
    <2>2. IsFiniteSet(Low(r)) /\ Cardinality(Low(r)) <= Saved /\ IsFiniteSet(High(r))
      BY <1>1, <2>1, FS_Subset DEF Saved
    <2> QED BY <2>2, FS_CardinalityType
  <1>4. ASSUME NEW r \in frame.saved
        PROVE  PushIndex(r) \in 1..Saved /\ PopIndex(r) = Saved - PushIndex(r) + 1
    <2>1. r \in 1..5
      BY <1>1
    <2>2. Low(r) \cup High(r) = frame.saved /\ Low(r) \cap High(r) = {r}
      BY <1>1, <2>1
    <2>3. Cardinality(Low(r) \cup High(r))
            = Cardinality(Low(r)) + Cardinality(High(r)) - Cardinality(Low(r) \cap High(r))
      <3> HIDE DEF Low, High
      <3> QED BY <1>3, FS_Union
    <2>4. Cardinality({r}) = 1
      BY FS_Singleton
    <2>5. PushIndex(r) = Cardinality(Low(r)) /\ PopIndex(r) = Cardinality(High(r))
      BY DEF PushIndex, PopIndex
    <2>6. Cardinality(Low(r)) # 0
      <3>1. Low(r) # {}
        BY <2>2
      <3> HIDE DEF Low, High
      <3> QED BY <1>3, <3>1, FS_EmptySet
    <2> HIDE DEF Low, High
    <2>7. Saved = Cardinality(Low(r)) + Cardinality(High(r)) - 1
      BY <2>2, <2>3, <2>4 DEF Saved
    <2> QED BY <1>1, <1>3, <2>5, <2>6, <2>7
  <1>5. ASSUME NEW r \in frame.saved, NEW s \in frame.saved, r < s
        PROVE  PushIndex(r) # PushIndex(s)
    <2>1. Low(r) \in SUBSET Low(s) /\ s \in Low(s) /\ s \notin Low(r)
      BY <1>1, <1>5
    <2>2. Low(r) # Low(s)
      BY <2>1
    <2> HIDE DEF Low, High
    <2>3. Cardinality(Low(r)) # Cardinality(Low(s))
      <3>1. Cardinality(Low(r)) = Cardinality(Low(s)) => Low(r) = Low(s)
        BY <1>3, <2>1, FS_Subset
      <3> QED BY <2>2, <3>1
    <2> QED BY <2>3 DEF PushIndex, Low
  <1>6. \A r, s \in frame.saved : r # s => PushIndex(r) # PushIndex(s)
    <2> SUFFICES ASSUME NEW r \in frame.saved, NEW s \in frame.saved, r # s
                 PROVE  PushIndex(r) # PushIndex(s)
      OBVIOUS
    <2>1. r < s \/ s < r
      BY <1>1
    <2> QED BY <1>5, <2>1
  <1> QED BY <1>2, <1>4, <1>6

(* Later arguments use later registers and later places. *)
LEMMA UsedOrder ==
  ASSUME CallOK(call), NEW x \in 0..Args, NEW y \in 0..Args, x <= y
  PROVE  /\ Used(x).ints <= Used(y).ints /\ Used(x).floats <= Used(y).floats
         /\ Used(x).space <= Used(y).space
  <1>1. call.types \in Seq(Types)
    BY DEF CallOK
  <1> QED BY <1>1, UsageGrows DEF Used, Args

(* The place of an argument on the stack is in the space made for it, and  *)
(* above the ones of the arguments before it.                              *)
LEMMA StackPlace ==
  ASSUME CallOK(call), FrameOK, NEW x \in 1..Args, ToStack(x)
  PROVE  /\ Used(x - 1).space \in Nat /\ call.types[x].size \in Nat
         /\ SpArgs + Used(x - 1).space + call.types[x].size <= Top
         /\ \A y \in 1..x-1 : ToStack(y) =>
              /\ Used(y - 1).space \in Nat /\ call.types[y].size \in Nat
              /\ Used(y - 1).space + call.types[y].size <= Used(x - 1).space
  <1>1. Args \in Nat
    BY CallProps
  <1>2. Used(x - 1).space \in Nat /\ call.types[x].size \in Nat /\ Used(x).space \in Nat
    BY ArgProps
  <1>3. Used(x).space = Used(x - 1).space + call.types[x].size
    BY StackProps
  <1>4. Used(x).space <= Used(Args).space
    BY <1>1, UsedOrder
  <1>5. SpArgs + Used(x - 1).space + call.types[x].size <= Top
    BY <1>2, <1>3, <1>4, Geometry
  <1>6. ASSUME NEW y \in 1..x-1, ToStack(y)
        PROVE  /\ Used(y - 1).space \in Nat /\ call.types[y].size \in Nat
               /\ Used(y - 1).space + call.types[y].size <= Used(x - 1).space
    <2>1. y \in 1..Args /\ y \in 0..Args /\ x - 1 \in 0..Args /\ y <= x - 1
      BY <1>1
    <2>2. Used(y).space = Used(y - 1).space + call.types[y].size
      BY <1>6, <2>1, StackProps
    <2>3. Used(y).space <= Used(x - 1).space
      BY <2>1, UsedOrder
    <2> QED BY <2>1, <2>2, <2>3, ArgProps
  <1> QED BY <1>2, <1>5, <1>6

(* Stores below an address leave what is above it. *)
KeepsFrom(m, m2, low) ==
  \A at \in Int, size \in Nat : \A tag :
    at >= low /\ Holds(m, at, tag, size) => Holds(m2, at, tag, size)

LEMMA StoreBelow ==
  ASSUME NEW m, NEW p \in Int, NEW bytes, Len(bytes) \in Nat, NEW low \in Int, p + Len(bytes) <= low
  PROVE  KeepsFrom(m, StoreAt(m, p, bytes), low)
  <1> SUFFICES ASSUME NEW at \in Int, NEW size \in Nat, NEW tag, at >= low, Holds(m, at, tag, size)
               PROVE  Holds(StoreAt(m, p, bytes), at, tag, size)
    BY DEF KeepsFrom
  <1>1. p + Len(bytes) <= at
    OBVIOUS
  <1> QED BY <1>1, StoreAtKeeps

LEMMA StoreAllBelow ==
  ASSUME NEW m, NEW address, NEW value, NEW low \in Int,
         \A x \in DOMAIN address : /\ address[x] \in Int /\ Len(value[x]) \in Nat
                                   /\ address[x] + Len(value[x]) <= low
  PROVE  KeepsFrom(m, StoreAll(m, address, value), low)
  <1> SUFFICES ASSUME NEW at \in Int, NEW size \in Nat, NEW tag, at >= low, Holds(m, at, tag, size)
               PROVE  Holds(StoreAll(m, address, value), at, tag, size)
    BY DEF KeepsFrom
  <1>1. \A x \in DOMAIN address : address[x] \in Int /\ Len(value[x]) \in Nat
    OBVIOUS
  <1>2. \A x \in DOMAIN address : address[x] + Len(value[x]) <= at
    OBVIOUS
  <1> QED BY <1>1, <1>2, StoreAllKeeps

(* A step that stores nothing from low on keeps the facts about it. *)
LEMMA CallerStaysKept ==
  ASSUME CallerKept, KeepsFrom(mem, mem', Top)
  PROVE  CallerKept'
  BY DEF CallerKept, KeepsFrom, Top

LEMMA KeepsHigher ==
  ASSUME NEW m, NEW m2, NEW low \in Int, NEW high \in Int, low <= high, KeepsFrom(m, m2, low)
  PROVE  KeepsFrom(m, m2, high)
  <1> SUFFICES ASSUME NEW at \in Int, NEW size \in Nat, NEW tag, at >= high, Holds(m, at, tag, size)
               PROVE  Holds(m2, at, tag, size)
    BY DEF KeepsFrom
  <1>1. at >= low
    OBVIOUS
  <1> QED BY <1>1 DEF KeepsFrom

(* Where the pushed registers begin. *)
PushBase == SpArgs - 16 - 8 * Saved

LEMMA PushBaseProps ==
  ASSUME CallOK(call), FrameOK
  PROVE  /\ PushBase \in Int /\ PushBase = SpBody + StackAdjustment
         /\ PushBase <= SpArgs - 16 /\ SpArgs <= Top /\ SpArgs \in Int
         /\ \A r \in frame.saved : /\ PushIndex(r) \in 1..Saved
                                   /\ PushBase <= SpArgs - 16 - 8 * PushIndex(r)
                                   /\ SpArgs - 16 - 8 * PushIndex(r) \in Int
  <1>1. /\ ArgsPlusPadding \in Nat /\ SpArgs \in Int /\ SpArgs + ArgsPlusPadding = Top
        /\ Saved \in Nat /\ StackAdjustment \in Nat /\ SpBody \in Int
        /\ SpBody + StackAdjustment + 8 * Saved + 16 = SpArgs
    BY Geometry
  <1>2. PushBase \in Int /\ PushBase = SpBody + StackAdjustment /\ PushBase <= SpArgs - 16
    BY <1>1 DEF PushBase
  <1>3. SpArgs <= Top
    BY <1>1 DEF Top
  <1>4. ASSUME NEW r \in frame.saved
        PROVE  /\ PushIndex(r) \in 1..Saved /\ PushBase <= SpArgs - 16 - 8 * PushIndex(r)
               /\ SpArgs - 16 - 8 * PushIndex(r) \in Int
    <2>1. PushIndex(r) \in 1..Saved
      BY PushProps
    <2> QED BY <1>1, <2>1 DEF PushBase
  <1> QED BY <1>1, <1>2, <1>3, <1>4

LEMMA PushedStayKept ==
  ASSUME CallOK(call), FrameOK, call' = call, frame' = frame, step \in InCallee, PushedKept,
         KeepsFrom(mem, mem', PushBase)
  PROVE  PushedKept'
  <1>1. SpArgs' = SpArgs /\ \A r : PushIndex(r)' = PushIndex(r)
    BY CallFixed
  <1>2. Holds(mem', SpArgs - 16, <<"caller bp">>, 8)
    <2>1. SpArgs - 16 \in Int /\ SpArgs - 16 >= PushBase
      BY PushBaseProps
    <2> QED BY <2>1 DEF PushedKept, KeepsFrom
  <1>3. ASSUME NEW r \in frame.saved
        PROVE  Holds(mem', SpArgs - 16 - 8 * PushIndex(r), <<"saved", r>>, 8)
    <2>1. PICK a \in Int : a = SpArgs - 16 - 8 * PushIndex(r)
      BY PushBaseProps
    <2>2. a >= PushBase /\ PushBase \in Int
      BY <2>1, PushBaseProps
    <2>3. Holds(mem, a, <<"saved", r>>, 8)
      BY <2>1 DEF PushedKept
    <2>4. Holds(mem', a, <<"saved", r>>, 8)
      BY <2>2, <2>3 DEF KeepsFrom
    <2> QED BY <2>1, <2>4
  <1> QED BY <1>1, <1>2, <1>3 DEF PushedKept

LEMMA ArgsStayPlaced ==
  ASSUME CallOK(call), FrameOK, call' = call, frame' = frame, regs' = regs, ArgsPlaced,
         Passed' = Passed, Passed \in 0..Args, KeepsFrom(mem, mem', SpArgs),
         Unmoved' => Unmoved
  PROVE  ArgsPlaced'
  <1>1. SpArgs' = SpArgs
    BY CallFixed
  <1>2. ASSUME NEW x \in 1..Passed
        PROVE  Placed(x)'
    <2>0. x \in 1..Args
      BY CallProps
    <2>1. Placed(x)
      BY DEF ArgsPlaced
    <2>2. /\ (Dropped(x)' <=> Dropped(x)) /\ (ToStack(x)' <=> ToStack(x))
          /\ (ToIntReg(x)' <=> ToIntReg(x)) /\ (ToFloatReg(x)' <=> ToFloatReg(x))
          /\ Used(x - 1)' = Used(x - 1)
      BY CallFixed
    <2>3. ASSUME ToStack(x)
          PROVE  Holds(mem', SpArgs + Used(x - 1).space, <<"arg", x>>, call.types[x].size)
      <3>1. Used(x - 1).space \in Nat /\ call.types[x].size \in Nat /\ SpArgs \in Int
        BY <2>0, ArgProps, Geometry
      <3>2. PICK a \in Int : a = SpArgs + Used(x - 1).space
        BY <3>1
      <3>3. a >= SpArgs
        BY <3>1, <3>2
      <3>4. Holds(mem, a, <<"arg", x>>, call.types[x].size)
        BY <2>1, <2>3, <3>2 DEF Placed
      <3>5. Holds(mem', a, <<"arg", x>>, call.types[x].size)
        BY <3>1, <3>3, <3>4 DEF KeepsFrom
      <3> QED BY <3>2, <3>5
    <2>4. \A r : RegHolds(r, x)' <=> RegHolds(r, x)
      BY DEF RegHolds
    <2> QED BY <1>1, <2>1, <2>2, <2>3, <2>4 DEF Placed
  <1> QED BY <1>2 DEF ArgsPlaced

LEMMA NothingStored ==
  ASSUME NEW m, NEW low
  PROVE  KeepsFrom(m, m, low)
  BY DEF KeepsFrom

LEMMA ReadStaysRight ==
  ASSUME ReadRight, call' = call, got' = got
  PROVE  ReadRight'
  BY DEF ReadRight, ParametersArrive, VarArgsFollowParams, Arrived, Used, InLowerHalf, CalleeSeq

(* What was passed in registers is there before the first MOV. *)
LEMMA ParamsUnmoved ==
  ASSUME CallOK(call), call' = call, frame' = frame, regs' = regs, n' = 1, Unmoved,
         step' \in {"save", "moves"}, \A x \in 1..Args : Placed(x)
  PROVE  MovesOK'
  <1> SUFFICES ASSUME step' = "moves", NEW x \in 1..call.fixed PROVE ParamKept(x)'
    BY DEF MovesOK
  <1>1. Placed(x) /\ x \in 1..Args /\ ~(x < n')
    BY CallProps
  <1>2. /\ (ToIntReg(x)' <=> ToIntReg(x)) /\ (ToFloatReg(x)' <=> ToFloatReg(x))
        /\ (LowFloat(x)' <=> LowFloat(x)) /\ Used(x - 1)' = Used(x - 1)
    BY CallFixed
  <1>3. ~Moved(x)'
    BY <1>1 DEF Moved
  <1>4. IntPlace(x)' = <<"int", Used(x - 1).ints>> /\ FloatPlace(x)' = <<"float", Used(x - 1).floats>>
    BY <1>2, <1>3 DEF IntPlace, FloatPlace
  <1>5. ToIntReg(x) => RegHolds(<<"int", Used(x - 1).ints>>, x)
    BY <1>1 DEF Placed
  <1>6. LowFloat(x) => RegHolds(<<"float", Used(x - 1).floats>>, x)
    BY <1>1 DEF Placed, LowFloat
  <1> QED BY <1>2, <1>4, <1>5, <1>6 DEF ParamKept, RegHolds

LEMMA ParamsStayKept ==
  ASSUME call' = call, frame' = frame, regs' = regs, NEW x, ParamKept(x), Moved(x)' <=> Moved(x)
  PROVE  ParamKept(x)'
  <1>1. /\ (ToIntReg(x)' <=> ToIntReg(x)) /\ (LowFloat(x)' <=> LowFloat(x))
        /\ Used(x - 1)' = Used(x - 1)
    BY CallFixed
  <1>2. IntPlace(x)' = IntPlace(x) /\ FloatPlace(x)' = FloatPlace(x)
    BY <1>1 DEF IntPlace, FloatPlace
  <1> QED BY <1>1, <1>2 DEF ParamKept, RegHolds

-----------------------------------------------------------------------------
(* One lemma per action. *)
LEMMA CallInitSound ==
  ASSUME CallInit
  PROVE  CallFrameInv
  <1>1. CallOK(call) /\ FrameOK
    BY CallFrameAssumption DEF CallInit, FrameOK
  <1>2. step = "sub" /\ n = 1 /\ sp = Top /\ bp = Top + 512 /\ regs = <<>> /\ got = <<>>
    BY DEF CallInit
  <1>3. PointersOK
    BY <1>2 DEF PointersOK, Before, InCallee, After
  <1>4. SavesOK
    <2>1. saves = [r \in 1..5 |-> Bytes(<<"saved", r>>, 8)]
      BY DEF CallInit
    <2> QED BY <2>1 DEF SavesOK
  <1>5. CallerKept
    <2>1. Top \in Int /\ 16 \in Nat
      BY DEF Top
    <2>2. mem = StoreAt(<<>>, Top, Bytes(<<"caller">>, 16))
      BY DEF CallInit, CallerBytes
    <2> QED BY <2>1, <2>2, StoreAtHolds DEF CallerKept
  <1>6. PushedKept
    BY <1>2 DEF PushedKept, InCallee
  <1>7. ArgsPlaced
    BY <1>2 DEF ArgsPlaced, Passed
  <1>8. SaveAreaOK
    BY <1>2 DEF SaveAreaOK
  <1>9. IndexOK
    BY <1>1, <1>2, CallProps DEF IndexOK
  <1>10. GotOK
    <2>1. got \in Seq({}) /\ Len(got) = 0
      BY <1>2
    <2>2. ReadRight
      BY <2>1 DEF ReadRight, ParametersArrive, VarArgsFollowParams
    <2> QED BY <1>2, <2>2 DEF GotOK
  <1>11. VaListOK
    BY <1>2 DEF VaListOK
  <1>12. MovesOK
    BY <1>2 DEF MovesOK
  <1> QED BY <1>1, <1>3, <1>4, <1>5, <1>6, <1>7, <1>8, <1>9, <1>10, <1>11, <1>12 DEF CallFrameInv

LEMMA MakeSpaceSound ==
  ASSUME CallFrameInv, MakeSpace
  PROVE  CallFrameInv'
  <1>1. CallOK(call) /\ FrameOK /\ call' = call /\ frame' = frame /\ step = "sub" /\ step' = "args"
    BY DEF CallFrameInv, MakeSpace
  <1>2. CallOK(call)' /\ FrameOK' /\ SpArgs' = SpArgs /\ Args' = Args
    BY <1>1, CallFixed
  <1>3. PointersOK'
    BY <1>1, <1>2, Geometry DEF CallFrameInv, PointersOK, MakeSpace, SpArgs, Before, InCallee, After
  <1>4. SavesOK'
    BY <1>1 DEF CallFrameInv, SavesOK, MakeSpace
  <1>5. CallerKept'
    BY NothingStored, CallerStaysKept DEF CallFrameInv, MakeSpace
  <1>6. PushedKept'
    BY <1>1 DEF PushedKept, InCallee
  <1>7. ArgsPlaced'
    <2>1. n = 1
      BY <1>1 DEF CallFrameInv, IndexOK
    <2>2. Passed' = 0
      BY <1>1, <2>1 DEF Passed, MakeSpace
    <2> QED BY <1>1, <2>2 DEF ArgsPlaced, MakeSpace, CallFrameInv, Unmoved, Before
  <1>8. SaveAreaOK'
    BY <1>1 DEF SaveAreaOK
  <1>9. IndexOK'
    BY <1>1, <1>2, CallProps DEF CallFrameInv, IndexOK, MakeSpace
  <1>10. GotOK'
    BY <1>1, ReadStaysRight DEF CallFrameInv, GotOK, MakeSpace, Before
  <1>11. VaListOK'
    BY <1>1 DEF VaListOK
  <1>12. MovesOK'
    BY <1>1 DEF MovesOK
  <1> QED
    BY <1>2, <1>3, <1>4, <1>5, <1>6, <1>7, <1>8, <1>9, <1>10, <1>11, <1>12 DEF CallFrameInv

(* The actions that pass an argument: all but where the argument goes. *)
LEMMA PassingSound ==
  ASSUME CallFrameInv, Passing, n' = n + 1, ArgsPlaced', CallerKept',
         UNCHANGED <<call, frame, step, sp, bp, al, saves, got, va>>
  PROVE  CallFrameInv'
  <1>1. CallOK(call) /\ FrameOK /\ step = "args" /\ n <= Args /\ n \in Nat \ {0}
    BY DEF CallFrameInv, Passing, Args, IndexOK
  <1>2. CallOK(call)' /\ FrameOK' /\ SpArgs' = SpArgs /\ Args' = Args
    BY <1>1, CallFixed
  <1>3. PointersOK'
    BY <1>1, <1>2 DEF CallFrameInv, PointersOK, Before, InCallee, After
  <1>4. SavesOK'
    BY <1>1 DEF CallFrameInv, SavesOK
  <1>6. PushedKept'
    BY <1>1 DEF PushedKept, InCallee
  <1>8. SaveAreaOK'
    BY <1>1 DEF SaveAreaOK
  <1>9. IndexOK'
    BY <1>1, <1>2, CallProps DEF IndexOK
  <1>10. GotOK'
    BY <1>1, ReadStaysRight DEF CallFrameInv, GotOK, Before
  <1>11. VaListOK'
    BY <1>1 DEF VaListOK
  <1>12. MovesOK'
    BY <1>1 DEF MovesOK
  <1> QED
    BY <1>2, <1>3, <1>4, <1>6, <1>8, <1>9, <1>10, <1>11, <1>12 DEF CallFrameInv

(* The argument at hand, its class and what is placed already. *)
LEMMA PassingProps ==
  ASSUME CallFrameInv, Passing
  PROVE  /\ n \in 1..Args /\ Passed = n - 1 /\ Class = ArgClass(n)
         /\ Value = Bytes(<<"arg", n>>, call.types[n].size) /\ call.types[n].size \in Nat
         /\ sp = SpArgs /\ CallOK(call) /\ FrameOK
         /\ \A x \in 1..n-1 : Placed(x) /\ x \in 1..Args
  <1>1. CallOK(call) /\ FrameOK /\ step = "args" /\ n \in 1..Args
    BY CallProps DEF CallFrameInv, Passing, Args, IndexOK
  <1>2. Class = ArgClass(n)
    BY <1>1, SidesAgree DEF Class
  <1>3. Passed = n - 1
    BY <1>1 DEF Passed
  <1>4. \A x \in 1..n-1 : Placed(x) /\ x \in 1..Args
    BY <1>1, <1>3, CallProps DEF CallFrameInv, ArgsPlaced
  <1>5. sp = SpArgs
    BY <1>1 DEF CallFrameInv, PointersOK
  <1> QED BY <1>1, <1>2, <1>3, <1>4, <1>5, ArgProps DEF Value

LEMMA PassInRegisterSound ==
  ASSUME CallFrameInv, PassInRegister
  PROVE  CallFrameInv'
  <1>0. Passing /\ call' = call /\ frame' = frame /\ mem' = mem /\ step' = step /\ n' = n + 1
    BY DEF PassInRegister
  <1>1. PICK k : k = n
    OBVIOUS
  <1>2. /\ k \in 1..Args /\ Passed = k - 1 /\ Class = ArgClass(k)
        /\ Value = Bytes(<<"arg", k>>, call.types[k].size) /\ call.types[k].size \in Nat
        /\ CallOK(call) /\ FrameOK /\ \A x \in 1..k-1 : Placed(x) /\ x \in 1..Args
    BY <1>0, <1>1, PassingProps
  <1>3. PICK r : r = Class.reg
    OBVIOUS
  <1>4. regs' = Over(regs, [q \in {r} |-> Value])
    BY <1>3 DEF PassInRegister
  <1>5. \/ ToIntReg(k) /\ r = <<"int", Used(k - 1).ints>>
        \/ ToFloatReg(k) /\ r = <<"float", Used(k - 1).floats>>
    <2>1. ArgClass(k).t = "reg"
      BY <1>2 DEF PassInRegister
    <2>2. ~ToStack(k) /\ ~Dropped(k)
      BY <1>2, <2>1, StackProps, DroppedProps
    <2>3. ToIntReg(k) \/ ToFloatReg(k)
      BY <1>2, <2>2, ArgProps
    <2>4. CASE ToIntReg(k)
      BY <1>2, <1>3, <2>4, IntRegProps DEF ByReg
    <2>5. CASE ToFloatReg(k)
      BY <1>2, <1>3, <2>5, FloatRegProps DEF ByReg
    <2> QED BY <2>3, <2>4, <2>5
  <1>6. r \in DOMAIN regs' /\ regs'[r] = Value
    BY <1>4, OverProps
  <1>7. \A q : q \in DOMAIN regs /\ q # r => q \in DOMAIN regs' /\ regs'[q] = regs[q]
    BY <1>4, OverProps
  <1>8. SpArgs' = SpArgs /\ call.types[k].size <= 8
    BY <1>0, <1>2, <1>5, CallFixed, ArgProps DEF ToIntReg, ToFloatReg
  <1>9. \A x : /\ (Dropped(x)' <=> Dropped(x)) /\ (ToStack(x)' <=> ToStack(x))
               /\ (ToIntReg(x)' <=> ToIntReg(x)) /\ (ToFloatReg(x)' <=> ToFloatReg(x))
               /\ Used(x - 1)' = Used(x - 1)
    BY <1>0, CallFixed
  <1>10. ASSUME NEW x \in 1..k-1
         PROVE  Placed(x)'
    <2>1. Placed(x) /\ x \in 1..Args /\ x <= k - 1 /\ x \in 0..Args /\ k - 1 \in 0..Args
      BY <1>2, CallProps
    <2>2. Used(x).ints <= Used(k - 1).ints /\ Used(x).floats <= Used(k - 1).floats
      BY <1>2, <2>1, UsedOrder
    <2>3. ASSUME ToIntReg(x)
          PROVE  RegHolds(<<"int", Used(x - 1).ints>>, x)'
      <3>1. Used(x - 1).ints # Used(k - 1).ints
        <4>1. Used(x).ints = Used(x - 1).ints + 1
          BY <1>2, <2>1, <2>3, IntRegProps
        <4>2. Used(x - 1).ints \in Int /\ Used(x).ints \in Int
          BY <1>2, <2>1, ArgProps
        <4>3. Used(k - 1).ints \in Int
          BY <1>2, ArgProps
        <4> QED BY <2>2, <4>1, <4>2, <4>3
      <3>2. <<"int", Used(x - 1).ints>> # r
        BY <1>5, <3>1
      <3>3. RegHolds(<<"int", Used(x - 1).ints>>, x)
        BY <1>0, <2>1, <2>3 DEF Placed, Unmoved, Before, Passing
      <3>4. PICK q : q = <<"int", Used(x - 1).ints>>
        OBVIOUS
      <3>5. RegHolds(q, x)'
        BY <1>0, <1>7, <3>2, <3>3, <3>4 DEF RegHolds
      <3>6. <<"int", Used(x - 1).ints>>' = <<"int", Used(x - 1).ints>>
        BY <1>9
      <3> QED BY <3>4, <3>5, <3>6 DEF RegHolds
    <2>4. ASSUME ToFloatReg(x)
          PROVE  RegHolds(<<"float", Used(x - 1).floats>>, x)'
      <3>1. Used(x - 1).floats # Used(k - 1).floats
        <4>1. Used(x).floats = Used(x - 1).floats + 1
          BY <1>2, <2>1, <2>4, FloatRegProps
        <4>2. Used(x - 1).floats \in Int /\ Used(x).floats \in Int
          BY <1>2, <2>1, ArgProps
        <4>3. Used(k - 1).floats \in Int
          BY <1>2, ArgProps
        <4> QED BY <2>2, <4>1, <4>2, <4>3
      <3>2. <<"float", Used(x - 1).floats>> # r
        BY <1>5, <3>1
      <3>3. RegHolds(<<"float", Used(x - 1).floats>>, x)
        BY <1>0, <2>1, <2>4 DEF Placed, Unmoved, Before, Passing
      <3>4. PICK q : q = <<"float", Used(x - 1).floats>>
        OBVIOUS
      <3>5. RegHolds(q, x)'
        BY <1>0, <1>7, <3>2, <3>3, <3>4 DEF RegHolds
      <3>6. <<"float", Used(x - 1).floats>>' = <<"float", Used(x - 1).floats>>
        BY <1>9
      <3> QED BY <3>4, <3>5, <3>6 DEF RegHolds
    <2>5. ToStack(x) => Holds(mem, SpArgs + Used(x - 1).space, <<"arg", x>>, call.types[x].size)'
      BY <1>0, <1>8, <1>9, <2>1 DEF Placed
    <2> QED BY <1>9, <2>1, <2>3, <2>4, <2>5 DEF Placed
  <1>11. Placed(k)'
    <2>1. RegHolds(r, k)'
      BY <1>0, <1>2, <1>6 DEF RegHolds
    <2>2. ~ToStack(k) /\ ~Dropped(k) /\ ~(ToIntReg(k) /\ ToFloatReg(k))
      <3>1. CASE ToIntReg(k)
        <4>1. ~(Used(k - 1).ints >= IntRegs)
          BY <1>2, <3>1, ArgProps, CallFrameAssumption DEF ToIntReg
        <4> QED BY <3>1, <4>1 DEF ToIntReg, ToStack, Dropped, ToFloatReg
      <3>2. CASE ToFloatReg(k)
        <4>1. ~(Used(k - 1).floats >= FloatRegs)
          BY <1>2, <3>2, ArgProps, CallFrameAssumption DEF ToFloatReg
        <4> QED BY <3>2, <4>1 DEF ToFloatReg, ToStack, Dropped, ToIntReg
      <3> QED BY <1>5, <3>1, <3>2
    <2>3. ToIntReg(k) => r = <<"int", Used(k - 1)'.ints>>
      BY <1>5, <1>9, <2>2
    <2>4. ToFloatReg(k) => r = <<"float", Used(k - 1)'.floats>>
      BY <1>5, <1>9, <2>2
    <2> QED BY <1>9, <2>1, <2>2, <2>3, <2>4 DEF Placed, RegHolds
  <1>12. ArgsPlaced'
    <2>1. Passed' = k
      BY <1>0, <1>1, <1>2 DEF Passed, Passing
    <2>2. \A x \in 1..k : x \in 1..k-1 \/ x = k
      BY <1>2
    <2>3. \A x \in 1..k : Placed(x)'
      BY <1>10, <1>11, <2>2
    <2>4. \A q \in DOMAIN regs' : Len(regs'[q]) \in 0..8
      <3>1. Len(regs'[r]) \in 0..8
        <4>1. Len(Value) = call.types[k].size
          BY <1>2, BytesProps
        <4>2. PICK v : v = Value
          OBVIOUS
        <4>3. regs'[r] = v /\ Len(v) = call.types[k].size
          BY <1>6, <4>1, <4>2
        <4> QED BY <1>2, <1>8, <4>3
      <3>2. ASSUME NEW q \in DOMAIN regs', q # r PROVE Len(regs'[q]) \in 0..8
        <4>1. q \in DOMAIN regs
          BY <1>4, <3>2 DEF Over
        <4> QED BY <1>0, <1>7, <3>2, <4>1 DEF CallFrameInv, ArgsPlaced, Unmoved, Before, Passing
      <3> QED BY <3>1, <3>2
    <2> QED BY <2>1, <2>3, <2>4 DEF ArgsPlaced
  <1>13. CallerKept'
    BY <1>0 DEF CallFrameInv, CallerKept
  <1> QED BY <1>0, <1>12, <1>13, PassingSound DEF PassInRegister

LEMMA PassInMemorySound ==
  ASSUME CallFrameInv, PassInMemory
  PROVE  CallFrameInv'
  <1>0. Passing /\ call' = call /\ frame' = frame /\ regs' = regs /\ step' = step /\ n' = n + 1
    BY DEF PassInMemory
  <1>1. PICK k : k = n
    OBVIOUS
  <1>2. /\ k \in 1..Args /\ Passed = k - 1 /\ Class = ArgClass(k)
        /\ Value = Bytes(<<"arg", k>>, call.types[k].size) /\ call.types[k].size \in Nat
        /\ sp = SpArgs /\ CallOK(call) /\ FrameOK /\ \A x \in 1..k-1 : Placed(x) /\ x \in 1..Args
    BY <1>0, <1>1, PassingProps
  <1>3. ToStack(k) /\ ~Dropped(k) /\ ~ToIntReg(k) /\ ~ToFloatReg(k)
    <2>1. ArgClass(k).t = "mem" /\ call.types[k].kind # "float"
      BY <1>1, <1>2 DEF PassInMemory
    <2>2. ~Dropped(k) /\ ~ToFloatReg(k)
      BY <2>1 DEF Dropped, ToFloatReg
    <2>3. ~ToIntReg(k)
      <3> SUFFICES ASSUME ToIntReg(k) PROVE FALSE
        OBVIOUS
      <3>1. ArgClass(k).t = "reg"
        BY <1>2, IntRegProps DEF ByReg
      <3> QED BY <2>1, <3>1
    <2> QED BY <1>2, <2>2, <2>3, ArgProps
  <1>4. PICK p : p = SpArgs + Used(k - 1).space
    OBVIOUS
  <1>5. mem' = StoreAt(mem, p, Bytes(<<"arg", k>>, call.types[k].size))
    <2>1. Class.offset = Used(k - 1).space
      BY <1>2, <1>3, StackProps
    <2> QED BY <1>2, <1>4, <2>1 DEF PassInMemory
  <1>6. /\ Used(k - 1).space \in Nat /\ SpArgs \in Int /\ p \in Int
        /\ p + call.types[k].size <= Top /\ Top \in Int
    BY <1>2, <1>3, <1>4, StackPlace, Geometry DEF Top
  <1>7. Len(Bytes(<<"arg", k>>, call.types[k].size)) = call.types[k].size
    BY <1>2, BytesProps
  <1>8. CallerKept'
    <2>1. KeepsFrom(mem, mem', Top)
      BY <1>2, <1>5, <1>6, <1>7, StoreBelow
    <2> QED BY <2>1, CallerStaysKept DEF CallFrameInv
  <1>9. \A x : /\ (Dropped(x)' <=> Dropped(x)) /\ (ToStack(x)' <=> ToStack(x))
               /\ (ToIntReg(x)' <=> ToIntReg(x)) /\ (ToFloatReg(x)' <=> ToFloatReg(x))
               /\ Used(x - 1)' = Used(x - 1)
    BY <1>0, CallFixed
  <1>10. SpArgs' = SpArgs /\ \A r, x : RegHolds(r, x)' <=> RegHolds(r, x)
    BY <1>0, CallFixed DEF RegHolds
  <1>11. ASSUME NEW x \in 1..k-1
         PROVE  Placed(x)'
    <2>1. Placed(x) /\ x \in 1..Args
      BY <1>2
    <2>2. ASSUME ToStack(x)
          PROVE  Holds(mem', SpArgs + Used(x - 1).space, <<"arg", x>>, call.types[x].size)
      <3>1. /\ Used(x - 1).space \in Nat /\ call.types[x].size \in Nat
            /\ Used(x - 1).space + call.types[x].size <= Used(k - 1).space
        BY <1>2, <1>3, <2>2, StackPlace
      <3>2. PICK a \in Int : a = SpArgs + Used(x - 1).space
        BY <1>6, <3>1
      <3>3. a + call.types[x].size <= p
        BY <1>4, <1>6, <3>1, <3>2
      <3>4. Holds(mem, a, <<"arg", x>>, call.types[x].size)
        BY <2>1, <2>2, <3>2 DEF Placed
      <3>5. Holds(mem', a, <<"arg", x>>, call.types[x].size)
        BY <1>2, <1>5, <1>6, <1>7, <3>1, <3>3, <3>4, StoreAtKeeps
      <3> QED BY <3>2, <3>5
    <2> QED BY <1>0, <1>9, <1>10, <2>1, <2>2 DEF Placed, Unmoved
  <1>12. Placed(k)'
    <2>1. Holds(mem', p, <<"arg", k>>, call.types[k].size)
      BY <1>2, <1>5, <1>6, StoreAtHolds
    <2> QED BY <1>0, <1>3, <1>4, <1>9, <1>10, <2>1 DEF Placed
  <1>13. ArgsPlaced'
    <2>1. Passed' = k
      BY <1>0, <1>1, <1>2 DEF Passed, Passing
    <2>2. \A x \in 1..k : x \in 1..k-1 \/ x = k
      BY <1>2
    <2>3. \A x \in 1..k : Placed(x)'
      BY <1>11, <1>12, <2>2
    <2>4. \A q \in DOMAIN regs' : Len(regs'[q]) \in 0..8
      BY <1>0 DEF CallFrameInv, ArgsPlaced, Unmoved, Before, Passing
    <2> QED BY <2>1, <2>3, <2>4 DEF ArgsPlaced
  <1> QED BY <1>0, <1>8, <1>13, PassingSound DEF PassInMemory

LEMMA PassFloatInMemorySound ==
  ASSUME CallFrameInv, PassFloatInMemory
  PROVE  CallFrameInv'
  <1>1. /\ CallOK(call) /\ FrameOK /\ call' = call /\ frame' = frame
        /\ step = "args" /\ step' = "assertion"
    BY DEF CallFrameInv, PassFloatInMemory, Passing
  <1>2. CallOK(call)' /\ FrameOK' /\ SpArgs' = SpArgs /\ Args' = Args
    BY <1>1, CallFixed
  <1>3. PointersOK'
    BY <1>1, <1>2 DEF CallFrameInv, PointersOK, PassFloatInMemory, Before, InCallee, After
  <1>4. SavesOK'
    BY <1>1 DEF CallFrameInv, SavesOK, PassFloatInMemory
  <1>5. CallerKept'
    BY NothingStored, CallerStaysKept DEF CallFrameInv, PassFloatInMemory
  <1>6. PushedKept'
    BY <1>1 DEF PushedKept, InCallee
  <1>7. ArgsPlaced'
    <2>1. Passed' = Passed /\ Passed = n - 1
      BY <1>1 DEF Passed, PassFloatInMemory
    <2>2. Passed \in 0..Args
      BY <1>1, <2>1, CallProps DEF CallFrameInv, IndexOK
    <2>3. KeepsFrom(mem, mem', SpArgs)
      BY NothingStored DEF PassFloatInMemory
    <2> QED BY <1>1, <2>1, <2>2, <2>3, ArgsStayPlaced DEF CallFrameInv, PassFloatInMemory, Unmoved, Before
  <1>8. SaveAreaOK'
    BY <1>1 DEF SaveAreaOK
  <1>9. IndexOK'
    BY <1>1, <1>2 DEF CallFrameInv, IndexOK, PassFloatInMemory
  <1>10. GotOK'
    BY <1>1, ReadStaysRight DEF CallFrameInv, GotOK, PassFloatInMemory, Before
  <1>11. VaListOK'
    BY <1>1 DEF VaListOK
  <1>12. MovesOK'
    BY <1>1 DEF MovesOK
  <1> QED
    BY <1>2, <1>3, <1>4, <1>5, <1>6, <1>7, <1>8, <1>9, <1>10, <1>11, <1>12 DEF CallFrameInv

LEMMA DoCallSound ==
  ASSUME CallFrameInv, DoCall
  PROVE  CallFrameInv'
  <1>1. /\ CallOK(call) /\ FrameOK /\ call' = call /\ frame' = frame
        /\ step = "args" /\ step' = "prologue" /\ n > Args
    BY DEF CallFrameInv, DoCall, Args
  <1>2. CallOK(call)' /\ FrameOK' /\ SpArgs' = SpArgs /\ Args' = Args /\ FloatsInRegs' = FloatsInRegs
    BY <1>1, CallFixed
  <1>3. sp = SpArgs /\ sp' = sp - 8 /\ bp' = bp /\ bp = Top + 512
    BY <1>1 DEF CallFrameInv, PointersOK, DoCall, Before
  <1>4. PointersOK'
    BY <1>1, <1>2, <1>3 DEF PointersOK, Before, InCallee, After
  <1>5. SavesOK'
    BY <1>1 DEF CallFrameInv, SavesOK, DoCall
  <1>6. KeepsFrom(mem, mem', SpArgs)
    <2> DEFINE bytes == Bytes(<<"return address">>, 8)
    <2>1. Len(bytes) = 8 /\ SpArgs \in Int
      BY <1>1, BytesProps, Geometry
    <2>2. mem' = StoreAt(mem, SpArgs - 8, bytes)
      BY <1>3 DEF DoCall
    <2> HIDE DEF bytes
    <2>3. SpArgs - 8 \in Int /\ SpArgs - 8 + Len(bytes) <= SpArgs /\ Len(bytes) \in Nat
      BY <2>1
    <2> QED BY <2>1, <2>2, <2>3, StoreBelow
  <1>7. CallerKept'
    <2>1. KeepsFrom(mem, mem', Top)
      BY <1>1, <1>6, PushBaseProps, KeepsHigher DEF Top
    <2> QED BY <2>1, CallerStaysKept DEF CallFrameInv
  <1>8. PushedKept'
    BY <1>1 DEF PushedKept, InCallee
  <1>9. ArgsPlaced'
    <2>1. n = Args + 1 /\ Args \in Nat
      BY <1>1, CallProps DEF CallFrameInv, IndexOK
    <2>2. Passed' = Passed /\ Passed = Args
      BY <1>1, <1>2, <2>1 DEF Passed
    <2>3. Passed \in 0..Args
      BY <2>1, <2>2
    <2> QED BY <1>1, <1>6, <2>2, <2>3, ArgsStayPlaced DEF CallFrameInv, DoCall, Unmoved, Before
  <1>10. SaveAreaOK'
    BY <1>1, <1>2 DEF SaveAreaOK, DoCall
  <1>11. IndexOK'
    BY <1>1, <1>2 DEF CallFrameInv, IndexOK, DoCall
  <1>12. GotOK'
    BY <1>1, ReadStaysRight DEF CallFrameInv, GotOK, DoCall, Before
  <1>13. VaListOK'
    BY <1>1 DEF VaListOK
  <1>14. MovesOK'
    BY <1>1 DEF MovesOK
  <1> QED
    BY <1>2, <1>4, <1>5, <1>7, <1>8, <1>9, <1>10, <1>11, <1>12, <1>13, <1>14 DEF CallFrameInv

LEMMA PrologueSound ==
  ASSUME CallFrameInv, Prologue
  PROVE  CallFrameInv'
  <1>1. /\ CallOK(call) /\ FrameOK /\ call' = call /\ frame' = frame
        /\ step = "prologue" /\ step' \in {"save", "moves"}
        /\ (step' = "save" => call.variadic) /\ (step' = "moves" => ~call.variadic)
        /\ n' = 1 /\ regs' = regs
    BY DEF CallFrameInv, Prologue
  <1>2. /\ CallOK(call)' /\ FrameOK' /\ SpArgs' = SpArgs /\ Args' = Args /\ SpBody' = SpBody
        /\ FloatsInRegs' = FloatsInRegs /\ \A r : PushIndex(r)' = PushIndex(r)
    BY <1>1, CallFixed
  <1>3. sp = SpArgs - 8 /\ SpArgs \in Int /\ Saved \in Nat /\ StackAdjustment \in Nat
    BY <1>1, Geometry DEF CallFrameInv, PointersOK
  <1>4. sp' = SpBody /\ bp' = SpArgs - 16
    <2>1. sp' = SpArgs - 8 - 8 - 8 * Saved - StackAdjustment /\ bp' = SpArgs - 8 - 8
      BY <1>3 DEF Prologue, Saved
    <2> QED BY <1>3, <2>1 DEF SpBody
  <1>5. PointersOK'
    BY <1>1, <1>2, <1>4 DEF PointersOK, Before, InCallee, After
  <1>6. SavesOK' /\ \A r \in 1..5 : saves[r] = Bytes(<<"saved", r>>, 8)
    BY <1>1 DEF CallFrameInv, SavesOK, Prologue
  <1> DEFINE pushed == {0} \cup frame.saved
             address == [r \in pushed |-> sp - 8 - 8 * PushIndex(r)]
             value == [r \in pushed |-> IF r = 0 THEN Bytes(<<"caller bp">>, 8) ELSE saves[r]]
  <1>7. mem' = StoreAll(mem, address, value)
    BY DEF Prologue
  <1>8. frame.saved \subseteq 1..5 /\ 0 \notin frame.saved
    BY <1>1 DEF FrameOK
  <1>9. DOMAIN address = pushed /\ \A r \in pushed : PushIndex(r) \in 0..Saved
    <2>1. PushIndex(0) = 0 /\ \A r \in frame.saved : PushIndex(r) \in 1..Saved
      BY <1>1, PushProps
    <2> QED BY <1>3, <2>1
  <1>10. \A r, s \in pushed : r # s => PushIndex(r) # PushIndex(s)
    <2>1. /\ PushIndex(0) = 0 /\ \A r \in frame.saved : PushIndex(r) \in 1..Saved
          /\ \A r, s \in frame.saved : r # s => PushIndex(r) # PushIndex(s)
      BY <1>1, PushProps
    <2> QED BY <1>3, <2>1
  <1>11. ASSUME NEW r \in pushed
         PROVE  /\ address[r] = SpArgs - 16 - 8 * PushIndex(r) /\ address[r] \in Int
                /\ Len(value[r]) = 8 /\ address[r] + 8 <= SpArgs
    <2>1. PushIndex(r) \in Nat
      BY <1>3, <1>9
    <2>2. value[r] = IF r = 0 THEN Bytes(<<"caller bp">>, 8) ELSE Bytes(<<"saved", r>>, 8)
      BY <1>6, <1>8
    <2>3. Len(value[r]) = 8
      <3>1. 8 \in Nat
        OBVIOUS
      <3>2. Len(Bytes(<<"caller bp">>, 8)) = 8 /\ Len(Bytes(<<"saved", r>>, 8)) = 8
        BY <3>1, BytesProps
      <3> HIDE DEF value
      <3> QED BY <2>2, <3>2
    <2>4. address[r] = sp - 8 - 8 * PushIndex(r)
      OBVIOUS
    <2> HIDE DEF address, value
    <2> QED BY <1>3, <2>1, <2>3, <2>4
  <1>12. value[0] = Bytes(<<"caller bp">>, 8)
    OBVIOUS
  <1>13. \A r \in frame.saved : value[r] = Bytes(<<"saved", r>>, 8)
    BY <1>6, <1>8
  <1>14. \A r, s \in pushed : r # s => address[r] + 8 <= address[s] \/ address[s] + 8 <= address[r]
    <2> SUFFICES ASSUME NEW r \in pushed, NEW s \in pushed, r # s
                 PROVE  address[r] + 8 <= address[s] \/ address[s] + 8 <= address[r]
      OBVIOUS
    <2>1. PushIndex(r) \in Nat /\ PushIndex(s) \in Nat /\ PushIndex(r) # PushIndex(s)
      BY <1>3, <1>9, <1>10
    <2>2. address[r] = SpArgs - 16 - 8 * PushIndex(r) /\ address[s] = SpArgs - 16 - 8 * PushIndex(s)
      BY <1>11
    <2> HIDE DEF address, value
    <2> QED BY <1>3, <2>1, <2>2
  <1> HIDE DEF address, value
  <1>15. KeepsFrom(mem, mem', SpArgs)
    <2>1. \A r \in DOMAIN address : /\ address[r] \in Int /\ Len(value[r]) \in Nat
                                    /\ address[r] + Len(value[r]) <= SpArgs
      <3> TAKE r \in DOMAIN address
      <3>1. address[r] \in Int /\ Len(value[r]) = 8 /\ address[r] + 8 <= SpArgs
        BY <1>9, <1>11
      <3> QED BY <3>1
    <2> QED BY <1>3, <1>7, <2>1, StoreAllBelow
  <1>16. CallerKept'
    <2>1. KeepsFrom(mem, mem', Top)
      BY <1>1, <1>15, PushBaseProps, KeepsHigher DEF Top
    <2> QED BY <2>1, CallerStaysKept DEF CallFrameInv
  <1>17. \A r \in pushed : \A tag : value[r] = Bytes(tag, 8) => Holds(mem', address[r], tag, 8)
    <2> SUFFICES ASSUME NEW r \in pushed, NEW tag, value[r] = Bytes(tag, 8)
                 PROVE  Holds(mem', address[r], tag, 8)
      OBVIOUS
    <2>1. r \in DOMAIN address /\ 8 \in Nat
      BY <1>9
    <2>2. \A s \in DOMAIN address : address[s] \in Int /\ Len(value[s]) \in Nat
      <3> TAKE s \in DOMAIN address
      <3>1. address[s] \in Int /\ Len(value[s]) = 8
        BY <1>9, <1>11
      <3> QED BY <3>1
    <2>3. \A s \in DOMAIN address : s # r =>
            address[r] + 8 <= address[s] \/ address[s] + Len(value[s]) <= address[r]
      BY <1>9, <1>11, <1>14
    <2> QED BY <1>7, <2>1, <2>2, <2>3, StoreAllHolds
  <1>18. PushedKept'
    <2>1. Holds(mem', address[0], <<"caller bp">>, 8) /\ address[0] = SpArgs - 16
      <3>1. 0 \in pushed /\ PushIndex(0) = 0
        BY <1>1, PushProps
      <3>2. address[0] = SpArgs - 16
        BY <1>3, <1>11, <3>1
      <3> QED BY <1>12, <1>17, <3>1, <3>2
    <2>2. ASSUME NEW r \in frame.saved
          PROVE  Holds(mem', SpArgs - 16 - 8 * PushIndex(r), <<"saved", r>>, 8)
      BY <1>11, <1>13, <1>17
    <2> QED BY <1>1, <1>2, <2>1, <2>2 DEF PushedKept
  <1>19. ArgsPlaced'
    <2>1. Args \in Nat
      BY <1>1, CallProps
    <2>2. Passed' = Passed /\ Passed = Args
      BY <1>1, <1>2 DEF Passed
    <2>3. Passed \in 0..Args
      BY <2>1, <2>2
    <2> QED BY <1>1, <1>15, <2>2, <2>3, ArgsStayPlaced DEF CallFrameInv, Prologue, Unmoved, Before
  <1>20. SaveAreaOK'
    BY <1>1, <1>2 DEF CallFrameInv, SaveAreaOK, Prologue
  <1>21. IndexOK'
    BY <1>1, <1>2, CallProps DEF IndexOK
  <1>22. GotOK'
    BY <1>1, ReadStaysRight DEF CallFrameInv, GotOK, Prologue, Before
  <1>23. VaListOK'
    BY <1>1 DEF VaListOK
  <1>24. MovesOK'
    <2>1. \A x \in 1..Args : Placed(x)
      BY <1>1 DEF CallFrameInv, ArgsPlaced, Passed
    <2>2. Unmoved
      BY <1>1 DEF Unmoved, Before
    <2> QED BY <1>1, <2>1, <2>2, ParamsUnmoved
  <1> QED
    BY <1>2, <1>5, <1>6, <1>16, <1>18, <1>19, <1>20, <1>21, <1>22, <1>23, <1>24 DEF CallFrameInv

(* Slots of w bytes, for values of up to 8, do not overlap. *)
LEMMA Slots ==
  ASSUME NEW b \in Int, NEW x \in Nat, NEW w \in {8, 16}, NEW len \in 0..8
  PROVE  /\ b + x * w \in Int
         /\ \A N \in Nat : x < N => b + x * w + len <= b + N * w
         /\ \A y \in Nat, size \in 0..8 :
              y # x => b + y * w + size <= b + x * w \/ b + x * w + len <= b + y * w
  <1>1. CASE w = 8
    BY <1>1
  <1>2. CASE w = 16
    BY <1>2
  <1> QED BY <1>1, <1>2

(* What is stored of a register is no longer than its slot. *)
LEMMA RegValueProps ==
  ASSUME ArgsPlaced, Unmoved, NEW r
  PROVE  Len(RegValue(r, 8)) \in 0..8
  <1>1. CASE r \in DOMAIN regs
    BY <1>1 DEF RegValue, ArgsPlaced
  <1>2. CASE r \notin DOMAIN regs
    <2>1. 8 \in Nat
      OBVIOUS
    <2>2. Len(Bytes(<<"junk">>, 8)) = 8
      BY <2>1, BytesProps
    <2>3. RegValue(r, 8) = Bytes(<<"junk">>, 8)
      BY <1>2 DEF RegValue
    <2> QED BY <2>2, <2>3
  <1> QED BY <1>1, <1>2

LEMMA SaveIntsProps ==
  ASSUME CallOK(call), FrameOK, ArgsPlaced, Unmoved, sp = SpBody, NEW m
  PROVE  /\ KeepsFrom(m, SaveInts(m), SpBody + IntRegs * 8)
         /\ \A x \in Used(call.fixed).ints..(IntRegs - 1) : \A tag :
              RegValue(<<"int", x>>, 8) = Bytes(tag, 8) => Holds(SaveInts(m), SpBody + x * 8, tag, 8)
  <1>1. SpBody \in Int /\ IntRegs \in Nat /\ CalleeSeq.ints = Used(call.fixed).ints
    BY Geometry, CallFrameAssumption, SidesAgree
  <1>2. Used(call.fixed).ints \in Nat
    <2>1. Used(call.fixed) \in Usage
      BY CallProps
    <2> QED BY <1>1, <2>1 DEF Usage
  <1> DEFINE unused == CalleeSeq.ints..(IntRegs - 1)
             address == [x \in unused |-> sp + x * 8]
             value == [x \in unused |-> RegValue(<<"int", x>>, 8)]
  <1>3. SaveInts(m) = StoreAll(m, address, value)
    BY DEF SaveInts
  <1>4. \A x \in unused : x \in Nat /\ x < IntRegs
    BY <1>1, <1>2
  <1>5. DOMAIN address = unused /\ unused = Used(call.fixed).ints..(IntRegs - 1)
    BY <1>1
  <1>6. \A x \in unused : address[x] = SpBody + x * 8 /\ value[x] = RegValue(<<"int", x>>, 8)
    OBVIOUS
  <1> HIDE DEF unused, address, value
  <1>7. \A x \in unused : address[x] \in Int /\ Len(value[x]) \in 0..8
    <2> TAKE x \in unused
    <2>1. Len(value[x]) \in 0..8
      BY <1>6, RegValueProps
    <2> QED BY <1>1, <1>4, <1>6, <2>1, Slots
  <1>8. KeepsFrom(m, SaveInts(m), SpBody + IntRegs * 8)
    <2>1. \A x \in DOMAIN address : /\ address[x] \in Int /\ Len(value[x]) \in Nat
                                    /\ address[x] + Len(value[x]) <= SpBody + IntRegs * 8
      <3> TAKE x \in DOMAIN address
      <3>1. x \in Nat /\ x < IntRegs /\ address[x] = SpBody + x * 8 /\ Len(value[x]) \in 0..8
        BY <1>4, <1>5, <1>6, <1>7
      <3>2. address[x] + Len(value[x]) <= SpBody + IntRegs * 8
        BY <1>1, <3>1, Slots
      <3> QED BY <1>5, <1>7, <3>1, <3>2
    <2>2. SpBody + IntRegs * 8 \in Int
      BY <1>1
    <2> QED BY <1>3, <2>1, <2>2, StoreAllBelow
  <1>9. ASSUME NEW x \in unused, NEW tag, RegValue(<<"int", x>>, 8) = Bytes(tag, 8)
        PROVE  Holds(SaveInts(m), SpBody + x * 8, tag, 8)
    <2>1. x \in DOMAIN address /\ value[x] = Bytes(tag, 8) /\ 8 \in Nat
      BY <1>5, <1>6, <1>9
    <2>2. \A y \in DOMAIN address : address[y] \in Int /\ Len(value[y]) \in Nat
      <3> TAKE y \in DOMAIN address
      <3>1. address[y] \in Int /\ Len(value[y]) \in 0..8
        BY <1>5, <1>7
      <3> QED BY <3>1
    <2>3. \A y \in DOMAIN address : y # x =>
            address[x] + 8 <= address[y] \/ address[y] + Len(value[y]) <= address[x]
      <3> SUFFICES ASSUME NEW y \in DOMAIN address, y # x
                   PROVE  address[x] + 8 <= address[y] \/ address[y] + Len(value[y]) <= address[x]
        OBVIOUS
      <3>1. /\ x \in Nat /\ y \in Nat /\ address[x] = SpBody + x * 8 /\ address[y] = SpBody + y * 8
            /\ Len(value[y]) \in 0..8
        BY <1>4, <1>5, <1>6, <1>7
      <3>2. 8 \in 0..8
        OBVIOUS
      <3> QED BY <1>1, <3>1, <3>2, Slots
    <2>4. Holds(StoreAll(m, address, value), address[x], tag, 8)
      BY <2>1, <2>2, <2>3, StoreAllHolds
    <2> QED BY <1>3, <1>6, <2>4
  <1> QED BY <1>5, <1>8, <1>9

LEMMA SaveFloatsProps ==
  ASSUME CallOK(call), FrameOK, ArgsPlaced, Unmoved, sp = SpBody, NEW m
  PROVE  /\ KeepsFrom(m, SaveFloats(m), SpBody + SaveAreaSize)
         /\ \A at \in Int : \A tag :
              at + 8 <= SpBody + IntRegs * 8 /\ Holds(m, at, tag, 8) => Holds(SaveFloats(m), at, tag, 8)
         /\ \A x \in Used(call.fixed).floats..(FloatRegs - 1), size \in 0..8 : \A tag :
              RegValue(<<"float", x>>, 8) = Bytes(tag, size) =>
                Holds(SaveFloats(m), SpBody + IntRegs * 8 + x * 16, tag, size)
  <1>1. /\ SpBody \in Int /\ IntRegs \in Nat /\ FloatRegs \in Nat
        /\ CalleeSeq.floats = Used(call.fixed).floats /\ SaveAreaSize = IntRegs * 8 + FloatRegs * 16
    BY Geometry, CallFrameAssumption, SidesAgree DEF SaveAreaSize
  <1>2. Used(call.fixed).floats \in Nat
    <2>1. Used(call.fixed) \in Usage
      BY CallProps
    <2> QED BY <1>1, <2>1 DEF Usage
  <1> DEFINE unused == CalleeSeq.floats..(FloatRegs - 1)
             address == [x \in unused |-> sp + IntRegs * 8 + x * 16]
             value == [x \in unused |-> RegValue(<<"float", x>>, 8)]
  <1>3. SaveFloats(m) = StoreAll(m, address, value)
    BY DEF SaveFloats
  <1>4. \A x \in unused : x \in Nat /\ x < FloatRegs
    BY <1>1, <1>2
  <1>5. DOMAIN address = unused /\ unused = Used(call.fixed).floats..(FloatRegs - 1)
    BY <1>1
  <1>6. \A x \in unused : /\ address[x] = SpBody + IntRegs * 8 + x * 16
                          /\ value[x] = RegValue(<<"float", x>>, 8)
    OBVIOUS
  <1> HIDE DEF unused, address, value
  <1>12. SpBody + IntRegs * 8 \in Int /\ SpBody + SaveAreaSize = SpBody + IntRegs * 8 + FloatRegs * 16
    BY <1>1
  <1>7. \A x \in unused : address[x] \in Int /\ Len(value[x]) \in 0..8
    <2> TAKE x \in unused
    <2>1. Len(value[x]) \in 0..8
      BY <1>6, RegValueProps
    <2> QED BY <1>1, <1>4, <1>6, <1>12, <2>1, Slots
  <1>8. KeepsFrom(m, SaveFloats(m), SpBody + SaveAreaSize)
    <2>1. \A x \in DOMAIN address : /\ address[x] \in Int /\ Len(value[x]) \in Nat
                                    /\ address[x] + Len(value[x]) <= SpBody + SaveAreaSize
      <3> TAKE x \in DOMAIN address
      <3>1. /\ x \in Nat /\ x < FloatRegs /\ address[x] = SpBody + IntRegs * 8 + x * 16
            /\ Len(value[x]) \in 0..8
        BY <1>4, <1>5, <1>6, <1>7
      <3>2. address[x] + Len(value[x]) <= SpBody + IntRegs * 8 + FloatRegs * 16
        BY <1>1, <1>12, <3>1, Slots
      <3> QED BY <1>5, <1>7, <1>12, <3>1, <3>2
    <2>2. SpBody + SaveAreaSize \in Int
      BY <1>1
    <2> QED BY <1>3, <2>1, <2>2, StoreAllBelow
  <1>9. \A y \in DOMAIN address : address[y] \in Int /\ Len(value[y]) \in Nat
    <2> TAKE y \in DOMAIN address
    <2>1. address[y] \in Int /\ Len(value[y]) \in 0..8
      BY <1>5, <1>7
    <2> QED BY <2>1
  <1>10. ASSUME NEW at \in Int, NEW tag, at + 8 <= SpBody + IntRegs * 8, Holds(m, at, tag, 8)
         PROVE  Holds(SaveFloats(m), at, tag, 8)
    <2>1. \A y \in DOMAIN address : at + 8 <= address[y]
      <3> TAKE y \in DOMAIN address
      <3>1. y \in Nat /\ address[y] = SpBody + IntRegs * 8 + y * 16
        BY <1>4, <1>5, <1>6
      <3> QED BY <1>1, <1>10, <3>1
    <2>2. 8 \in Nat
      OBVIOUS
    <2> QED BY <1>3, <1>9, <1>10, <2>1, <2>2, StoreAllKeeps
  <1>11. ASSUME NEW x \in unused, NEW size \in 0..8, NEW tag,
                RegValue(<<"float", x>>, 8) = Bytes(tag, size)
         PROVE  Holds(SaveFloats(m), SpBody + IntRegs * 8 + x * 16, tag, size)
    <2>1. x \in DOMAIN address /\ value[x] = Bytes(tag, size) /\ size \in Nat
      BY <1>5, <1>6, <1>11
    <2>3. \A y \in DOMAIN address : y # x =>
            address[x] + size <= address[y] \/ address[y] + Len(value[y]) <= address[x]
      <3> SUFFICES ASSUME NEW y \in DOMAIN address, y # x
                   PROVE  address[x] + size <= address[y] \/ address[y] + Len(value[y]) <= address[x]
        OBVIOUS
      <3>1. /\ x \in Nat /\ y \in Nat /\ address[x] = SpBody + IntRegs * 8 + x * 16
            /\ address[y] = SpBody + IntRegs * 8 + y * 16 /\ Len(value[y]) \in 0..8
        BY <1>4, <1>5, <1>6, <1>7
      <3> QED BY <1>12, <3>1, Slots
    <2>4. Holds(StoreAll(m, address, value), address[x], tag, size)
      BY <1>9, <2>1, <2>3, StoreAllHolds
    <2> QED BY <1>3, <1>6, <2>4
  <1> QED BY <1>5, <1>8, <1>10, <1>11

(* al = 0 only if no argument is in a vector register. *)
LEMMA NoFloats ==
  ASSUME CallOK(call), FloatsInRegs = 0, NEW x \in 1..Args
  PROVE  ~ToFloatReg(x)
  <1> SUFFICES ASSUME ToFloatReg(x) PROVE FALSE
    OBVIOUS
  <1> DEFINE F == {y \in 1..Len(call.types) :
                     call.types[y].kind = "float" /\ CallerSeq.classes[y].t = "reg"}
  <1>1. x \in F
    <2>1. CallerSeq.classes[x] = ArgClass(x) /\ ArgClass(x).t = "reg"
      BY SidesAgree, FloatRegProps DEF ByReg
    <2> QED BY <2>1 DEF Args, ToFloatReg
  <1>2. F \in SUBSET (1..Args) /\ Args \in Nat
    BY CallProps DEF Args
  <1>3. Cardinality(F) = 0
    BY DEF FloatsInRegs
  <1> HIDE DEF F
  <1>4. IsFiniteSet(1..Args)
    <2>1. 1 \in Int /\ Args \in Int
      BY <1>2
    <2> QED BY <2>1, FS_Interval
  <1>5. IsFiniteSet(F)
    BY <1>2, <1>4, FS_Subset
  <1> QED BY <1>1, <1>3, <1>5, FS_EmptySet

(* An argument after the parameters goes to a register they left unused. *)
LEMMA VarArgRegs ==
  ASSUME CallOK(call), NEW x \in 1..Args, x > call.fixed
  PROVE  /\ ToIntReg(x) => Used(x - 1).ints \in Used(call.fixed).ints..(IntRegs - 1)
         /\ ToFloatReg(x) => Used(x - 1).floats \in Used(call.fixed).floats..(FloatRegs - 1)
         /\ call.types[x].kind # "struct"
  <1>1. call.fixed \in 0..Args /\ x - 1 \in 0..Args /\ call.fixed <= x - 1
    BY CallProps
  <1>2. /\ Used(call.fixed).ints <= Used(x - 1).ints
        /\ Used(call.fixed).floats <= Used(x - 1).floats
    BY <1>1, UsedOrder
  <1>3. IntRegs \in Nat /\ FloatRegs \in Nat
    BY CallFrameAssumption
  <1>4. Used(call.fixed) \in Usage /\ Used(x - 1) \in Usage
    BY <1>1, CallProps
  <1>5. /\ Used(call.fixed).ints \in Int /\ Used(call.fixed).floats \in Int
        /\ Used(x - 1).ints \in Int /\ Used(x - 1).floats \in Int
    BY <1>3, <1>4 DEF Usage
  <1>6. ToIntReg(x) => Used(x - 1).ints \in Used(call.fixed).ints..(IntRegs - 1)
    BY <1>2, <1>3, <1>5 DEF ToIntReg
  <1>7. ToFloatReg(x) => Used(x - 1).floats \in Used(call.fixed).floats..(FloatRegs - 1)
    BY <1>2, <1>3, <1>5 DEF ToFloatReg
  <1>8. call.types[x].kind # "struct"
    BY DEF CallOK, Args
  <1> QED BY <1>6, <1>7, <1>8

LEMMA SaveRegistersSound ==
  ASSUME CallFrameInv, SaveRegisters
  PROVE  CallFrameInv'
  <1>1. /\ CallOK(call) /\ FrameOK /\ call' = call /\ frame' = frame /\ regs' = regs
        /\ step = "save" /\ step' = "moves" /\ call.variadic /\ ArgsPlaced
        /\ n' = 1 /\ Unmoved
    BY DEF CallFrameInv, SaveRegisters, IndexOK, Unmoved
  <1>2. /\ CallOK(call)' /\ FrameOK' /\ SpArgs' = SpArgs /\ Args' = Args /\ SpBody' = SpBody
        /\ \A x : Used(x)' = Used(x)
        /\ \A x : (ToIntReg(x)' <=> ToIntReg(x)) /\ (ToFloatReg(x)' <=> ToFloatReg(x))
    BY <1>1, CallFixed
  <1>3. sp = SpBody /\ bp = SpArgs - 16
    BY <1>1 DEF CallFrameInv, PointersOK, InCallee
  <1>4. PointersOK'
    BY <1>1, <1>2, <1>3 DEF PointersOK, SaveRegisters, Before, InCallee, After
  <1>5. SavesOK'
    BY <1>1 DEF CallFrameInv, SavesOK, SaveRegisters
  <1>6. PICK m : m = SaveInts(mem)
    OBVIOUS
  <1>7. mem' = IF al = 0 THEN m ELSE SaveFloats(m)
    BY <1>6 DEF SaveRegisters
  <1>8. /\ SpBody \in Int /\ IntRegs \in Nat /\ FloatRegs \in Nat /\ SpArgs \in Int
        /\ SaveAreaSize = IntRegs * 8 + FloatRegs * 16 /\ PushBase \in Int
        /\ SpBody + SaveAreaSize <= PushBase
    <2>1. /\ SpBody \in Int /\ LocalUsage \in Nat /\ StackAdjustment \in Nat
          /\ LocalUsage <= StackAdjustment /\ SpArgs \in Int
      BY <1>1, Geometry
    <2>2. SaveAreaSize <= LocalUsage /\ SaveAreaSize = IntRegs * 8 + FloatRegs * 16
      BY <1>1, CallFrameAssumption DEF LocalUsage, FrameOK, SaveAreaSize
    <2>3. PushBase \in Int /\ PushBase = SpBody + StackAdjustment
      BY <1>1, PushBaseProps
    <2> QED BY <2>1, <2>2, <2>3, CallFrameAssumption
  <1>9. KeepsFrom(mem, mem', PushBase)
    <2>1. KeepsFrom(mem, m, SpBody + IntRegs * 8)
      BY <1>1, <1>3, <1>6, SaveIntsProps
    <2>2. KeepsFrom(mem, m, PushBase)
      <3>1. SpBody + IntRegs * 8 \in Int /\ SpBody + IntRegs * 8 <= PushBase
        BY <1>8
      <3> QED BY <1>8, <2>1, <3>1, KeepsHigher
    <2>3. KeepsFrom(m, SaveFloats(m), SpBody + SaveAreaSize)
      BY <1>1, <1>3, SaveFloatsProps
    <2>4. KeepsFrom(m, SaveFloats(m), PushBase)
      <3>1. SpBody + SaveAreaSize \in Int
        BY <1>8
      <3> QED BY <1>8, <2>3, <3>1, KeepsHigher
    <2>5. KeepsFrom(mem, SaveFloats(m), PushBase)
      BY <2>2, <2>4 DEF KeepsFrom
    <2> QED BY <1>7, <2>2, <2>5
  <1>10. KeepsFrom(mem, mem', SpArgs) /\ KeepsFrom(mem, mem', Top)
    BY <1>1, <1>8, <1>9, PushBaseProps, KeepsHigher DEF Top
  <1>11. CallerKept'
    BY <1>10, CallerStaysKept DEF CallFrameInv
  <1>12. PushedKept'
    BY <1>1, <1>9, PushedStayKept DEF CallFrameInv, InCallee
  <1>13. ArgsPlaced' /\ Passed = Args
    <2>1. Args \in Nat
      BY <1>1, CallProps
    <2>2. Passed' = Passed /\ Passed = Args
      BY <1>1, <1>2 DEF Passed
    <2>3. Passed \in 0..Args
      BY <2>1, <2>2
    <2> QED BY <1>1, <1>10, <2>2, <2>3, ArgsStayPlaced DEF Unmoved, Before
  <1>14. ASSUME NEW x \in 1..Args, x > call.fixed
         PROVE  Kept(x)'
    <2>1. Placed(x)
      BY <1>1, <1>13 DEF ArgsPlaced
    <2>2. ASSUME ToIntReg(x)
          PROVE  Holds(mem', SpBody + Used(x - 1).ints * 8, <<"arg", x>>, call.types[x].size)
      <3>1. PICK i : i = Used(x - 1).ints
        OBVIOUS
      <3>2. i \in Used(call.fixed).ints..(IntRegs - 1)
        BY <1>1, <1>14, <2>2, <3>1, VarArgRegs
      <3>3. i \in Nat /\ i < IntRegs /\ call.types[x].size = 8
        BY <1>1, <2>2, <3>1, ArgProps DEF ToIntReg
      <3>4. RegValue(<<"int", i>>, 8) = Bytes(<<"arg", x>>, 8)
        BY <1>1, <2>1, <2>2, <3>1, <3>3 DEF Placed, RegHolds, RegValue
      <3>5. Holds(m, SpBody + i * 8, <<"arg", x>>, 8)
        BY <1>1, <1>3, <1>6, <3>2, <3>4, SaveIntsProps
      <3>6. PICK a \in Int : a = SpBody + i * 8
        BY <1>8, <3>3
      <3>7. a + 8 <= SpBody + IntRegs * 8
        BY <1>8, <3>3, <3>6
      <3>8. Holds(SaveFloats(m), a, <<"arg", x>>, 8)
        BY <1>1, <1>3, <3>5, <3>6, <3>7, SaveFloatsProps
      <3>9. Holds(mem', a, <<"arg", x>>, 8)
        BY <1>7, <3>5, <3>6, <3>8
      <3> QED BY <3>1, <3>3, <3>6, <3>9
    <2>3. ASSUME ToFloatReg(x)
          PROVE  Holds(mem', SpBody + IntRegs * 8 + Used(x - 1).floats * 16, <<"arg", x>>,
                       call.types[x].size)
      <3>1. PICK i : i = Used(x - 1).floats
        OBVIOUS
      <3>2. i \in Used(call.fixed).floats..(FloatRegs - 1)
        BY <1>1, <1>14, <2>3, <3>1, VarArgRegs
      <3>3. call.types[x].size \in 0..8
        BY <1>1, <2>3, ArgProps DEF ToFloatReg
      <3>4. RegValue(<<"float", i>>, 8) = Bytes(<<"arg", x>>, call.types[x].size)
        BY <1>1, <2>1, <2>3, <3>1 DEF Placed, RegHolds, RegValue
      <3>5. al # 0
        BY <1>1, <2>3, NoFloats DEF CallFrameInv, SaveAreaOK
      <3>6. Holds(SaveFloats(m), SpBody + IntRegs * 8 + i * 16, <<"arg", x>>, call.types[x].size)
        BY <1>1, <1>3, <3>2, <3>3, <3>4, SaveFloatsProps
      <3> QED BY <1>7, <3>1, <3>5, <3>6
    <2> QED BY <1>1, <1>2, <2>2, <2>3 DEF Kept
  <1>15. SaveAreaOK'
    BY <1>1, <1>2, <1>14 DEF SaveAreaOK
  <1>16. IndexOK'
    BY <1>1, <1>2, CallProps DEF IndexOK
  <1>17. GotOK'
    BY <1>1, ReadStaysRight DEF CallFrameInv, GotOK, SaveRegisters, Before
  <1>18. VaListOK'
    BY <1>1 DEF VaListOK
  <1>19. MovesOK'
    <2>1. \A x \in 1..Args : Placed(x)
      BY <1>1, <1>13 DEF ArgsPlaced
    <2> QED BY <1>1, <2>1, ParamsUnmoved
  <1> QED
    BY <1>2, <1>4, <1>5, <1>11, <1>12, <1>13, <1>15, <1>16, <1>17, <1>18, <1>19 DEF CallFrameInv

(* Where a parameter in a register is moved to. *)
LEMMA HomeProps ==
  ASSUME CallOK(call), NEW x \in 1..Args
  PROVE  /\ ToIntReg(x) =>
              /\ ArgClass(x).t = "reg" /\ ArgClass(x).reg = <<"int", Used(x - 1).ints>>
              /\ ArgClass(x).reg # LastFloat
              /\ Home(ArgClass(x).reg) = <<"home", <<"int", Used(x - 1).ints>>>>
              /\ Moved(x) => Home(ArgClass(x).reg) = IntPlace(x)
         /\ ToFloatReg(x) =>
              /\ ArgClass(x).t = "reg" /\ ArgClass(x).reg = <<"float", Used(x - 1).floats>>
              /\ \/ Home(ArgClass(x).reg) = <<"home", <<"float", FloatRegs - 1>>>>
                 \/ Home(ArgClass(x).reg) = <<"float", FloatRegs - 2 - Used(x - 1).floats>>
         /\ LowFloat(x) =>
              /\ ArgClass(x).reg # LastFloat
              /\ Home(ArgClass(x).reg) = <<"float", FloatRegs - 2 - Used(x - 1).floats>>
              /\ Moved(x) => Home(ArgClass(x).reg) = FloatPlace(x)
  <1>1. ASSUME ToIntReg(x)
        PROVE  /\ ArgClass(x).t = "reg" /\ ArgClass(x).reg = <<"int", Used(x - 1).ints>>
               /\ ArgClass(x).reg # LastFloat
               /\ Home(ArgClass(x).reg) = <<"home", <<"int", Used(x - 1).ints>>>>
               /\ Moved(x) => Home(ArgClass(x).reg) = IntPlace(x)
    <2>1. ArgClass(x).t = "reg" /\ ArgClass(x).reg = <<"int", Used(x - 1).ints>>
      BY <1>1, IntRegProps DEF ByReg
    <2> QED BY <2>1 DEF Home, LastFloat, IntPlace
  <1>2. ASSUME ToFloatReg(x)
        PROVE  /\ ArgClass(x).t = "reg" /\ ArgClass(x).reg = <<"float", Used(x - 1).floats>>
               /\ \/ Home(ArgClass(x).reg) = <<"home", <<"float", FloatRegs - 1>>>>
                  \/ Home(ArgClass(x).reg) = <<"float", FloatRegs - 2 - Used(x - 1).floats>>
    <2>1. ArgClass(x).t = "reg" /\ ArgClass(x).reg = <<"float", Used(x - 1).floats>>
      BY <1>2, FloatRegProps DEF ByReg
    <2> QED BY <2>1 DEF Home, LastFloat
  <1>3. ASSUME LowFloat(x)
        PROVE  /\ ArgClass(x).reg # LastFloat
               /\ Home(ArgClass(x).reg) = <<"float", FloatRegs - 2 - Used(x - 1).floats>>
               /\ Moved(x) => Home(ArgClass(x).reg) = FloatPlace(x)
    <2>1. ArgClass(x).reg = <<"float", Used(x - 1).floats>>
      BY <1>2, <1>3 DEF LowFloat
    <2>2. Used(x - 1).floats # FloatRegs - 1
      <3>1. Used(x - 1).floats \in Nat /\ FloatRegs \in Nat
        BY ArgProps, CallFrameAssumption
      <3> QED BY <1>3, <3>1 DEF LowFloat
    <2> QED BY <2>1, <2>2 DEF Home, LastFloat, FloatPlace
  <1> QED BY <1>1, <1>2, <1>3

(* Two parameters of a kind are in different registers, in order. *)
LEMMA RegOrder ==
  ASSUME CallOK(call), NEW x \in 1..Args, NEW y \in 1..Args, x < y
  PROVE  /\ ToIntReg(x) => Used(x - 1).ints < Used(y - 1).ints
         /\ ToFloatReg(x) => Used(x - 1).floats < Used(y - 1).floats
  <1>1. x \in 0..Args /\ y - 1 \in 0..Args /\ x <= y - 1
    BY CallProps
  <1>2. Used(x).ints <= Used(y - 1).ints /\ Used(x).floats <= Used(y - 1).floats
    BY <1>1, UsedOrder
  <1>3. /\ Used(x - 1).ints \in Int /\ Used(x).ints \in Int /\ Used(y - 1).ints \in Int
        /\ Used(x - 1).floats \in Int /\ Used(x).floats \in Int /\ Used(y - 1).floats \in Int
    BY ArgProps
  <1>4. ASSUME ToIntReg(x) PROVE Used(x - 1).ints < Used(y - 1).ints
    <2>1. Used(x).ints = Used(x - 1).ints + 1
      BY <1>4, IntRegProps
    <2> QED BY <1>2, <1>3, <2>1
  <1>5. ASSUME ToFloatReg(x) PROVE Used(x - 1).floats < Used(y - 1).floats
    <2>1. Used(x).floats = Used(x - 1).floats + 1
      BY <1>5, FloatRegProps
    <2> QED BY <1>2, <1>3, <2>1
  <1> QED BY <1>4, <1>5

(* The MOV of parameter k leaves the other parameters that matter alone:   *)
(* no later float of the lower half is in the register it writes.          *)
LEMMA MovesApart ==
  ASSUME CallOK(call), NEW k \in 1..Args, NEW x \in 1..Args, x # k, n = k, step = "moves",
         ToIntReg(k) \/ ToFloatReg(k)
  PROVE  /\ ToIntReg(x) => IntPlace(x) # Home(ArgClass(k).reg)
         /\ LowFloat(x) => FloatPlace(x) # Home(ArgClass(k).reg)
  <1>1. PICK i, j, f, g : /\ i = Used(x - 1).ints /\ j = Used(k - 1).ints
                          /\ f = Used(x - 1).floats /\ g = Used(k - 1).floats
    OBVIOUS
  <1>2. i \in Int /\ j \in Int /\ f \in Int /\ g \in Int /\ FloatRegs \in Nat
    BY <1>1, ArgProps, CallFrameAssumption
  <1>3. x < k \/ k < x
    OBVIOUS
  <1>4. ToIntReg(x) /\ ToIntReg(k) => i # j
    BY <1>1, <1>2, <1>3, RegOrder
  <1>5. /\ ToFloatReg(x) /\ ToFloatReg(k) => f # g
        /\ ToFloatReg(k) /\ k < x => g < f
    BY <1>1, <1>2, <1>3, RegOrder
  <1>6. Moved(x) <=> x < k
    BY DEF Moved
  <1>7. ASSUME ToIntReg(x) PROVE IntPlace(x) # Home(ArgClass(k).reg)
    <2>1. IntPlace(x) = <<"home", <<"int", i>>>> \/ IntPlace(x) = <<"int", i>>
      BY <1>1 DEF IntPlace
    <2>2. CASE ToIntReg(k)
      <3>1. Home(ArgClass(k).reg) = <<"home", <<"int", j>>>>
        BY <1>1, <2>2, HomeProps
      <3> QED BY <1>4, <1>7, <2>1, <2>2, <3>1
    <2>3. CASE ToFloatReg(k)
      <3>1. \/ Home(ArgClass(k).reg) = <<"home", <<"float", FloatRegs - 1>>>>
            \/ Home(ArgClass(k).reg) = <<"float", FloatRegs - 2 - g>>
        BY <1>1, <2>3, HomeProps
      <3> QED BY <2>1, <3>1
    <2> QED BY <2>2, <2>3
  <1>8. ASSUME LowFloat(x) PROVE FloatPlace(x) # Home(ArgClass(k).reg)
    <2>1. /\ FloatPlace(x) = IF x < k THEN <<"float", FloatRegs - 2 - f>> ELSE <<"float", f>>
          /\ ToFloatReg(x) /\ 2 * f < FloatRegs - 1
      BY <1>1, <1>6, <1>8 DEF FloatPlace, LowFloat
    <2>2. CASE ToIntReg(k)
      <3>1. Home(ArgClass(k).reg) = <<"home", <<"int", j>>>>
        BY <1>1, <2>2, HomeProps
      <3> QED BY <2>1, <3>1
    <2>3. CASE ToFloatReg(k)
      <3>1. \/ Home(ArgClass(k).reg) = <<"home", <<"float", FloatRegs - 1>>>>
            \/ Home(ArgClass(k).reg) = <<"float", FloatRegs - 2 - g>>
        BY <1>1, <2>3, HomeProps
      <3>2. CASE x < k
        <4>1. FloatRegs - 2 - f # FloatRegs - 2 - g
          BY <1>2, <1>5, <2>1, <2>3
        <4> QED BY <2>1, <3>1, <3>2, <4>1
      <3>3. CASE k < x
        <4>1. f # FloatRegs - 2 - g
          BY <1>2, <1>5, <2>1, <2>3, <3>3
        <4>2. ~(x < k)
          BY <3>3
        <4> QED BY <2>1, <3>1, <4>1, <4>2
      <3> QED BY <1>3, <3>2, <3>3
    <2> QED BY <2>2, <2>3
  <1> QED BY <1>7, <1>8

LEMMA MoveParamSound ==
  ASSUME CallFrameInv, MoveParam
  PROVE  CallFrameInv'
  <1>1. /\ CallOK(call) /\ FrameOK /\ call' = call /\ frame' = frame /\ mem' = mem
        /\ step = "moves" /\ step' = "moves" /\ n <= call.fixed /\ n' = n + 1 /\ got' = got
        /\ sp' = sp /\ bp' = bp /\ saves' = saves
    BY DEF CallFrameInv, MoveParam
  <1>2. /\ CallOK(call)' /\ FrameOK' /\ SpArgs' = SpArgs /\ Args' = Args /\ SpBody' = SpBody
        /\ \A x : Used(x)' = Used(x) /\ Used(x - 1)' = Used(x - 1)
        /\ \A x : /\ (Dropped(x)' <=> Dropped(x)) /\ (ToStack(x)' <=> ToStack(x))
                  /\ (ToIntReg(x)' <=> ToIntReg(x)) /\ (ToFloatReg(x)' <=> ToFloatReg(x))
                  /\ (LowFloat(x)' <=> LowFloat(x))
    BY <1>1, CallFixed
  <1>3. PICK k : k = n
    OBVIOUS
  <1>4. /\ Args \in Nat /\ call.fixed \in 0..Args /\ k \in 1..Args /\ k \in 1..call.fixed
        /\ \A x \in 1..call.fixed : x \in 1..Args
    <2>1. Args \in Nat /\ call.fixed \in 0..Args /\ n \in Nat \ {0}
      BY <1>1, CallProps DEF CallFrameInv, IndexOK
    <2> QED BY <1>1, <1>3, <2>1
  <1>5. PointersOK'
    BY <1>1, <1>2 DEF CallFrameInv, PointersOK, Before, InCallee, After
  <1>6. SavesOK' /\ CallerKept'
    BY <1>1 DEF CallFrameInv, SavesOK, CallerKept
  <1>7. PushedKept'
    <2>1. KeepsFrom(mem, mem', PushBase)
      BY <1>1, NothingStored
    <2> QED BY <1>1, <2>1, PushedStayKept DEF CallFrameInv, InCallee
  <1>8. ArgsPlaced'
    <2>1. Passed' = Passed /\ ~Unmoved'
      BY <1>1, <1>2 DEF Passed, Unmoved, Before
    <2>2. \A x : Placed(x) => Placed(x)'
      BY <1>1, <1>2, <2>1 DEF Placed
    <2> QED BY <2>1, <2>2 DEF CallFrameInv, ArgsPlaced
  <1>9. SaveAreaOK'
    <2>1. \A x : Kept(x)' <=> Kept(x)
      BY <1>1, <1>2 DEF Kept
    <2> QED BY <1>1, <1>2, <2>1 DEF CallFrameInv, SaveAreaOK
  <1>10. PICK class : class = ArgClass(k)
    OBVIOUS
  <1>11. CalleeSeq.classes[n] = class
    BY <1>1, <1>3, <1>4, <1>10, SidesAgree
  <1>12. regs' = IF class.t = "reg" THEN Over(regs, [r \in {Home(class.reg)} |-> MovedValue(class.reg)])
                 ELSE regs
    BY <1>11 DEF MoveParam
  <1>13. \A x \in 1..call.fixed : ParamKept(x)
    BY <1>1 DEF CallFrameInv, MovesOK
  <1>14. ASSUME NEW x \in 1..call.fixed PROVE ParamKept(x)'
    <2>1. x \in Int /\ k \in Int /\ x \in 1..Args
      BY <1>4
    <2>2. CASE x # k
      <3>1. Moved(x)' <=> Moved(x)
        BY <1>1, <1>3, <2>1, <2>2 DEF Moved
      <3>2. IntPlace(x)' = IntPlace(x) /\ FloatPlace(x)' = FloatPlace(x)
        BY <1>2, <3>1 DEF IntPlace, FloatPlace
      <3>3. ASSUME NEW p, RegHolds(p, x), class.t = "reg" => p # Home(class.reg)
            PROVE  RegHolds(p, x)'
        <4>1. CASE class.t = "reg"
          <5>1. p \in DOMAIN regs' /\ regs'[p] = regs[p]
            BY <1>12, <3>3, <4>1, OverProps DEF RegHolds
          <5> QED BY <1>1, <3>3, <5>1 DEF RegHolds
        <4>2. CASE class.t # "reg"
          BY <1>1, <1>12, <3>3, <4>2 DEF RegHolds
        <4> QED BY <4>1, <4>2
      <3>4. class.t = "reg" => ToIntReg(k) \/ ToFloatReg(k)
        <4>1. ToStack(k) => ArgClass(k).t # "reg"
          BY <1>1, <1>4, StackProps
        <4>2. ~Dropped(k)
          BY <1>1, <1>4 DEF CallFrameInv, ArgsPlaced, Placed, Passed
        <4> QED BY <1>1, <1>4, <1>10, <4>1, <4>2, ArgProps
      <3>5. /\ class.t = "reg" /\ ToIntReg(x) => IntPlace(x) # Home(class.reg)
            /\ class.t = "reg" /\ LowFloat(x) => FloatPlace(x) # Home(class.reg)
        BY <1>1, <1>3, <1>4, <1>10, <2>1, <2>2, <3>4, MovesApart
      <3>6. ToIntReg(x) => RegHolds(IntPlace(x), x)'
        BY <1>13, <3>2, <3>3, <3>5 DEF ParamKept
      <3>7. LowFloat(x) => RegHolds(FloatPlace(x), x)'
        BY <1>13, <3>2, <3>3, <3>5 DEF ParamKept
      <3> QED BY <1>2, <3>6, <3>7 DEF ParamKept
    <2>3. CASE x = k
      <3>1. Moved(x)' /\ ~Moved(x)
        BY <1>1, <1>3, <2>1, <2>3 DEF Moved
      <3>2. /\ IntPlace(x)' = <<"home", <<"int", Used(x - 1).ints>>>>
            /\ FloatPlace(x)' = <<"float", FloatRegs - 2 - Used(x - 1).floats>>
            /\ IntPlace(x) = <<"int", Used(x - 1).ints>>
            /\ FloatPlace(x) = <<"float", Used(x - 1).floats>>
        BY <1>2, <3>1 DEF IntPlace, FloatPlace
      <3>3. ASSUME NEW p, class.t = "reg", class.reg # LastFloat, Home(class.reg) = p,
                   RegHolds(class.reg, x)
            PROVE  RegHolds(p, x)'
        <4>1. MovedValue(class.reg) = Bytes(<<"arg", x>>, call.types[x].size)
          BY <3>3 DEF MovedValue, RegHolds
        <4>2. PICK v : v = MovedValue(class.reg)
          OBVIOUS
        <4>3. regs' = Over(regs, [r \in {p} |-> v])
          BY <1>12, <3>3, <4>2
        <4>4. p \in DOMAIN regs' /\ regs'[p] = v
          BY <4>3, OverProps
        <4> QED BY <1>1, <4>1, <4>2, <4>4 DEF RegHolds
      <3>4. ASSUME ToIntReg(x) PROVE RegHolds(IntPlace(x), x)'
        <4>1. RegHolds(class.reg, x)
          BY <1>1, <1>4, <1>10, <1>13, <2>3, <3>2, <3>4, HomeProps DEF ParamKept
        <4>2. RegHolds(<<"home", <<"int", Used(x - 1).ints>>>>, x)'
          <5>1. PICK p : p = <<"home", <<"int", Used(x - 1).ints>>>>
            OBVIOUS
          <5>2. RegHolds(p, x)'
            BY <1>1, <1>4, <1>10, <2>3, <3>3, <3>4, <4>1, <5>1, HomeProps
          <5> QED BY <1>2, <5>1, <5>2 DEF RegHolds
        <4> QED BY <1>2, <3>2, <4>2 DEF RegHolds
      <3>5. ASSUME LowFloat(x) PROVE RegHolds(FloatPlace(x), x)'
        <4>1. RegHolds(class.reg, x)
          BY <1>1, <1>4, <1>10, <1>13, <2>3, <3>2, <3>5, HomeProps DEF ParamKept, LowFloat
        <4>2. RegHolds(<<"float", FloatRegs - 2 - Used(x - 1).floats>>, x)'
          <5>1. PICK p : p = <<"float", FloatRegs - 2 - Used(x - 1).floats>>
            OBVIOUS
          <5>2. RegHolds(p, x)'
            BY <1>1, <1>4, <1>10, <2>3, <3>3, <3>5, <4>1, <5>1, HomeProps DEF LowFloat
          <5> QED BY <1>2, <5>1, <5>2 DEF RegHolds
        <4> QED BY <1>2, <3>2, <4>2 DEF RegHolds
      <3> QED BY <1>2, <3>4, <3>5 DEF ParamKept
    <2> QED BY <2>2, <2>3
  <1>15. MovesOK'
    BY <1>1, <1>14 DEF MovesOK
  <1>16. IndexOK'
    BY <1>1, <1>2, <1>3, <1>4 DEF IndexOK
  <1>17. GotOK'
    BY <1>1, ReadStaysRight DEF CallFrameInv, GotOK, Before
  <1>18. VaListOK'
    BY <1>1 DEF VaListOK
  <1> QED
    BY <1>2, <1>5, <1>6, <1>7, <1>8, <1>9, <1>15, <1>16, <1>17, <1>18 DEF CallFrameInv

LEMMA UseFrameSound ==
  ASSUME CallFrameInv, UseFrame
  PROVE  CallFrameInv'
  <1>1. /\ CallOK(call) /\ FrameOK /\ call' = call /\ frame' = frame /\ regs' = regs
        /\ step = "moves" /\ step' = "params" /\ n' = 1 /\ n > call.fixed
    BY DEF CallFrameInv, UseFrame
  <1>2. /\ CallOK(call)' /\ FrameOK' /\ SpArgs' = SpArgs /\ Args' = Args /\ SpBody' = SpBody
        /\ \A x : Used(x)' = Used(x)
        /\ \A x : (ToIntReg(x)' <=> ToIntReg(x)) /\ (ToFloatReg(x)' <=> ToFloatReg(x))
    BY <1>1, CallFixed
  <1>3. sp = SpBody /\ bp = SpArgs - 16
    BY <1>1 DEF CallFrameInv, PointersOK, InCallee
  <1>4. PointersOK'
    BY <1>1, <1>2, <1>3 DEF PointersOK, UseFrame, Before, InCallee, After
  <1>5. SavesOK'
    <2>1. \A r \in 1..5 : saves[r] = Bytes(<<"saved", r>>, 8)
      BY <1>1 DEF CallFrameInv, SavesOK
    <2>2. saves' = [r \in 1..5 |-> IF r \in frame.saved THEN Bytes(<<"junk">>, 8) ELSE saves[r]]
      BY DEF UseFrame
    <2> QED BY <1>1, <2>1, <2>2 DEF SavesOK
  <1> DEFINE locals == [b \in 1..frame.locals |-> Junk]
  <1>6. mem' = StoreAt(mem, LocalsAt, locals)
    BY DEF UseFrame
  <1>7. Len(locals) = frame.locals /\ frame.locals \in Nat
    <2>1. frame.locals \in Nat
      BY <1>1 DEF FrameOK
    <2>2. locals \in Seq({Junk}) /\ DOMAIN locals = 1..frame.locals
      BY <2>1
    <2> HIDE DEF locals
    <2> QED BY <2>1, <2>2
  <1> HIDE DEF locals
  <1>8. /\ SpBody \in Int /\ SaveAreaSize \in Nat /\ PushBase \in Int /\ SpArgs \in Int
        /\ LocalsAt \in Int /\ LocalsAt + frame.locals <= PushBase
        /\ (call.variadic => LocalsAt = SpBody + SaveAreaSize)
    <2>1. /\ SpBody \in Int /\ LocalUsage \in Nat /\ StackAdjustment \in Nat
          /\ LocalUsage <= StackAdjustment /\ SpArgs \in Int
      BY <1>1, Geometry
    <2>2. SaveAreaSize \in Nat
      BY CallFrameAssumption DEF SaveAreaSize
    <2>3. PushBase \in Int /\ PushBase = SpBody + StackAdjustment
      BY <1>1, PushBaseProps
    <2>4. LocalsAt \in Int /\ LocalsAt + frame.locals = SpBody + LocalUsage
      BY <1>3, <1>7, <2>1, <2>2 DEF LocalsAt, LocalUsage
    <2>5. call.variadic => LocalsAt = SpBody + SaveAreaSize
      BY <1>3 DEF LocalsAt
    <2> QED BY <2>1, <2>2, <2>3, <2>4, <2>5
  <1>9. KeepsFrom(mem, mem', PushBase)
    BY <1>6, <1>7, <1>8, StoreBelow
  <1>10. KeepsFrom(mem, mem', SpArgs) /\ KeepsFrom(mem, mem', Top)
    BY <1>1, <1>8, <1>9, PushBaseProps, KeepsHigher DEF Top
  <1>11. CallerKept'
    BY <1>10, CallerStaysKept DEF CallFrameInv
  <1>12. PushedKept'
    BY <1>1, <1>9, PushedStayKept DEF CallFrameInv, InCallee
  <1>13. ArgsPlaced'
    <2>1. Args \in Nat
      BY <1>1, CallProps
    <2>2. Passed' = Passed /\ Passed = Args
      BY <1>1, <1>2 DEF Passed
    <2>3. Passed \in 0..Args
      BY <2>1, <2>2
    <2> QED BY <1>1, <1>10, <2>2, <2>3, ArgsStayPlaced DEF CallFrameInv, Unmoved, Before
  <1>14. ASSUME NEW x \in 1..Args, x > call.fixed, call.variadic
         PROVE  Kept(x)'
    <2>1. Kept(x)
      BY <1>1, <1>14 DEF CallFrameInv, SaveAreaOK
    <2>2. IntRegs \in Nat /\ FloatRegs \in Nat /\ SaveAreaSize = IntRegs * 8 + FloatRegs * 16
      BY CallFrameAssumption DEF SaveAreaSize
    <2>3. ASSUME NEW a \in Int, NEW size \in 0..8, NEW tag, a + 8 <= SpBody + SaveAreaSize,
                 Holds(mem, a, tag, size)
          PROVE  Holds(mem', a, tag, size)
      <3>1. a + size <= LocalsAt /\ size \in Nat
        BY <1>8, <1>14, <2>3
      <3> QED BY <1>6, <1>7, <1>8, <2>3, <3>1, StoreAtKeeps
    <2>4. ASSUME ToIntReg(x)
          PROVE  Holds(mem', SpBody + Used(x - 1).ints * 8, <<"arg", x>>, call.types[x].size)
      <3>1. PICK i : i = Used(x - 1).ints
        OBVIOUS
      <3>2. i \in Nat /\ i < IntRegs /\ call.types[x].size \in 0..8
        BY <1>1, <2>4, <3>1, ArgProps DEF ToIntReg
      <3>3. PICK a \in Int : a = SpBody + i * 8
        BY <1>8, <3>2
      <3>4. a + 8 <= SpBody + SaveAreaSize
        BY <1>8, <2>2, <3>2, <3>3
      <3>5. Holds(mem, a, <<"arg", x>>, call.types[x].size)
        BY <2>1, <2>4, <3>1, <3>3 DEF Kept
      <3>6. Holds(mem', a, <<"arg", x>>, call.types[x].size)
        BY <2>3, <3>2, <3>4, <3>5
      <3> QED BY <3>1, <3>3, <3>6
    <2>5. ASSUME ToFloatReg(x)
          PROVE  Holds(mem', SpBody + IntRegs * 8 + Used(x - 1).floats * 16, <<"arg", x>>,
                       call.types[x].size)
      <3>1. PICK i : i = Used(x - 1).floats
        OBVIOUS
      <3>2. i \in Nat /\ i < FloatRegs /\ call.types[x].size \in 0..8
        BY <1>1, <2>5, <3>1, ArgProps DEF ToFloatReg
      <3>3. PICK a \in Int : a = SpBody + IntRegs * 8 + i * 16
        BY <1>8, <2>2, <3>2
      <3>4. a + 8 <= SpBody + SaveAreaSize
        BY <1>8, <2>2, <3>2, <3>3
      <3>5. Holds(mem, a, <<"arg", x>>, call.types[x].size)
        BY <2>1, <2>5, <3>1, <3>3 DEF Kept
      <3>6. Holds(mem', a, <<"arg", x>>, call.types[x].size)
        BY <2>3, <3>2, <3>4, <3>5
      <3> QED BY <3>1, <3>3, <3>6
    <2> QED BY <1>1, <1>2, <2>4, <2>5 DEF Kept
  <1>15. SaveAreaOK'
    BY <1>1, <1>2, <1>14 DEF SaveAreaOK
  <1>16. IndexOK'
    BY <1>1, <1>2, CallProps DEF CallFrameInv, IndexOK
  <1>17. GotOK'
    <2>1. got' = got /\ got = <<>> /\ ReadRight
      BY <1>1 DEF CallFrameInv, GotOK, UseFrame
    <2>2. ReadRight'
      BY <1>1, <2>1, ReadStaysRight
    <2> QED BY <1>1, <2>1, <2>2 DEF GotOK, Before
  <1>18. VaListOK'
    BY <1>1 DEF VaListOK
  <1>19. MovesOK'
    <2>1. \A x \in 1..call.fixed : ParamKept(x) /\ (Moved(x)' <=> Moved(x))
      <3>1. n \in Nat /\ call.fixed \in Nat
        BY <1>1, CallProps DEF CallFrameInv, IndexOK
      <3> QED BY <1>1, <3>1 DEF CallFrameInv, MovesOK, Moved
    <2> QED BY <1>1, <2>1, ParamsStayKept DEF MovesOK
  <1> QED
    BY <1>2, <1>4, <1>5, <1>11, <1>12, <1>13, <1>15, <1>16, <1>17, <1>18, <1>19 DEF CallFrameInv

(* Reading arguments leaves the registers and the memory alone. *)
LEMMA ReadingSound ==
  ASSUME CallFrameInv, UNCHANGED <<call, frame, sp, bp, regs, al, saves, mem>>,
         step \in {"params", "va_arg"}, step' \in {"params", "va_arg", "epilogue"},
         step' = "params" => step = "params",
         IndexOK', GotOK', VaListOK'
  PROVE  CallFrameInv'
  <1>1. CallOK(call) /\ FrameOK
    BY DEF CallFrameInv
  <1>2. /\ CallOK(call)' /\ FrameOK' /\ SpArgs' = SpArgs /\ Args' = Args /\ SpBody' = SpBody
        /\ \A x : Used(x)' = Used(x)
        /\ \A x : (ToIntReg(x)' <=> ToIntReg(x)) /\ (ToFloatReg(x)' <=> ToFloatReg(x))
    BY <1>1, CallFixed
  <1>3. PointersOK'
    BY <1>2 DEF CallFrameInv, PointersOK, Before, InCallee, After
  <1>4. SavesOK'
    BY DEF CallFrameInv, SavesOK
  <1>5. CallerKept'
    BY DEF CallFrameInv, CallerKept
  <1>6. PushedKept'
    <2>1. KeepsFrom(mem, mem', PushBase)
      BY NothingStored
    <2> QED BY <1>1, <2>1, PushedStayKept DEF CallFrameInv, InCallee
  <1>7. ArgsPlaced'
    <2>1. Args \in Nat
      BY <1>1, CallProps
    <2>2. Passed' = Passed /\ Passed = Args
      BY <1>2 DEF Passed
    <2>3. Passed \in 0..Args
      BY <2>1, <2>2
    <2>4. KeepsFrom(mem, mem', SpArgs)
      BY NothingStored
    <2> QED BY <1>1, <2>2, <2>3, <2>4, ArgsStayPlaced DEF CallFrameInv, Unmoved, Before
  <1>8. SaveAreaOK'
    <2>1. \A x : Kept(x)' <=> Kept(x)
      BY <1>2 DEF Kept
    <2> QED BY <1>2, <2>1 DEF CallFrameInv, SaveAreaOK
  <1>9. MovesOK'
    <2> SUFFICES ASSUME step' = "params" PROVE MovesOK'
      BY DEF MovesOK
    <2>1. step = "params"
      BY DEF CallFrameInv, IndexOK
    <2>2. \A x \in 1..call.fixed : ParamKept(x) /\ (Moved(x)' <=> Moved(x))
      BY <2>1 DEF CallFrameInv, MovesOK, Moved
    <2> QED BY <2>2, ParamsStayKept DEF MovesOK
  <1> QED
    BY <1>2, <1>3, <1>4, <1>5, <1>6, <1>7, <1>8, <1>9 DEF CallFrameInv

LEMMA ReadAppends ==
  ASSUME ReadRight, call' = call, NEW k \in Nat, Len(got) = k - 1, NEW v, got' = Append(got, v),
         ((k <= call.fixed /\ InLowerHalf(k)) \/ (k > call.fixed /\ Used(call.fixed).space = 0)) =>
           v = Bytes(<<"arg", k>>, call.types[k].size)
  PROVE  ReadRight' /\ Len(got') = k
  <1>1. PICK T : got \in Seq(T)
    BY DEF ReadRight
  <1> DEFINE S == T \cup {v}
  <1>2. got \in Seq(S) /\ v \in S
    BY <1>1
  <1> HIDE DEF S
  <1>3. /\ got' \in Seq(S) /\ Len(got') = k /\ got'[k] = v
        /\ \A x \in 1..k-1 : got'[x] = got[x]
    <2>1. /\ Append(got, v) \in Seq(S) /\ Len(Append(got, v)) = Len(got) + 1 /\ Len(got) \in Nat
          /\ Append(got, v)[Len(got) + 1] = v /\ \A x \in 1..Len(got) : Append(got, v)[x] = got[x]
      BY <1>2, AppendedProps
    <2>2. Len(got) + 1 = k
      OBVIOUS
    <2> QED BY <2>1, <2>2
  <1>4. \A x \in 1..k : x \in 1..k-1 \/ x = k
    OBVIOUS
  <1>5. \A x \in 1..k-1 : Arrived(x) => Arrived(x)'
    BY <1>3 DEF Arrived
  <1>6. ((k <= call.fixed /\ InLowerHalf(k)) \/ (k > call.fixed /\ Used(call.fixed).space = 0)) =>
          Arrived(k)'
    BY <1>3 DEF Arrived
  <1>10. \A x : InLowerHalf(x)' <=> InLowerHalf(x)
    BY DEF InLowerHalf, CalleeSeq
  <1>7. ParametersArrive'
    BY <1>3, <1>4, <1>5, <1>6, <1>10 DEF ReadRight, ParametersArrive
  <1>8. Used(call.fixed).space = 0 => VarArgsFollowParams'
    BY <1>3, <1>4, <1>5, <1>6 DEF ReadRight, VarArgsFollowParams
  <1>9. (Used(call.fixed))' = Used(call.fixed)
    BY DEF Used
  <1> QED BY <1>3, <1>7, <1>8, <1>9 DEF ReadRight

LEMMA ReadParamSound ==
  ASSUME CallFrameInv, ReadParam
  PROVE  CallFrameInv'
  <1>1. /\ CallOK(call) /\ FrameOK /\ call' = call /\ frame' = frame
        /\ step = "params" /\ step' = "params" /\ n <= call.fixed
    BY DEF CallFrameInv, ReadParam
  <1>2. Args \in Nat /\ call.fixed \in 0..Args /\ Args' = Args
    BY <1>1, CallProps, CallFixed
  <1>3. PICK k : k = n
    OBVIOUS
  <1>4. k \in Nat \ {0} /\ k \in 1..Args /\ k <= call.fixed /\ k \in 1..call.fixed
    BY <1>1, <1>2, <1>3 DEF CallFrameInv, IndexOK
  <1>5. Placed(k) /\ ParamKept(k) /\ Moved(k)
    BY <1>1, <1>4 DEF CallFrameInv, ArgsPlaced, Passed, MovesOK, Moved
  <1> DEFINE v == IF CalleeSeq.classes[n].t = "reg" THEN regs[Home(CalleeSeq.classes[n].reg)]
                  ELSE LoadAt(mem, bp + CalleeSeq.classes[n].offset + 16, call.types[n].size)
  <1>6. got' = Append(got, v)
    BY DEF ReadParam
  <1>7. CalleeSeq.classes[n] = ArgClass(k)
    BY <1>1, <1>3, <1>4, SidesAgree
  <1>8. InLowerHalf(k) => v = Bytes(<<"arg", k>>, call.types[k].size)
    <2> SUFFICES ASSUME InLowerHalf(k) PROVE v = Bytes(<<"arg", k>>, call.types[k].size)
      OBVIOUS
    <2>1. ~Dropped(k)
      BY <1>5 DEF Placed
    <2>2. CASE ToIntReg(k)
      <3>1. ArgClass(k).t = "reg" /\ Home(ArgClass(k).reg) = IntPlace(k)
        BY <1>1, <1>4, <1>5, <2>2, HomeProps
      <3>2. regs[IntPlace(k)] = Bytes(<<"arg", k>>, call.types[k].size)
        BY <1>5, <2>2 DEF ParamKept, RegHolds
      <3> QED BY <1>7, <3>1, <3>2
    <2>3. CASE ToFloatReg(k)
      <3>0. LowFloat(k)
        BY <1>3, <1>7, <2>3, <1>1, <1>4, FloatRegProps DEF InLowerHalf, LowFloat, ByReg
      <3>1. ArgClass(k).t = "reg" /\ Home(ArgClass(k).reg) = FloatPlace(k)
        BY <1>1, <1>4, <1>5, <2>3, <3>0, HomeProps
      <3>2. regs[FloatPlace(k)] = Bytes(<<"arg", k>>, call.types[k].size)
        BY <1>5, <3>0 DEF ParamKept, RegHolds
      <3> QED BY <1>7, <3>1, <3>2
    <2>4. CASE ToStack(k)
      <3>1. ArgClass(k).t = "mem" /\ ArgClass(k).offset = Used(k - 1).space
        BY <1>1, <1>4, <2>4, StackProps
      <3>2. Used(k - 1).space \in Nat /\ call.types[k].size \in Nat /\ SpArgs \in Int
        BY <1>1, <1>4, ArgProps, Geometry
      <3>3. bp = SpArgs - 16
        BY <1>1 DEF CallFrameInv, PointersOK, InCallee
      <3>4. PICK a \in Int : a = SpArgs + Used(k - 1).space
        BY <3>2
      <3>5. bp + Used(k - 1).space + 16 = a
        BY <3>2, <3>3, <3>4
      <3>6. Holds(mem, a, <<"arg", k>>, call.types[k].size)
        BY <1>5, <2>4, <3>4 DEF Placed
      <3>7. LoadAt(mem, a, call.types[k].size) = Bytes(<<"arg", k>>, call.types[k].size)
        BY <3>2, <3>6, LoadHolds
      <3> QED BY <1>3, <1>7, <3>1, <3>5, <3>7
    <2> QED BY <1>1, <1>4, <2>1, <2>2, <2>3, <2>4, ArgProps
  <1> HIDE DEF v
  <1>9. GotOK'
    <2>1. ReadRight /\ Len(got) = k - 1
      BY <1>1, <1>3 DEF CallFrameInv, GotOK
    <2>4. ~(k > call.fixed)
      BY <1>2, <1>4
    <2>2. ReadRight' /\ Len(got') = k
      BY <2>4, <1>1, <1>4, <1>6, <1>8, <2>1, ReadAppends
    <2>3. n' = k + 1
      BY <1>3 DEF ReadParam
    <2> QED BY <1>1, <1>4, <2>2, <2>3 DEF GotOK, Before
  <1>10. IndexOK'
    <2>1. n' = k + 1
      BY <1>3 DEF ReadParam
    <2> QED BY <1>1, <1>2, <1>4, <2>1 DEF IndexOK
  <1>11. VaListOK'
    BY <1>1 DEF VaListOK
  <1> QED BY <1>1, <1>9, <1>10, <1>11, ReadingSound DEF ReadParam

LEMMA StartVarArgsSound ==
  ASSUME CallFrameInv, StartVarArgs
  PROVE  CallFrameInv'
  <1>1. /\ CallOK(call) /\ FrameOK /\ call' = call /\ frame' = frame
        /\ step = "params" /\ n > call.fixed /\ n' = n /\ got' = got
        /\ step' \in {"va_arg", "epilogue"} /\ (step' = "va_arg" => call.variadic /\ va' = VaStart)
    BY DEF CallFrameInv, StartVarArgs
  <1>2. /\ Args \in Nat /\ call.fixed \in 0..Args /\ Args' = Args /\ SpArgs' = SpArgs
        /\ SpBody' = SpBody /\ \A x : Used(x)' = Used(x)
    BY <1>1, CallProps, CallFixed
  <1>3. n \in Nat \ {0} /\ n - 1 = call.fixed /\ n <= Args + 1
    BY <1>1, <1>2 DEF CallFrameInv, IndexOK
  <1>4. IndexOK'
    BY <1>1, <1>2, <1>3 DEF IndexOK
  <1>5. GotOK'
    BY <1>1, ReadStaysRight DEF CallFrameInv, GotOK, Before
  <1>6. VaListOK'
    <2> SUFFICES ASSUME step' = "va_arg" PROVE VaListOK'
      BY DEF VaListOK
    <2>1. sp = SpBody /\ bp = SpArgs - 16
      BY <1>1 DEF CallFrameInv, PointersOK, InCallee
    <2>2. va' = [ints |-> Used(call.fixed).ints * 8,
                 floats |-> IntRegs * 8 + Used(call.fixed).floats * 16,
                 stack |-> bp + 16, area |-> sp]
      BY <1>1, SidesAgree DEF VaStart
    <2>3. Used(call.fixed).space \in Nat /\ SpArgs \in Int
      <3>1. Used(call.fixed) \in Usage
        BY <1>1, CallProps
      <3> QED BY <1>1, <3>1, Geometry DEF Usage
    <2>4. bp + 16 = SpArgs + (Used(call.fixed).space - Used(call.fixed).space)
      BY <2>1, <2>3
    <2>5. PICK f : f = call.fixed
      OBVIOUS
    <2>6. va' = [ints |-> Used(f).ints * 8, floats |-> IntRegs * 8 + Used(f).floats * 16,
                 stack |-> SpArgs + (Used(f).space - Used(f).space), area |-> SpBody]
      BY <2>1, <2>2, <2>4, <2>5
    <2>7. Used(n - 1)' = Used(f)
      BY <1>1, <1>3, <2>5 DEF Used
    <2>8. Used(call.fixed)' = Used(f)
      BY <1>1, <2>5 DEF Used
    <2> QED BY <1>2, <2>6, <2>7, <2>8 DEF VaListOK
  <1> QED BY <1>1, <1>4, <1>5, <1>6, ReadingSound DEF StartVarArgs

LEMMA VaArgSound ==
  ASSUME CallFrameInv, VaArg
  PROVE  CallFrameInv'
  <1>1. /\ CallOK(call) /\ FrameOK /\ call' = call /\ frame' = frame
        /\ step = "va_arg" /\ step' = "va_arg" /\ n <= Args /\ n' = n + 1
    BY DEF CallFrameInv, VaArg, Args
  <1>2. /\ Args \in Nat /\ call.fixed \in 0..Args /\ Args' = Args /\ SpArgs' = SpArgs
        /\ SpBody' = SpBody /\ \A x : Used(x)' = Used(x)
    BY <1>1, CallProps, CallFixed
  <1>3. PICK k : k = n
    OBVIOUS
  <1>4. k \in Nat \ {0} /\ k \in 1..Args /\ k > call.fixed /\ call.variadic
    BY <1>1, <1>2, <1>3 DEF CallFrameInv, IndexOK
  <1>5. Placed(k) /\ Kept(k)
    <2>1. Placed(k)
      BY <1>1, <1>4 DEF CallFrameInv, ArgsPlaced, Passed
    <2>2. Kept(k)
      BY <1>1, <1>4 DEF CallFrameInv, SaveAreaOK
    <2> QED BY <2>1, <2>2
  <1>6. PICK f : f = Used(call.fixed).space
    OBVIOUS
  <1>7. PICK i, j, s : i = Used(k - 1).ints /\ j = Used(k - 1).floats /\ s = Used(k - 1).space
    OBVIOUS
  <1>8. va = [ints |-> i * 8, floats |-> IntRegs * 8 + j * 16, stack |-> SpArgs + (s - f),
              area |-> SpBody]
    BY <1>1, <1>3, <1>6, <1>7 DEF CallFrameInv, VaListOK
  <1>9. /\ i \in 0..IntRegs /\ j \in 0..FloatRegs /\ s \in Nat /\ call.types[k].size \in Nat
        /\ call.types[k].kind \in {"int", "float"}
        /\ (call.types[k].kind = "int" => call.types[k].size = 8)
    <2>1. call.types[k].kind # "struct"
      BY <1>1, <1>4, VarArgRegs
    <2>2. call.types[k].kind \in {"int", "float", "struct"}
      BY <1>1, <1>4, CallProps, TypeProps
    <2> QED BY <1>1, <1>4, <1>7, <2>1, <2>2, ArgProps
  <1>10. f \in Nat /\ SpArgs \in Int /\ SpBody \in Int /\ IntRegs \in Nat /\ FloatRegs \in Nat
    <2>1. Used(call.fixed) \in Usage
      BY <1>1, CallProps
    <2> QED BY <1>1, <1>6, <2>1, Geometry, CallFrameAssumption DEF Usage
  <1>11. PICK type : type = call.types[k]
    OBVIOUS
  <1>12. got' = Append(got, LoadAt(mem, Fetch(type).at, type.size)) /\ va' = Fetch(type).next
    BY <1>3, <1>11 DEF VaArg
  <1>13. /\ f = 0 => LoadAt(mem, Fetch(type).at, type.size) = Bytes(<<"arg", k>>, type.size)
         /\ Fetch(type).next = [ints |-> Used(k).ints * 8, floats |-> IntRegs * 8 + Used(k).floats * 16,
                                stack |-> SpArgs + (Used(k).space - f), area |-> SpBody]
    <2>1. CASE type.kind = "int" /\ i < IntRegs
      <3>1. ToIntReg(k)
        BY <1>7, <1>11, <2>1 DEF ToIntReg
      <3>2. i * 8 < IntLimit /\ ~(i * 8 >= IntLimit)
        BY <1>9, <1>10, <2>1, CallFrameAssumption
      <3>3. Fetch(type) = [at |-> SpBody + i * 8, next |-> [va EXCEPT !.ints = i * 8 + 8]]
        BY <1>8, <2>1, <3>2 DEF Fetch
      <3>4. Used(k).ints = i + 1 /\ Used(k).floats = j /\ Used(k).space = s
        BY <1>1, <1>4, <1>7, <3>1, IntRegProps
      <3>5. i * 8 + 8 = Used(k).ints * 8
        BY <1>9, <1>10, <3>4
      <3>6. PICK a \in Int : a = SpBody + i * 8
        BY <1>9, <1>10
      <3>7. Holds(mem, a, <<"arg", k>>, type.size)
        BY <1>5, <1>7, <1>11, <3>1, <3>6 DEF Kept
      <3>8. LoadAt(mem, a, type.size) = Bytes(<<"arg", k>>, type.size)
        BY <1>9, <1>11, <3>7, LoadHolds
      <3>9. Fetch(type).at = a
        BY <3>3, <3>6
      <3>10. Fetch(type).next = [ints |-> Used(k).ints * 8, floats |-> IntRegs * 8 + j * 16,
                                 stack |-> SpArgs + (s - f), area |-> SpBody]
        BY <1>8, <3>3, <3>5
      <3> QED BY <3>4, <3>8, <3>9, <3>10
    <2>2. CASE type.kind = "int" /\ i >= IntRegs
      <3>1. ToStack(k)
        BY <1>7, <1>11, <2>2 DEF ToStack
      <3>2. i * 8 >= IntLimit /\ ~(i * 8 < IntLimit)
        BY <1>9, <1>10, <2>2, CallFrameAssumption
      <3>3. Fetch(type) = [at |-> SpArgs + (s - f), next |-> [va EXCEPT !.stack = SpArgs + (s - f) + 8]]
        BY <1>8, <2>2, <3>2 DEF Fetch
      <3>4. Used(k).ints = i /\ Used(k).floats = j /\ Used(k).space = s + 8
        BY <1>1, <1>4, <1>7, <1>9, <1>11, <2>2, <3>1, StackProps
      <3>5. SpArgs + (s - f) + 8 = SpArgs + (Used(k).space - f)
        BY <1>9, <1>10, <3>4
      <3>6. PICK a \in Int : a = SpArgs + s
        BY <1>9, <1>10
      <3>7. Holds(mem, a, <<"arg", k>>, type.size)
        BY <1>5, <1>7, <1>11, <3>1, <3>6 DEF Placed
      <3>8. LoadAt(mem, a, type.size) = Bytes(<<"arg", k>>, type.size)
        BY <1>9, <1>11, <3>7, LoadHolds
      <3>9. f = 0 => Fetch(type).at = a
        <4>1. f = 0 => SpArgs + (s - f) = a
          BY <1>9, <1>10, <3>6
        <4> QED BY <3>3, <4>1
      <3>10. Fetch(type).next = [ints |-> i * 8, floats |-> IntRegs * 8 + j * 16,
                                 stack |-> SpArgs + (Used(k).space - f), area |-> SpBody]
        BY <1>8, <3>3, <3>5
      <3> QED BY <3>4, <3>8, <3>9, <3>10
    <2>3. CASE type.kind = "float"
      <3>1. ToFloatReg(k) /\ j < FloatRegs
        <4>1. ~Dropped(k)
          BY <1>5 DEF Placed
        <4>2. j < FloatRegs \/ j >= FloatRegs
          BY <1>9, <1>10
        <4> QED BY <1>7, <1>11, <2>3, <4>1, <4>2 DEF ToFloatReg, Dropped
      <3>2. IntRegs * 8 + j * 16 < FloatLimit /\ ~(IntRegs * 8 + j * 16 >= FloatLimit)
        BY <1>9, <1>10, <3>1, CallFrameAssumption
      <3>3. Fetch(type) = [at |-> SpBody + (IntRegs * 8 + j * 16),
                           next |-> [va EXCEPT !.floats = IntRegs * 8 + j * 16 + 16]]
        BY <1>8, <2>3, <3>2 DEF Fetch
      <3>4. Used(k).ints = i /\ Used(k).floats = j + 1 /\ Used(k).space = s
        BY <1>1, <1>4, <1>7, <3>1, FloatRegProps
      <3>5. IntRegs * 8 + j * 16 + 16 = IntRegs * 8 + Used(k).floats * 16
        BY <1>9, <1>10, <3>4
      <3>6. PICK a \in Int : a = SpBody + IntRegs * 8 + j * 16
        BY <1>9, <1>10
      <3>7. Holds(mem, a, <<"arg", k>>, type.size)
        BY <1>5, <1>7, <1>11, <3>1, <3>6 DEF Kept
      <3>8. LoadAt(mem, a, type.size) = Bytes(<<"arg", k>>, type.size)
        BY <1>9, <1>11, <3>7, LoadHolds
      <3>9. Fetch(type).at = a
        <4>1. SpBody + (IntRegs * 8 + j * 16) = a
          BY <1>9, <1>10, <3>6
        <4> QED BY <3>3, <4>1
      <3>10. Fetch(type).next = [ints |-> i * 8, floats |-> IntRegs * 8 + Used(k).floats * 16,
                                 stack |-> SpArgs + (s - f), area |-> SpBody]
        BY <1>8, <3>3, <3>5
      <3> QED BY <3>4, <3>8, <3>9, <3>10
    <2>4. i < IntRegs \/ i >= IntRegs
      BY <1>9, <1>10
    <2> QED BY <1>9, <1>11, <2>1, <2>2, <2>3, <2>4
  <1>14. GotOK'
    <2>1. ReadRight /\ Len(got) = k - 1
      BY <1>1, <1>3 DEF CallFrameInv, GotOK
    <2>2. ~(k <= call.fixed)
      BY <1>2, <1>4
    <2>3. PICK v : v = LoadAt(mem, Fetch(type).at, type.size)
      OBVIOUS
    <2>4. Used(call.fixed).space = 0 => v = Bytes(<<"arg", k>>, call.types[k].size)
      BY <1>6, <1>11, <1>13, <2>3
    <2>5. ReadRight' /\ Len(got') = k
      BY <1>1, <1>4, <1>12, <2>1, <2>2, <2>3, <2>4, ReadAppends
    <2> QED BY <1>1, <1>3, <1>4, <2>5 DEF GotOK, Before
  <1>15. IndexOK'
    BY <1>1, <1>2, <1>3, <1>4 DEF IndexOK
  <1>16. VaListOK'
    <2>1. n' - 1 = k
      BY <1>1, <1>3, <1>4
    <2>2. Used(n - 1)' = Used(k)
      BY <1>1, <2>1 DEF Used
    <2>3. Used(call.fixed)'.space = f
      BY <1>1, <1>6 DEF Used
    <2> QED BY <1>2, <1>12, <1>13, <2>2, <2>3 DEF VaListOK
  <1> QED BY <1>1, <1>14, <1>15, <1>16, ReadingSound DEF VaArg

LEMMA EndVarArgsSound ==
  ASSUME CallFrameInv, EndVarArgs
  PROVE  CallFrameInv'
  <1>1. /\ call' = call /\ frame' = frame /\ got' = got /\ n' = n
        /\ step = "va_arg" /\ step' = "epilogue"
    BY DEF EndVarArgs
  <1>2. IndexOK'
    BY <1>1 DEF CallFrameInv, IndexOK
  <1>3. GotOK'
    BY <1>1, ReadStaysRight DEF CallFrameInv, GotOK, Before
  <1>4. VaListOK'
    BY <1>1 DEF VaListOK
  <1> QED BY <1>1, <1>2, <1>3, <1>4, ReadingSound DEF EndVarArgs

LEMMA EpilogueSound ==
  ASSUME CallFrameInv, Epilogue
  PROVE  CallFrameInv'
  <1>1. /\ CallOK(call) /\ FrameOK /\ call' = call /\ frame' = frame /\ regs' = regs /\ mem' = mem
        /\ step = "epilogue" /\ step' = "add" /\ got' = got /\ n' = n
    BY DEF CallFrameInv, Epilogue
  <1>2. CallOK(call)' /\ FrameOK' /\ SpArgs' = SpArgs /\ Args' = Args
    BY <1>1, CallFixed
  <1>3. /\ sp = SpBody /\ SpBody \in Int /\ SpArgs \in Int /\ Saved \in Nat /\ StackAdjustment \in Nat
        /\ SpBody + StackAdjustment + 8 * Saved + 16 = SpArgs
    BY <1>1, Geometry DEF CallFrameInv, PointersOK, InCallee
  <1>4. PICK base : base = sp + StackAdjustment
    OBVIOUS
  <1>5. base \in Int /\ base + 8 * Saved = SpArgs - 16 /\ SpArgs - 16 \in Int
    BY <1>3, <1>4
  <1>6. LoadAt(mem, SpArgs - 16, 8) = Bytes(<<"caller bp">>, 8)
    <2>1. Holds(mem, SpArgs - 16, <<"caller bp">>, 8) /\ 8 \in Nat
      BY <1>1 DEF CallFrameInv, PushedKept, InCallee
    <2> QED BY <1>5, <2>1, LoadHolds
  <1>7. bp' = Top + 512 /\ sp' = SpArgs
    <2>1. /\ bp' = IF LoadAt(mem, base + 8 * Saved, 8) = Bytes(<<"caller bp">>, 8) THEN Top + 512 ELSE 0
          /\ sp' = base + 8 * Saved + 8 + 8
      BY <1>4 DEF Epilogue, Saved
    <2>2. bp' = Top + 512
      BY <1>5, <1>6, <2>1
    <2>3. sp' = SpArgs
      <3>1. sp' = SpArgs - 16 + 8 + 8
        BY <1>5, <2>1
      <3> QED BY <1>3, <3>1
    <2> QED BY <2>2, <2>3
  <1>8. PointersOK'
    BY <1>1, <1>2, <1>7 DEF PointersOK, Before, InCallee, After
  <1>9. SavesOK'
    <2>1. saves' = [r \in 1..5 |-> IF r \in frame.saved THEN LoadAt(mem, base + 8 * (PopIndex(r) - 1), 8)
                                   ELSE saves[r]]
      BY <1>4 DEF Epilogue
    <2>2. ASSUME NEW r \in 1..5, r \in frame.saved
          PROVE  LoadAt(mem, base + 8 * (PopIndex(r) - 1), 8) = Bytes(<<"saved", r>>, 8)
      <3>1. PushIndex(r) \in 1..Saved /\ PopIndex(r) = Saved - PushIndex(r) + 1
        BY <1>1, <2>2, PushProps
      <3>2. PICK a \in Int : a = SpArgs - 16 - 8 * PushIndex(r)
        BY <1>3, <3>1
      <3>3. base + 8 * (PopIndex(r) - 1) = a
        BY <1>3, <1>5, <3>1, <3>2
      <3>4. Holds(mem, a, <<"saved", r>>, 8) /\ 8 \in Nat
        BY <1>1, <2>2, <3>2 DEF CallFrameInv, PushedKept, InCallee
      <3> QED BY <3>3, <3>4, LoadHolds
    <2>3. ASSUME NEW r \in 1..5, r \notin frame.saved
          PROVE  saves[r] = Bytes(<<"saved", r>>, 8)
      BY <2>3 DEF CallFrameInv, SavesOK
    <2>4. \A r \in 1..5 : saves'[r] = Bytes(<<"saved", r>>, 8)
      BY <2>1, <2>2, <2>3
    <2>5. saves' = [r \in 1..5 |-> saves'[r]]
      BY <2>1
    <2> QED BY <2>4, <2>5 DEF SavesOK
  <1>10. CallerKept'
    BY <1>1 DEF CallFrameInv, CallerKept
  <1>11. PushedKept'
    BY <1>1 DEF PushedKept, InCallee
  <1>12. ArgsPlaced'
    <2>1. Args \in Nat
      BY <1>1, CallProps
    <2>2. Passed' = Passed /\ Passed = Args
      BY <1>1, <1>2 DEF Passed
    <2>3. Passed \in 0..Args
      BY <2>1, <2>2
    <2>4. KeepsFrom(mem, mem', SpArgs)
      BY <1>1, NothingStored
    <2> QED BY <1>1, <2>2, <2>3, <2>4, ArgsStayPlaced DEF CallFrameInv, Unmoved, Before
  <1>13. SaveAreaOK'
    BY <1>1 DEF SaveAreaOK
  <1>14. IndexOK'
    BY <1>1 DEF CallFrameInv, IndexOK
  <1>15. GotOK'
    BY <1>1, ReadStaysRight DEF CallFrameInv, GotOK, Before
  <1>16. VaListOK'
    BY <1>1 DEF VaListOK
  <1>17. MovesOK'
    BY <1>1 DEF MovesOK
  <1> QED
    BY <1>2, <1>8, <1>9, <1>10, <1>11, <1>12, <1>13, <1>14, <1>15, <1>16, <1>17 DEF CallFrameInv

LEMMA GiveBackSpaceSound ==
  ASSUME CallFrameInv, GiveBackSpace
  PROVE  CallFrameInv'
  <1>1. /\ CallOK(call) /\ FrameOK /\ call' = call /\ frame' = frame /\ regs' = regs /\ mem' = mem
        /\ step = "add" /\ step' = "returned" /\ got' = got /\ n' = n
    BY DEF CallFrameInv, GiveBackSpace
  <1>2. CallOK(call)' /\ FrameOK' /\ SpArgs' = SpArgs /\ Args' = Args
    BY <1>1, CallFixed
  <1>3. sp' = Top /\ bp' = bp
    BY <1>1, Geometry DEF CallFrameInv, PointersOK, GiveBackSpace
  <1>4. PointersOK'
    BY <1>1, <1>2, <1>3 DEF CallFrameInv, PointersOK, Before, InCallee, After
  <1>5. SavesOK'
    BY <1>1 DEF CallFrameInv, SavesOK, GiveBackSpace
  <1>6. CallerKept'
    BY <1>1 DEF CallFrameInv, CallerKept
  <1>7. PushedKept'
    BY <1>1 DEF PushedKept, InCallee
  <1>8. ArgsPlaced'
    <2>1. Args \in Nat
      BY <1>1, CallProps
    <2>2. Passed' = Passed /\ Passed = Args
      BY <1>1, <1>2 DEF Passed
    <2>3. Passed \in 0..Args
      BY <2>1, <2>2
    <2>4. KeepsFrom(mem, mem', SpArgs)
      BY <1>1, NothingStored
    <2> QED BY <1>1, <2>2, <2>3, <2>4, ArgsStayPlaced DEF CallFrameInv, Unmoved, Before
  <1>9. SaveAreaOK'
    BY <1>1 DEF SaveAreaOK
  <1>10. IndexOK'
    BY <1>1 DEF CallFrameInv, IndexOK
  <1>11. GotOK'
    BY <1>1, ReadStaysRight DEF CallFrameInv, GotOK, Before
  <1>12. VaListOK'
    BY <1>1 DEF VaListOK
  <1>13. MovesOK'
    BY <1>1 DEF MovesOK
  <1> QED
    BY <1>2, <1>4, <1>5, <1>6, <1>7, <1>8, <1>9, <1>10, <1>11, <1>12, <1>13 DEF CallFrameInv

LEMMA CallStutters ==
  ASSUME CallFrameInv, UNCHANGED callVars
  PROVE  CallFrameInv'
  <1>1. /\ CallOK(call) /\ FrameOK /\ call' = call /\ frame' = frame /\ step' = step /\ n' = n
        /\ sp' = sp /\ bp' = bp /\ regs' = regs /\ al' = al /\ saves' = saves /\ mem' = mem
        /\ got' = got /\ va' = va
    BY DEF CallFrameInv, callVars
  <1>2. /\ CallOK(call)' /\ FrameOK' /\ SpArgs' = SpArgs /\ Args' = Args /\ SpBody' = SpBody
        /\ FloatsInRegs' = FloatsInRegs /\ \A x : Used(x)' = Used(x)
        /\ \A r : PushIndex(r)' = PushIndex(r)
        /\ \A x : /\ (Dropped(x)' <=> Dropped(x)) /\ (ToStack(x)' <=> ToStack(x))
                  /\ (ToIntReg(x)' <=> ToIntReg(x)) /\ (ToFloatReg(x)' <=> ToFloatReg(x))
    BY <1>1, CallFixed
  <1>3. PointersOK'
    BY <1>1, <1>2 DEF CallFrameInv, PointersOK
  <1>4. SavesOK' /\ CallerKept'
    BY <1>1 DEF CallFrameInv, SavesOK, CallerKept
  <1>5. PushedKept'
    BY <1>1, <1>2 DEF CallFrameInv, PushedKept
  <1>6. ArgsPlaced'
    <2>1. \A r, x : RegHolds(r, x)' <=> RegHolds(r, x)
      BY <1>1 DEF RegHolds
    <2>2. \A x : Placed(x) => Placed(x)'
      BY <1>1, <1>2, <2>1 DEF Placed, Unmoved
    <2>3. Passed' = Passed
      BY <1>1, <1>2 DEF Passed
    <2> QED BY <1>1, <2>2, <2>3 DEF CallFrameInv, ArgsPlaced, Unmoved
  <1>7. SaveAreaOK'
    <2>1. \A x : Kept(x)' <=> Kept(x)
      BY <1>1, <1>2 DEF Kept
    <2> QED BY <1>1, <1>2, <2>1 DEF CallFrameInv, SaveAreaOK
  <1>8. IndexOK'
    BY <1>1, <1>2 DEF CallFrameInv, IndexOK
  <1>9. GotOK'
    BY <1>1, ReadStaysRight DEF CallFrameInv, GotOK
  <1>10. VaListOK'
    <2>1. Used(n - 1)' = Used(n - 1) /\ Used(call.fixed)' = Used(call.fixed)
      BY <1>1 DEF Used
    <2> QED BY <1>1, <1>2, <2>1 DEF CallFrameInv, VaListOK
  <1>11. MovesOK'
    <2>1. \A x : ParamKept(x) => ParamKept(x)'
      <3>1. \A x : Moved(x)' <=> Moved(x)
        BY <1>1 DEF Moved
      <3> QED BY <1>1, <3>1, ParamsStayKept
    <2> QED BY <1>1, <2>1 DEF CallFrameInv, MovesOK
  <1> QED
    BY <1>2, <1>3, <1>4, <1>5, <1>6, <1>7, <1>8, <1>9, <1>10, <1>11 DEF CallFrameInv

-----------------------------------------------------------------------------
(***************************************************************************)
(* Whatever the code asm_gen.c emits for a call has run so far, the        *)
(* pointers, the saved registers, the stack, the register save area, the   *)
(* parameters the entry MOVs have moved and not yet moved, the arguments   *)
(* read and the va_list are as the invariant says.                         *)
(***************************************************************************)
THEOREM CallFrameIsSound == CallSpec => []CallFrameInv
  <1>1. CallInit => CallFrameInv
    BY CallInitSound
  <1>2. CallFrameInv /\ [CallNext]_callVars => CallFrameInv'
    <2> SUFFICES ASSUME CallFrameInv, [CallNext]_callVars PROVE CallFrameInv'
      OBVIOUS
    <2>1. CASE MakeSpace BY <2>1, MakeSpaceSound
    <2>2. CASE PassInRegister BY <2>2, PassInRegisterSound
    <2>3. CASE PassInMemory BY <2>3, PassInMemorySound
    <2>4. CASE PassFloatInMemory BY <2>4, PassFloatInMemorySound
    <2>5. CASE DoCall BY <2>5, DoCallSound
    <2>6. CASE Prologue BY <2>6, PrologueSound
    <2>7. CASE SaveRegisters BY <2>7, SaveRegistersSound
    <2>17. CASE MoveParam BY <2>17, MoveParamSound
    <2>8. CASE UseFrame BY <2>8, UseFrameSound
    <2>9. CASE ReadParam BY <2>9, ReadParamSound
    <2>10. CASE StartVarArgs BY <2>10, StartVarArgsSound
    <2>11. CASE VaArg BY <2>11, VaArgSound
    <2>12. CASE EndVarArgs BY <2>12, EndVarArgsSound
    <2>13. CASE Epilogue BY <2>13, EpilogueSound
    <2>14. CASE GiveBackSpace BY <2>14, GiveBackSpaceSound
    <2>15. CASE CallDone BY <2>15, CallStutters DEF CallDone
    <2>16. CASE UNCHANGED callVars BY <2>16, CallStutters
    <2> QED
      BY <2>1, <2>2, <2>3, <2>4, <2>5, <2>6, <2>7, <2>8, <2>9, <2>10, <2>11, <2>12, <2>13, <2>14,
         <2>15, <2>16, <2>17 DEF CallNext
  <1> QED BY <1>1, <1>2, PTL DEF CallSpec

(***************************************************************************)
(* The stack is aligned to 16 bytes at the CALL and in the body of the     *)
(* callee, for any space of arguments, any pushed registers and any        *)
(* locals, with or without the register save area.                         *)
(***************************************************************************)
THEOREM CallsAreAligned == CallSpec => []StackAligned
  <1>1. CallFrameInv => StackAligned
    <2> SUFFICES ASSUME CallFrameInv PROVE StackAligned
      OBVIOUS
    <2>1. SpArgs \in Int /\ SpArgs % 16 = 0 /\ SpBody % 16 = 0
      BY Geometry DEF CallFrameInv
    <2>2. step = "prologue" => sp + 8 = SpArgs
      BY <2>1 DEF CallFrameInv, PointersOK
    <2>3. step \in {"save", "moves", "params", "va_arg"} => sp = SpBody
      BY DEF CallFrameInv, PointersOK, InCallee
    <2> QED BY <2>1, <2>2, <2>3 DEF StackAligned
  <1> QED BY <1>1, CallFrameIsSound, PTL

(***************************************************************************)
(* After the call the caller finds its stack and frame pointers, the       *)
(* callee-save registers and its own stack as they were, whatever the      *)
(* prologue pushed and the body used.                                      *)
(***************************************************************************)
THEOREM CallerGetsItsOwnBack == CallSpec => []CallerUndisturbed
  <1>1. CallFrameInv => CallerUndisturbed
    <2> SUFFICES ASSUME CallFrameInv, step = "returned" PROVE CallerUndisturbed
      BY DEF CallerUndisturbed
    <2>1. sp = Top /\ bp = Top + 512
      BY DEF CallFrameInv, PointersOK, After
    <2>2. saves = [r \in 1..5 |-> saves[r]] /\ \A r \in 1..5 : saves[r] = Bytes(<<"saved", r>>, 8)
      BY DEF CallFrameInv, SavesOK
    <2>3. saves = [r \in 1..5 |-> Bytes(<<"saved", r>>, 8)]
      BY <2>2
    <2>4. LoadAt(mem, Top, 16) = CallerBytes
      <3>1. Top \in Int /\ 16 \in Nat
        BY DEF Top
      <3>2. Holds(mem, Top, <<"caller">>, 16)
        BY DEF CallFrameInv, CallerKept
      <3>3. LoadAt(mem, Top, 16) = Bytes(<<"caller">>, 16)
        BY <3>1, <3>2, LoadHolds
      <3> QED BY <3>3 DEF CallerBytes
    <2> QED BY <2>1, <2>3, <2>4 DEF CallerUndisturbed
  <1> QED BY <1>1, CallFrameIsSound, PTL

(***************************************************************************)
(* The callee reads every parameter as it was passed, but for the floats   *)
(* of the upper half that its entry MOVs overwrite, and va_arg yields the  *)
(* variable arguments in order unless a parameter was passed on the stack, *)
(* for any list of arguments and any numbers of registers.                 *)
(***************************************************************************)
THEOREM EveryArgumentArrives == CallSpec => []ArgumentsArrive
  <1>1. CallFrameInv => ArgumentsArrive
    <2> SUFFICES ASSUME CallFrameInv PROVE ArgumentsArrive
      OBVIOUS
    <2>1. CalleeSeq.space = Used(call.fixed).space
      BY SidesAgree DEF CallFrameInv
    <2>2. ParametersArrive /\ (Used(call.fixed).space = 0 => VarArgsFollowParams)
      BY DEF CallFrameInv, GotOK, ReadRight
    <2> QED BY <2>1, <2>2 DEF ArgumentsArrive, VarArgsArrive, ParamsInRegisters
  <1> QED BY <1>1, CallFrameIsSound, PTL
==============================================================================
