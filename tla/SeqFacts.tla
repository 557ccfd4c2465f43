------------------------------ MODULE SeqFacts ------------------------------
(***************************************************************************)
(* Facts about the sequence operators that stand for the dynamic arrays of *)
(* src/src/array.c, shared by the proofs of the other modules.             *)
(***************************************************************************)
EXTENDS Integers, SequencesExt, SequenceTheorems, WellFoundedInduction, TLAPS

(* What ARRAY_INSERT does to the elements of an array. *)
LEMMA InsertAtProps ==
  ASSUME NEW S, NEW s \in Seq(S), NEW i \in 1..Len(s)+1, NEW e \in S
  PROVE  /\ InsertAt(s, i, e) \in Seq(S)
         /\ Len(InsertAt(s, i, e)) = Len(s) + 1
         /\ \A k \in 1..Len(s)+1 :
              InsertAt(s, i, e)[k] = IF k < i THEN s[k] ELSE IF k = i THEN e ELSE s[k-1]
         /\ ToSet(InsertAt(s, i, e)) = ToSet(s) \cup {e}
  <1> DEFINE p == SubSeq(s, 1, i-1)
             q == SubSeq(s, i, Len(s))
             r == InsertAt(s, i, e)
  <1>1. p \in Seq(S) /\ Len(p) = i - 1 /\ \A k \in 1..i-1 : p[k] = s[k]
    OBVIOUS
  <1>2. q \in Seq(S) /\ Len(q) = Len(s) - i + 1 /\ \A k \in 1..Len(s)-i+1 : q[k] = s[i+k-1]
    OBVIOUS
  <1>3. (p \o <<e>>) \in Seq(S) /\ Len(p \o <<e>>) = i
        /\ \A k \in 1..i : (p \o <<e>>)[k] = IF k < i THEN s[k] ELSE e
    <2> HIDE DEF p
    <2> QED BY <1>1
  <1>4. r = (p \o <<e>>) \o q
    BY DEF InsertAt
  <1>5. r \in Seq(S) /\ Len(r) = Len(s) + 1
        /\ \A k \in 1..Len(s)+1 :
              r[k] = IF k < i THEN s[k] ELSE IF k = i THEN e ELSE s[k-1]
    <2> DEFINE pe == p \o <<e>>
    <2>1. r = pe \o q /\ pe \in Seq(S) /\ Len(pe) = i
          /\ \A k \in 1..i : pe[k] = IF k < i THEN s[k] ELSE e
      BY <1>3, <1>4
    <2> HIDE DEF p, q, r, pe
    <2>2. r \in Seq(S) /\ Len(r) = Len(s) + 1
      <3>1. Len(q) = Len(s) - i + 1 /\ q \in Seq(S)
        BY <1>2
      <3>2. pe \o q \in Seq(S) /\ Len(pe \o q) = Len(pe) + Len(q)
        BY <2>1, <3>1, ConcatProperties
      <3> QED BY <2>1, <3>1, <3>2
    <2>3. ASSUME NEW k \in 1..Len(s)+1
          PROVE  r[k] = IF k < i THEN s[k] ELSE IF k = i THEN e ELSE s[k-1]
      <3>1. CASE k <= i
        <4>1. r[k] = pe[k]
          BY <2>1, <1>2, <3>1
        <4> QED BY <4>1, <3>1, <2>1
      <3>2. CASE k > i
        <4>1. r[k] = q[k - i]
          BY <2>1, <1>2, <3>2
        <4>2. k - i \in 1..Len(s)-i+1 /\ i + (k - i) - 1 = k - 1
          BY <3>2
        <4> QED BY <4>1, <4>2, <3>2, <1>2
      <3> QED BY <3>1, <3>2
    <2> QED BY <2>2, <2>3
  <1>6. ToSet(r) = ToSet(s) \cup {e}
    <2> HIDE DEF r
    <2>1. DOMAIN r = 1..Len(s)+1 /\ DOMAIN s = 1..Len(s)
      BY <1>5
    <2>2. ASSUME NEW x \in ToSet(r) PROVE x \in ToSet(s) \cup {e}
      <3>1. PICK k \in 1..Len(s)+1 : x = r[k]
        BY <2>1 DEF ToSet
      <3>2. CASE k < i
        <4>1. x = s[k] /\ k \in DOMAIN s
          BY <3>1, <3>2, <1>5, <2>1
        <4> QED BY <4>1 DEF ToSet
      <3>3. CASE k = i
        BY <3>1, <3>3, <1>5
      <3>4. CASE k > i
        <4>1. x = s[k-1] /\ k-1 \in DOMAIN s
          BY <3>1, <3>4, <1>5, <2>1
        <4> QED BY <4>1 DEF ToSet
      <3> QED BY <3>2, <3>3, <3>4
    <2>3. ASSUME NEW x \in ToSet(s) PROVE x \in ToSet(r)
      <3>1. PICK k \in 1..Len(s) : x = s[k]
        BY <2>1 DEF ToSet
      <3>2. CASE k < i
        <4>1. r[k] = s[k] /\ k \in DOMAIN r
          BY <3>2, <1>5, <2>1
        <4> QED BY <4>1, <3>1 DEF ToSet
      <3>3. CASE k >= i
        <4>1. r[k+1] = s[k] /\ k+1 \in DOMAIN r
          BY <3>3, <1>5, <2>1
        <4> QED BY <4>1, <3>1 DEF ToSet
      <3> QED BY <3>2, <3>3
    <2>4. e \in ToSet(r)
      <3>1. r[i] = e /\ i \in DOMAIN r
        BY <1>5, <2>1
      <3> QED BY <3>1 DEF ToSet
    <2> QED BY <2>2, <2>3, <2>4
  <1> QED BY <1>5, <1>6

(* The elements of a sequence, and the set of them. *)
LEMMA SeqElements ==
  ASSUME NEW S, NEW s \in Seq(S)
  PROVE  /\ \A e \in ToSet(s) : e \in S /\ \E k \in 1..Len(s) : s[k] = e
         /\ \A k \in 1..Len(s) : s[k] \in ToSet(s)
  BY DEF ToSet

(* What ARRAY_APPEND adds to the elements. *)
LEMMA AppendedProps ==
  ASSUME NEW S, NEW s \in Seq(S), NEW e \in S
  PROVE  /\ Append(s, e) \in Seq(S) /\ Len(Append(s, e)) = Len(s) + 1 /\ Len(s) \in Nat
         /\ Append(s, e)[Len(s) + 1] = e
         /\ \A k \in 1..Len(s) : Append(s, e)[k] = s[k]
         /\ ToSet(Append(s, e)) = ToSet(s) \cup {e}
  <1> DEFINE a == Append(s, e)
  <1>1. /\ a \in Seq(S) /\ Len(s) \in Nat /\ Len(a) = Len(s) + 1 /\ a[Len(s) + 1] = e
        /\ \A k \in 1..Len(s) : a[k] = s[k]
    OBVIOUS
  <1> HIDE DEF a
  <1>2. DOMAIN a = 1..Len(s) + 1 /\ DOMAIN s = 1..Len(s)
    BY <1>1
  <1>3. \A k \in DOMAIN a : k = Len(s) + 1 \/ k \in DOMAIN s
    BY <1>1, <1>2
  <1>4. DOMAIN s \subseteq DOMAIN a /\ Len(s) + 1 \in DOMAIN a
    BY <1>1, <1>2
  <1>5. \A x \in ToSet(a) : x \in ToSet(s) \cup {e}
    BY <1>1, <1>2, <1>3 DEF ToSet
  <1>6. \A x \in ToSet(s) : x \in ToSet(a)
    BY <1>1, <1>2, <1>4 DEF ToSet
  <1>7. e \in ToSet(a)
    BY <1>1, <1>4 DEF ToSet
  <1>8. ToSet(a) = ToSet(s) \cup {e}
    BY <1>5, <1>6, <1>7
  <1> QED BY <1>1, <1>8 DEF a

(* What removing element 0 of an array does. *)
LEMMA TailProps ==
  ASSUME NEW S, NEW s \in Seq(S), s # <<>>
  PROVE  /\ Tail(s) \in Seq(S) /\ Len(Tail(s)) = Len(s) - 1 /\ Len(s) \in Nat \ {0}
         /\ \A k \in 1..Len(s)-1 : Tail(s)[k] = s[k+1]
         /\ Head(s) = s[1] /\ Head(s) \in S
         /\ ToSet(s) = {Head(s)} \cup ToSet(Tail(s))
  <1>1. /\ Tail(s) \in Seq(S) /\ Len(Tail(s)) = Len(s) - 1 /\ Len(s) \in Nat \ {0}
        /\ \A k \in 1..Len(s)-1 : Tail(s)[k] = s[k+1]
        /\ Head(s) = s[1] /\ Head(s) \in S
    OBVIOUS
  <1>2. DOMAIN s = 1..Len(s) /\ DOMAIN Tail(s) = 1..Len(s)-1
    BY <1>1
  <1>3. ASSUME NEW x \in ToSet(s) PROVE x \in {Head(s)} \cup ToSet(Tail(s))
    <2>1. PICK k \in 1..Len(s) : x = s[k]
      BY <1>2 DEF ToSet
    <2>2. CASE k = 1
      BY <2>1, <2>2, <1>1
    <2>3. CASE k # 1
      <3>1. k-1 \in 1..Len(s)-1 /\ Tail(s)[k-1] = s[k]
        BY <2>3, <1>1
      <3> QED BY <3>1, <2>1, <1>2 DEF ToSet
    <2> QED BY <2>2, <2>3
  <1>4. ASSUME NEW x \in ToSet(Tail(s)) PROVE x \in ToSet(s)
    <2>1. PICK k \in 1..Len(s)-1 : x = Tail(s)[k]
      BY <1>2 DEF ToSet
    <2>2. k+1 \in DOMAIN s /\ x = s[k+1]
      BY <2>1, <1>1, <1>2
    <2> QED BY <2>2 DEF ToSet
  <1>5. Head(s) \in ToSet(s)
    <2>1. 1 \in DOMAIN s
      BY <1>1, <1>2
    <2> QED BY <2>1, <1>1 DEF ToSet
  <1> QED BY <1>1, <1>3, <1>4, <1>5

(* A non-empty set of naturals has a least element: the loops that scan    *)
(* for the first element with a property stop at it.                       *)
LEMMA LeastNat ==
  ASSUME NEW T \in SUBSET Nat, T # {}
  PROVE  \E m \in T : \A k \in T : m <= k
  <1> DEFINE R == OpToRel(<, Nat)
  <1>1. IsWellFoundedOn(R, Nat)
    BY NatLessThanWellFounded
  <1>2. \A k, m \in Nat : k < m => <<k, m>> \in R
    BY DEF OpToRel
  <1> HIDE DEF R
  <1>3. PICK m \in T : \A k \in T : ~(<<k, m>> \in R)
    BY <1>1, WFMin
  <1>4. ASSUME NEW k \in T PROVE m <= k
    <2>1. k \in Nat /\ m \in Nat
      OBVIOUS
    <2>2. ~(k < m)
      BY <2>1, <1>2, <1>3
    <2> QED BY <2>1, <2>2
  <1> QED BY <1>4

(* The least of some positions, as a scan for the first finds it. *)
LEMMA MinProps ==
  ASSUME NEW n \in Nat, NEW S \in SUBSET (1..n), S # {}
  PROVE  Min(S) \in S /\ \A k \in S : Min(S) <= k
  <1>1. S \in SUBSET Nat
    OBVIOUS
  <1>2. \E x \in S : \A y \in S : x <= y
    BY <1>1, LeastNat
  <1>3. Min(S) \in S /\ \A y \in S : Min(S) <= y
    BY <1>2 DEF Min
  <1> QED BY <1>3

(* What ARRAY_REMOVE, or unlinking from a list, does to the elements. *)
LEMMA RemoveAtProps ==
  ASSUME NEW S, NEW s \in Seq(S), NEW i \in 1..Len(s)
  PROVE  /\ RemoveAt(s, i) \in Seq(S)
         /\ Len(RemoveAt(s, i)) = Len(s) - 1
         /\ \A k \in 1..Len(s)-1 :
              RemoveAt(s, i)[k] = IF k < i THEN s[k] ELSE s[k+1]
  <1> DEFINE p == SubSeq(s, 1, i-1)
             q == SubSeq(s, i+1, Len(s))
  <1>1. p \in Seq(S) /\ Len(p) = i - 1 /\ \A k \in 1..i-1 : p[k] = s[k]
    OBVIOUS
  <1>2. q \in Seq(S) /\ Len(q) = Len(s) - i /\ \A k \in 1..Len(s)-i : q[k] = s[i+k]
    OBVIOUS
  <1>3. RemoveAt(s, i) = p \o q
    BY DEF RemoveAt
  <1> HIDE DEF p, q
  <1>4. p \o q \in Seq(S) /\ Len(p \o q) = Len(p) + Len(q)
        /\ \A k \in 1..Len(p) + Len(q) : (p \o q)[k] = IF k <= Len(p) THEN p[k] ELSE q[k - Len(p)]
    BY <1>1, <1>2, ConcatProperties
  <1>5. ASSUME NEW k \in 1..Len(s)-1
        PROVE  (p \o q)[k] = IF k < i THEN s[k] ELSE s[k+1]
    <2>1. CASE k < i
      BY <2>1, <1>1, <1>2, <1>4
    <2>2. CASE k >= i
      <3>1. k - (i - 1) \in 1..Len(s)-i /\ i + (k - (i - 1)) = k + 1
        BY <2>2
      <3>2. (p \o q)[k] = q[k - (i - 1)]
        BY <2>2, <1>1, <1>2, <1>4
      <3> QED BY <3>1, <3>2, <1>2, <2>2
    <2>3. k < i \/ k >= i
      OBVIOUS
    <2> QED BY <2>1, <2>2, <2>3
  <1> QED BY <1>1, <1>2, <1>3, <1>4, <1>5

(* A list without duplicates loses exactly the element that is removed. *)
LEMMA RemoveAtDistinct ==
  ASSUME NEW S, NEW s \in Seq(S), NEW i \in 1..Len(s),
         \A j, k \in 1..Len(s) : s[j] = s[k] => j = k
  PROVE  /\ ToSet(RemoveAt(s, i)) = ToSet(s) \ {s[i]}
         /\ \A j, k \in 1..Len(RemoveAt(s, i)) : RemoveAt(s, i)[j] = RemoveAt(s, i)[k] => j = k
  <1> DEFINE r == RemoveAt(s, i)
  <1>1. r \in Seq(S) /\ Len(r) = Len(s) - 1 /\ Len(s) \in Nat
        /\ \A k \in 1..Len(s)-1 : r[k] = IF k < i THEN s[k] ELSE s[k+1]
    BY RemoveAtProps
  <1> HIDE DEF r
  <1>2. DOMAIN r = 1..Len(s)-1 /\ DOMAIN s = 1..Len(s)
    BY <1>1
  <1>3. ASSUME NEW x \in ToSet(r) PROVE x \in ToSet(s) \ {s[i]}
    <2>1. PICK k \in 1..Len(s)-1 : x = r[k]
      BY <1>2 DEF ToSet
    <2>2. CASE k < i
      <3>1. x = s[k] /\ k \in 1..Len(s) /\ k # i
        BY <2>1, <2>2, <1>1
      <3> QED BY <3>1, <1>2 DEF ToSet
    <2>3. CASE k >= i
      <3>1. x = s[k+1] /\ k+1 \in 1..Len(s) /\ k+1 # i
        BY <2>1, <2>3, <1>1
      <3> QED BY <3>1, <1>2 DEF ToSet
    <2> QED BY <2>2, <2>3
  <1>4. ASSUME NEW x \in ToSet(s) \ {s[i]} PROVE x \in ToSet(r)
    <2>1. PICK k \in 1..Len(s) : x = s[k]
      BY <1>2 DEF ToSet
    <2>2. CASE k < i
      <3>1. r[k] = x /\ k \in DOMAIN r
        BY <2>1, <2>2, <1>1, <1>2
      <3> QED BY <3>1 DEF ToSet
    <2>3. CASE k >= i
      <3>1. k # i
        BY <2>1
      <3>2. k-1 \in 1..Len(s)-1 /\ ~(k-1 < i) /\ (k-1)+1 = k
        BY <2>3, <3>1
      <3>3. r[k-1] = s[k] /\ k-1 \in DOMAIN r
        BY <3>2, <1>1, <1>2
      <3> QED BY <3>3, <2>1 DEF ToSet
    <2> QED BY <2>2, <2>3
  <1>5. ASSUME NEW j \in 1..Len(r), NEW k \in 1..Len(r), r[j] = r[k] PROVE j = k
    <2> DEFINE at(m) == IF m < i THEN m ELSE m + 1
    <2>1. at(j) \in 1..Len(s) /\ at(k) \in 1..Len(s) /\ r[j] = s[at(j)] /\ r[k] = s[at(k)]
      BY <1>1
    <2>2. at(j) = at(k)
      BY <2>1, <1>5
    <2> QED BY <2>2
  <1> QED BY <1>3, <1>4, <1>5 DEF r

(* What pushing an element on the front of a list does. *)
LEMMA ConsProps ==
  ASSUME NEW S, NEW s \in Seq(S), NEW e \in S
  PROVE  /\ <<e>> \o s \in Seq(S)
         /\ Len(<<e>> \o s) = Len(s) + 1
         /\ (<<e>> \o s)[1] = e
         /\ \A k \in 2..Len(s)+1 : (<<e>> \o s)[k] = s[k-1]
         /\ ToSet(<<e>> \o s) = {e} \cup ToSet(s)
  <1> DEFINE r == <<e>> \o s
  <1>1. /\ r \in Seq(S) /\ Len(r) = Len(s) + 1 /\ Len(s) \in Nat
        /\ r[1] = e /\ \A k \in 2..Len(s)+1 : r[k] = s[k-1]
    OBVIOUS
  <1> HIDE DEF r
  <1>2. DOMAIN r = 1..Len(s)+1 /\ DOMAIN s = 1..Len(s)
    BY <1>1
  <1>3. ASSUME NEW x \in ToSet(r) PROVE x \in {e} \cup ToSet(s)
    <2>1. PICK k \in 1..Len(s)+1 : x = r[k]
      BY <1>2 DEF ToSet
    <2>2. CASE k = 1
      BY <2>1, <2>2, <1>1
    <2>3. CASE k # 1
      <3>1. x = s[k-1] /\ k-1 \in DOMAIN s
        BY <2>1, <2>3, <1>1, <1>2
      <3> QED BY <3>1 DEF ToSet
    <2> QED BY <2>2, <2>3
  <1>4. ASSUME NEW x \in ToSet(s) PROVE x \in ToSet(r)
    <2>1. PICK k \in 1..Len(s) : x = s[k]
      BY <1>2 DEF ToSet
    <2>2. r[k+1] = s[k] /\ k+1 \in DOMAIN r
      BY <1>1, <1>2
    <2> QED BY <2>1, <2>2 DEF ToSet
  <1>5. e \in ToSet(r)
    <2>1. 1 \in DOMAIN r
      BY <1>1, <1>2
    <2> QED BY <2>1, <1>1 DEF ToSet
  <1> QED BY <1>1, <1>3, <1>4, <1>5 DEF r

(* Pushing something new leaves a list without duplicates. *)
LEMMA ConsDistinct ==
  ASSUME NEW S, NEW s \in Seq(S), NEW e \in S, e \notin ToSet(s),
         \A j, k \in 1..Len(s) : s[j] = s[k] => j = k
  PROVE  \A j, k \in 1..Len(<<e>> \o s) : (<<e>> \o s)[j] = (<<e>> \o s)[k] => j = k
  <1> DEFINE r == <<e>> \o s
  <1>1. /\ Len(r) = Len(s) + 1 /\ Len(s) \in Nat
        /\ r[1] = e /\ \A k \in 2..Len(s)+1 : r[k] = s[k-1]
    BY ConsProps
  <1> HIDE DEF r
  <1>2. \A k \in 2..Len(s)+1 : k-1 \in 1..Len(s) /\ r[k] \in ToSet(s)
    BY <1>1 DEF ToSet
  <1>3. ASSUME NEW j \in 1..Len(r), NEW k \in 1..Len(r), r[j] = r[k] PROVE j = k
    <2>1. CASE j = 1 \/ k = 1
      BY <1>1, <1>2, <1>3, <2>1
    <2>2. CASE j # 1 /\ k # 1
      <3>1. s[j-1] = s[k-1] /\ j-1 \in 1..Len(s) /\ k-1 \in 1..Len(s)
        BY <1>1, <1>2, <1>3, <2>2
      <3>2. j-1 = k-1
        BY <3>1
      <3> QED BY <3>2
    <2> QED BY <2>1, <2>2
  <1> QED BY <1>3 DEF r
=============================================================================
