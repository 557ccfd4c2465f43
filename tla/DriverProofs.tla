---------------------------- MODULE DriverProofs ----------------------------
(***************************************************************************)
(* Proofs about ncc, for any number of processes, any command lines and    *)
(* any names of temporary files: what one process reports is true however  *)
(* the others interleave with it.                                          *)
(***************************************************************************)
EXTENDS Driver, SeqFacts, FiniteSetTheorems

(* The state s of one process, for one command line. *)
States(args) ==
  [args : {args}, rand : 1..Len(RandCycle), k : Nat \ {0}, code : Int,
   phase : {"args", "name", "open", "compile", "remove", "exit"},
   link : BOOLEAN, syntax : BOOLEAN, pre : BOOLEAN, freestanding : BOOLEAN,
   output : {NoFile} \cup Outputs(args), sources : Seq(OfType(args, "source")),
   inputs : Seq(Inputs(args) \cup TempNames), temps : Seq(TempNames),
   object : {NoFile} \cup Outputs(args) \cup TempNames, result : Int]

Working(s) == s.phase \in {"name", "open", "compile", "remove"}
Compiling(s) == s.phase \in {"name", "open", "compile"}

Objects(s) == Count(s.args, "object", Len(s.args))

(* What the first n arguments left behind. *)
Scanned(s, n) ==
  /\ n \in 0..Len(s.args)
  /\ s.output = NoFile => \A x \in 1..n : s.args[x] \notin OutFlags(s.args)
  /\ Len(s.sources) = Count(s.args, "source", n)
  /\ Len(s.inputs) = Count(s.args, "object", n) + Len(s.temps)
  /\ \A x \in 1..n :
       /\ s.args[x].t = "source" => s.sources[Count(s.args, "source", x)] = s.args[x]
       /\ s.args[x].t = "object" => s.inputs[Count(s.args, "object", x)] = s.args[x].path

Parsed(s) ==
  /\ s.phase = "args" => Scanned(s, s.k - 1) /\ s.temps = <<>>
  /\ Working(s) \/ Succeeded(s) => Scanned(s, Len(s.args))

(* Temporary objects are only made for linking, each name once, and follow *)
(* the objects that were given.                                            *)
TempsNamed(s) ==
  /\ s.temps # <<>> => Links(s)
  /\ \A j, m \in 1..Len(s.temps) : s.temps[j] = s.temps[m] => j = m
  /\ Working(s) => \A j \in 1..Len(s.temps) : s.inputs[Objects(s) + j] = s.temps[j]

(* How far main() has come. *)
Advanced(s) ==
  /\ Compiling(s) => s.k <= Len(s.sources) + 1
  /\ s.phase \in {"name", "open"} /\ Links(s) => Len(s.temps) = s.k - 1
  /\ s.phase = "open" => Links(s) /\ s.k <= Len(s.sources) /\ s.object \in TempNames
  /\ s.phase = "compile" =>
       /\ s.k <= Len(s.sources)
       /\ Links(s) => Len(s.temps) = s.k /\ s.object = s.temps[s.k]
       /\ ~Links(s) => s.object \notin TempNames
       /\ NamesObjects(s) => s.object = ObjectName(s.sources[s.k])
  /\ s.phase = "remove" => Links(s) /\ Len(s.temps) = Len(s.sources) /\ s.k <= Len(s.temps) + 1

(* The temporary files that are still the process's own, and those it has  *)
(* removed.                                                                *)
Live(s) ==
  {s.temps[j] : j \in {m \in 1..Len(s.temps) : Working(s) /\ (s.phase = "remove" => s.k <= m)}}
Gone(s) ==
  {s.temps[j] : j \in {m \in 1..Len(s.temps) :
     (s.phase = "remove" /\ s.result = SUCCESS /\ m < s.k) \/ Succeeded(s)}}

(* What is in the files f of a process in state s. *)
Stored(s, f) ==
  /\ Live(s) \subseteq DOMAIN f
  /\ Compiling(s) /\ Links(s) => \A j \in 1..s.k - 1 : f[s.temps[j]] = ObjectOf(s.sources[j])
  /\ s.phase = "remove" => Executable(s) \in DOMAIN f /\ IsProgram(s, f[Executable(s)], "rw")
  /\ Succeeded(s) /\ Links(s) => Executable(s) \in DOMAIN f /\ IsProgram(s, f[Executable(s)], "rwx")
  /\ NamesObjects(s) /\ ~SameName(s) =>
       \A j \in 1..Len(s.sources) : (Compiling(s) /\ j < s.k) \/ Succeeded(s) =>
         /\ ObjectName(s.sources[j]) \in DOMAIN f
         /\ f[ObjectName(s.sources[j])] = ObjectOf(s.sources[j])

Own(s, f) == Parsed(s) /\ TempsNamed(s) /\ Advanced(s) /\ Stored(s, f)

Typed == /\ p = [q \in Procs |-> p[q]]
         /\ \A q \in Procs : p[q].args \in CommandLines[q] /\ p[q] \in States(p[q].args)

(* No process works with a temporary file of another. *)
Apart == \A q, r \in Procs : q # r => Live(p[q]) \cap Live(p[r]) = {}

(* A temporary file that was removed is there again only if it is made     *)
(* again, by another process.                                              *)
Reused == \A q \in Procs : \A t \in Gone(p[q]) \cap DOMAIN fs :
            \E r \in Procs \ {q} : t \in ToSet(p[r].temps)

(* Nobody writes what another is to link. *)
InputsKept == \A q \in Procs : Inputs(p[q].args) \cap DOMAIN fs = {}

(* The inductive invariant behind SuccessMeansDone. *)
DriverInv == Typed /\ (\A q \in Procs : Own(p[q], fs)) /\ Apart /\ Reused /\ InputsKept

-----------------------------------------------------------------------------
(* Counting arguments, one more or one less. *)
LEMMA CountProps ==
  ASSUME NEW args, NEW t, NEW n \in Nat
  PROVE  /\ Count(args, t, n) \in Nat /\ Count(args, t, 0) = 0
         /\ args[n + 1].t = t => Count(args, t, n + 1) = Count(args, t, n) + 1
         /\ args[n + 1].t # t => Count(args, t, n + 1) = Count(args, t, n)
         /\ \A m \in 0..n : Count(args, t, m) <= Count(args, t, n)
  <1> DEFINE C(m) == {x \in 1..m : args[x].t = t}
  <1>1. \A m \in Nat : IsFiniteSet(C(m)) /\ Cardinality(C(m)) \in Nat
    <2> SUFFICES ASSUME NEW m \in Nat PROVE IsFiniteSet(C(m)) /\ Cardinality(C(m)) \in Nat
      OBVIOUS
    <2>1. IsFiniteSet(1..m) /\ C(m) \subseteq 1..m
      BY FS_Interval
    <2>2. IsFiniteSet(C(m))
      BY <2>1, FS_Subset
    <2> QED BY <2>2, FS_CardinalityType
  <1>2. Count(args, t, 0) = 0
    <2>1. C(0) = {}
      OBVIOUS
    <2> QED BY <2>1, FS_EmptySet DEF Count
  <1>3. ASSUME args[n + 1].t = t PROVE Count(args, t, n + 1) = Count(args, t, n) + 1
    <2>1. C(n + 1) = C(n) \cup {n + 1} /\ n + 1 \notin C(n)
      BY <1>3
    <2>2. Cardinality(C(n) \cup {n + 1}) = Cardinality(C(n)) + 1
      BY <1>1, <2>1, FS_AddElement
    <2> QED BY <2>1, <2>2 DEF Count
  <1>4. ASSUME args[n + 1].t # t PROVE Count(args, t, n + 1) = Count(args, t, n)
    <2>1. C(n + 1) = C(n)
      BY <1>4
    <2> QED BY <2>1 DEF Count
  <1>5. ASSUME NEW m \in 0..n PROVE Count(args, t, m) <= Count(args, t, n)
    <2>1. C(m) \subseteq C(n)
      OBVIOUS
    <2>2. Cardinality(C(m)) <= Cardinality(C(n))
      BY <1>1, <2>1, FS_Subset
    <2> QED BY <2>2 DEF Count
  <1>6. Count(args, t, n) \in Nat
    BY <1>1 DEF Count
  <1> QED BY <1>2, <1>3, <1>4, <1>5, <1>6

(* The place of an argument among those of its type. *)
LEMMA CountPlace ==
  ASSUME NEW args, NEW t, NEW n \in Nat, NEW x \in 1..n, args[x].t = t
  PROVE  Count(args, t, x) \in 1..Count(args, t, n)
  <1>1. x - 1 \in Nat /\ (x - 1) + 1 = x /\ x \in 0..n
    OBVIOUS
  <1>2. Count(args, t, x) = Count(args, t, x - 1) + 1 /\ Count(args, t, x - 1) \in Nat
    BY <1>1, CountProps
  <1>3. Count(args, t, x) <= Count(args, t, n) /\ Count(args, t, n) \in Nat
    BY <1>1, CountProps
  <1> QED BY <1>2, <1>3

(* What the assumption says of one command line. *)
LEMMA Disjointness ==
  ASSUME Typed, NEW q \in Procs, NEW r \in Procs
  PROVE  /\ p[q] \in States(p[q].args) /\ NoFile \notin TempNames
         /\ p[q].args \in Seq(ToSet(p[q].args))
         /\ Outputs(p[q].args) \cap (TempNames \cup {NoFile}) = {}
         /\ Inputs(p[r].args) \cap (TempNames \cup Outputs(p[q].args)) = {}
         /\ q # r => Outputs(p[q].args) \cap Outputs(p[r].args) = {}
  BY DriverAssumption DEF Typed

(* Live and removed temporary files have been named. *)
LEMMA LiveProps ==
  ASSUME NEW args, NEW s \in States(args)
  PROVE  Live(s) \subseteq TempNames /\ Gone(s) \subseteq ToSet(s.temps)
         /\ ToSet(s.temps) \subseteq TempNames
  <1>1. s.temps \in Seq(TempNames)
    BY DEF States
  <1>2. \A j \in 1..Len(s.temps) : s.temps[j] \in TempNames /\ s.temps[j] \in ToSet(s.temps)
    BY <1>1 DEF ToSet
  <1>3. ToSet(s.temps) \subseteq TempNames
    BY <1>1 DEF ToSet
  <1> QED BY <1>2, <1>3 DEF Live, Gone

(* The executable and the objects of an accepted command line are among    *)
(* the files it may write.                                                 *)
LEMMA WritesOutputs ==
  ASSUME NEW args, NEW s \in States(args), args \in Seq(ToSet(args)), Scanned(s, Len(s.args))
  PROVE  /\ Executable(s) \in Outputs(args)
         /\ NamesObjects(s) => \A j \in 1..Len(s.sources) : ObjectName(s.sources[j]) \in Outputs(args)
  <1>1. s.args = args /\ s.output \in {NoFile} \cup Outputs(args)
        /\ s.sources \in Seq(OfType(args, "source"))
    BY DEF States
  <1>2. ASSUME s.output = NoFile
        PROVE  Outputs(args) = {<<"a.out">>} \cup {ObjectName(a) : a \in OfType(args, "source")}
    <2>1. \A x \in 1..Len(args) : args[x] \notin OutFlags(args)
      BY <1>1, <1>2 DEF Scanned
    <2>2. \A a \in ToSet(args) : \E x \in 1..Len(args) : a = args[x]
      BY DEF ToSet
    <2>3. OutFlags(args) \subseteq ToSet(args)
      BY DEF OutFlags, OfType
    <2>4. OutFlags(args) = {}
      BY <2>1, <2>2, <2>3
    <2> QED BY <2>4 DEF Outputs
  <1>3. \A j \in 1..Len(s.sources) : s.sources[j] \in OfType(args, "source")
    BY <1>1
  <1> QED BY <1>1, <1>2, <1>3 DEF Executable, NamesObjects

(* What a process relies on stays true while its own files stay. *)
LEMMA OwnFrame ==
  ASSUME NEW args, NEW s \in States(args), args \in Seq(ToSet(args)), NEW f, NEW g, Own(s, f),
         \A x \in Live(s) \cup Outputs(args) : x \in DOMAIN f => x \in DOMAIN g /\ g[x] = f[x]
  PROVE  Own(s, g)
  <1>1. Parsed(s) /\ TempsNamed(s) /\ Advanced(s) /\ Stored(s, f)
    BY DEF Own
  <1>2. s.args = args /\ s.k \in Nat \ {0} /\ s.temps \in Seq(TempNames) /\ Len(s.temps) \in Nat
        /\ Len(s.sources) \in Nat
    BY DEF States
  <1>3. Live(s) \subseteq DOMAIN g
    BY <1>1 DEF Stored
  <1>4. ASSUME Compiling(s), Links(s), NEW j \in 1..s.k - 1
        PROVE  g[s.temps[j]] = ObjectOf(s.sources[j])
    <2>1. j \in 1..Len(s.temps)
      BY <1>1, <1>2, <1>4 DEF Advanced, Compiling
    <2>2. s.temps[j] \in Live(s)
      BY <2>1, <1>4 DEF Live, Working, Compiling
    <2>3. s.temps[j] \in DOMAIN f /\ f[s.temps[j]] = ObjectOf(s.sources[j])
      BY <2>2, <1>1, <1>4 DEF Stored
    <2> QED BY <2>2, <2>3
  <1>5. ASSUME Working(s) \/ Succeeded(s)
        PROVE  /\ Executable(s) \in Outputs(args)
               /\ NamesObjects(s) => \A j \in 1..Len(s.sources) : ObjectName(s.sources[j]) \in Outputs(args)
    BY <1>1, <1>5, WritesOutputs DEF Parsed
  <1>6. s.phase = "remove" => Executable(s) \in DOMAIN g /\ IsProgram(s, g[Executable(s)], "rw")
    BY <1>1, <1>5 DEF Stored, Working
  <1>7. Succeeded(s) /\ Links(s) => Executable(s) \in DOMAIN g /\ IsProgram(s, g[Executable(s)], "rwx")
    BY <1>1, <1>5 DEF Stored
  <1>8. ASSUME NamesObjects(s), ~SameName(s), NEW j \in 1..Len(s.sources),
               (Compiling(s) /\ j < s.k) \/ Succeeded(s)
        PROVE  /\ ObjectName(s.sources[j]) \in DOMAIN g
               /\ g[ObjectName(s.sources[j])] = ObjectOf(s.sources[j])
    <2>1. /\ ObjectName(s.sources[j]) \in DOMAIN f
          /\ f[ObjectName(s.sources[j])] = ObjectOf(s.sources[j])
      BY <1>1, <1>8 DEF Stored
    <2>2. ObjectName(s.sources[j]) \in Outputs(args)
      BY <1>5, <1>8 DEF Working, Compiling
    <2> QED BY <2>1, <2>2
  <1> QED BY <1>1, <1>3, <1>4, <1>6, <1>7, <1>8 DEF Own, Stored

-----------------------------------------------------------------------------
(***************************************************************************)
(* How a process behaves towards the others: it changes no state but its   *)
(* own, touches no files but its outputs, its live temporary files and     *)
(* names that are free, and keeps its own part of the invariant.           *)
(***************************************************************************)
Behaves(q) ==
  /\ Typed'
  /\ \A r \in Procs \ {q} : p'[r] = p[r]
  /\ p'[q].args = p[q].args
  /\ Own(p'[q], fs')
  /\ ToSet(p[q].temps) \subseteq ToSet(p'[q].temps)
  /\ \A x \in DOMAIN fs : x \notin Live(p[q]) \cup Outputs(p[q].args) =>
       x \in DOMAIN fs' /\ fs'[x] = fs[x]
  /\ \A x \in DOMAIN fs' :
       x \in DOMAIN fs \/ x \in ToSet(p'[q].temps) \/ x \in Outputs(p[q].args)
  /\ Live(p'[q]) \subseteq Live(p[q]) \cup (TempNames \ DOMAIN fs)
  /\ Gone(p'[q]) \cap DOMAIN fs' \subseteq Gone(p[q]) \cap DOMAIN fs

(* Then the invariant of all of them is kept. *)
LEMMA BehavesKeeps ==
  ASSUME DriverInv, NEW q \in Procs, Behaves(q)
  PROVE  DriverInv'
  <1>1. Typed /\ (\A r \in Procs : Own(p[r], fs)) /\ Apart /\ Reused /\ InputsKept
    BY DEF DriverInv
  <1>2. ASSUME NEW r \in Procs
        PROVE  /\ Live(p[r]) \subseteq TempNames /\ Gone(p[r]) \subseteq TempNames
               /\ Live(p[r]) \subseteq DOMAIN fs
    <2>1. p[r] \in States(p[r].args)
      BY <1>1 DEF Typed
    <2>2. Live(p[r]) \subseteq TempNames /\ Gone(p[r]) \subseteq TempNames
      BY <2>1, LiveProps
    <2> QED BY <2>2, <1>1 DEF Own, Stored
  <1>3. Typed' /\ \A r \in Procs \ {q} : p'[r] = p[r]
    BY DEF Behaves
  <1>4. ASSUME NEW r \in Procs PROVE Own(p'[r], fs')
    <2>1. CASE r = q
      BY <2>1 DEF Behaves
    <2>2. CASE r # q
      <3>1. p'[r] = p[r] /\ Own(p[r], fs)
        BY <2>2, <1>1, <1>3
      <3>2. p[r] \in States(p[r].args) /\ p[r].args \in Seq(ToSet(p[r].args))
        BY <1>1, Disjointness
      <3>3. ASSUME NEW x \in Live(p[r]) \cup Outputs(p[r].args), x \in DOMAIN fs
            PROVE  x \in DOMAIN fs' /\ fs'[x] = fs[x]
        <4>1. CASE x \in Live(p[r])
          <5>1. x \notin Live(p[q])
            BY <4>1, <2>2, <1>1 DEF Apart
          <5>2. x \notin Outputs(p[q].args)
            BY <4>1, <1>1, <1>2, Disjointness
          <5> QED BY <5>1, <5>2, <3>3 DEF Behaves
        <4>2. CASE x \in Outputs(p[r].args)
          <5>1. x \notin Live(p[q])
            BY <4>2, <1>1, <1>2, Disjointness
          <5>2. x \notin Outputs(p[q].args)
            BY <4>2, <2>2, <1>1, Disjointness
          <5> QED BY <5>1, <5>2, <3>3 DEF Behaves
        <4> QED BY <4>1, <4>2, <3>3
      <3>4. Own(p[r], fs')
        BY <3>1, <3>2, <3>3, OwnFrame
      <3> QED BY <3>1, <3>4
    <2> QED BY <2>1, <2>2
  <1>5. Apart'
    <2>1. ASSUME NEW r \in Procs, r # q PROVE Live(p'[q]) \cap Live(p'[r]) = {}
      <3>1. p'[r] = p[r] /\ Live(p[q]) \cap Live(p[r]) = {} /\ Live(p[r]) \subseteq DOMAIN fs
        BY <2>1, <1>1, <1>2, <1>3 DEF Apart
      <3>2. Live(p'[q]) \subseteq Live(p[q]) \cup (TempNames \ DOMAIN fs)
        BY DEF Behaves
      <3> QED BY <3>1, <3>2
    <2>2. ASSUME NEW r \in Procs, NEW u \in Procs, r # u PROVE Live(p'[u]) \cap Live(p'[r]) = {}
      <3>1. CASE r = q \/ u = q
        BY <3>1, <2>1, <2>2
      <3>2. CASE r # q /\ u # q
        BY <3>2, <2>2, <1>1, <1>3 DEF Apart
      <3> QED BY <3>1, <3>2
    <2> QED BY <2>2 DEF Apart
  <1>6. Reused'
    <2> SUFFICES ASSUME NEW r \in Procs, NEW t \in Gone(p'[r]), t \in DOMAIN fs'
                 PROVE  \E u \in Procs \ {r} : t \in ToSet(p'[u].temps)
      BY DEF Reused
    <2>1. \A u \in Procs : ToSet(p[u].temps) \subseteq ToSet(p'[u].temps)
      <3>1. ToSet(p[q].temps) \subseteq ToSet(p'[q].temps)
        BY DEF Behaves
      <3> QED BY <3>1, <1>3
    <2>2. CASE r = q
      <3>1. t \in Gone(p[q]) /\ t \in DOMAIN fs
        BY <2>2 DEF Behaves
      <3>2. PICK u \in Procs \ {q} : t \in ToSet(p[u].temps)
        BY <3>1, <1>1 DEF Reused
      <3> QED BY <3>2, <2>1, <2>2
    <2>3. CASE r # q
      <3>1. t \in Gone(p[r]) /\ t \in TempNames
        BY <2>3, <1>2, <1>3
      <3>2. t \in DOMAIN fs \/ t \in ToSet(p'[q].temps)
        BY <3>1, <1>1, Disjointness DEF Behaves
      <3>3. CASE t \in DOMAIN fs
        <4>1. PICK u \in Procs \ {r} : t \in ToSet(p[u].temps)
          BY <3>1, <3>3, <1>1 DEF Reused
        <4> QED BY <4>1, <2>1
      <3>4. CASE t \in ToSet(p'[q].temps)
        BY <3>4, <2>3
      <3> QED BY <3>2, <3>3, <3>4
    <2> QED BY <2>2, <2>3
  <1>7. InputsKept'
    <2> SUFFICES ASSUME NEW r \in Procs, NEW x \in Inputs(p'[r].args), x \in DOMAIN fs' PROVE FALSE
      BY DEF InputsKept
    <2>1. p'[r].args = p[r].args
      BY <1>3 DEF Behaves
    <2>2. x \notin DOMAIN fs
      BY <2>1, <1>1 DEF InputsKept
    <2>3. x \in ToSet(p'[q].temps) \/ x \in Outputs(p[q].args)
      BY <2>2 DEF Behaves
    <2>4. ToSet(p'[q].temps) \subseteq TempNames
      <3>1. p'[q] \in States(p'[q].args)
        BY <1>3 DEF Typed
      <3> QED BY <3>1, LiveProps
    <2>5. Inputs(p[r].args) \cap (TempNames \cup Outputs(p[q].args)) = {}
      BY <1>1, Disjointness
    <2> QED BY <2>1, <2>3, <2>4, <2>5
  <1> QED BY <1>3, <1>4, <1>5, <1>6, <1>7 DEF DriverInv

-----------------------------------------------------------------------------
(* A step of q to the state t. *)
LEMMA StepTyped ==
  ASSUME Typed, NEW q \in Procs, NEW t \in States(p[q].args), p' = [p EXCEPT ![q] = t]
  PROVE  Typed' /\ p'[q] = t /\ (\A r \in Procs \ {q} : p'[r] = p[r]) /\ t.args = p[q].args
  <1>1. p = [r \in Procs |-> p[r]]
    BY DEF Typed
  <1>2. p'[q] = t /\ (\A r \in Procs \ {q} : p'[r] = p[r]) /\ p' = [r \in Procs |-> p'[r]]
    BY <1>1
  <1>3. t.args = p[q].args
    BY DEF States
  <1>4. \A r \in Procs : p'[r].args \in CommandLines[r] /\ p'[r] \in States(p'[r].args)
    <2> SUFFICES ASSUME NEW r \in Procs
                 PROVE  p'[r].args \in CommandLines[r] /\ p'[r] \in States(p'[r].args)
      OBVIOUS
    <2>1. CASE r = q
      BY <2>1, <1>2, <1>3 DEF Typed
    <2>2. CASE r # q
      BY <2>2, <1>2 DEF Typed
    <2> QED BY <2>1, <2>2
  <1> QED BY <1>2, <1>3, <1>4 DEF Typed

(* A step that leaves the files and the temporary names alone. *)
LEMMA QuietStep ==
  ASSUME Typed, NEW q \in Procs, NEW t \in States(p[q].args), p' = [p EXCEPT ![q] = t],
         UNCHANGED fs, Own(t, fs), t.temps = p[q].temps,
         Live(t) \subseteq Live(p[q]), Gone(t) \subseteq Gone(p[q])
  PROVE  Behaves(q)
  BY StepTyped DEF Behaves

(* The state at another place in main(). *)
Moved(s, phase, k) == [s EXCEPT !.phase = phase, !.k = k]

LEMMA MovedProps ==
  ASSUME NEW args, NEW s \in States(args), NEW phase \in {"name", "remove"}, NEW k \in Nat \ {0},
         NEW t, t = Moved(s, phase, k)
  PROVE  /\ t \in States(args) /\ t.phase = phase /\ t.k = k /\ t.args = s.args
         /\ t.sources = s.sources /\ t.inputs = s.inputs /\ t.temps = s.temps
         /\ t.output = s.output /\ t.link = s.link /\ t.pre = s.pre /\ t.syntax = s.syntax
         /\ t.freestanding = s.freestanding /\ t.result = s.result
  <1>1. t \in States(args)
    BY DEF Moved, States
  <1> QED BY <1>1 DEF Moved, States

(* A process that gives up has nothing more to answer for. *)
LEMMA GivesUp ==
  ASSUME NEW args, NEW s \in States(args), NEW t \in States(args), NEW f, TempsNamed(s),
         t.phase = "exit", t.temps = s.temps, t.link = s.link, t.pre = s.pre, t.syntax = s.syntax,
         ~Succeeded(t)
  PROVE  Own(t, f) /\ Live(t) = {} /\ Gone(t) = {}
  <1>1. ~Working(t) /\ ~Compiling(t)
    BY DEF Working, Compiling
  <1>2. Live(t) = {} /\ Gone(t) = {}
    BY <1>1 DEF Live, Gone
  <1>3. TempsNamed(t)
    BY <1>1 DEF TempsNamed, Links
  <1>4. Parsed(t) /\ Advanced(t)
    BY <1>1 DEF Parsed, Advanced
  <1>5. Stored(t, f)
    BY <1>1, <1>2 DEF Stored
  <1> QED BY <1>2, <1>3, <1>4, <1>5 DEF Own

(* The state after exit(code). *)
Exited(s, code) == [s EXCEPT !.phase = "exit", !.code = code]

LEMMA ExitProps ==
  ASSUME Typed, NEW q \in Procs, NEW code \in Int, Exit(q, code)
  PROVE  LET t == Exited(p[q], code)
         IN  /\ p' = [p EXCEPT ![q] = t] /\ t \in States(p[q].args) /\ t.code = code
             /\ t.phase = "exit" /\ t.temps = p[q].temps /\ t.link = p[q].link /\ t.pre = p[q].pre
             /\ t.syntax = p[q].syntax /\ t.args = p[q].args /\ t.output = p[q].output
             /\ t.sources = p[q].sources /\ t.inputs = p[q].inputs
             /\ t.freestanding = p[q].freestanding
  <1>1. p[q] \in States(p[q].args) /\ p = [r \in Procs |-> p[r]]
    BY DEF Typed
  <1>2. p' = [p EXCEPT ![q] = Exited(p[q], code)]
    BY <1>1 DEF Exit, Exited
  <1>3. Exited(p[q], code) \in States(p[q].args)
    BY <1>1 DEF States, Exited
  <1> QED BY <1>1, <1>2, <1>3 DEF States, Exited

(* So an exit with an error that leaves the files alone behaves. *)
LEMMA QuietExit ==
  ASSUME DriverInv, NEW q \in Procs, NEW code \in Int, Exit(q, code), UNCHANGED fs,
         code # SUCCESS \/ \E a \in ToSet(p[q].args) : a.t = "flag" /\ a.name = "--version"
  PROVE  Behaves(q)
  <1> DEFINE t == Exited(p[q], code)
  <1>1. p[q] \in States(p[q].args) /\ TempsNamed(p[q]) /\ Typed
    BY DEF DriverInv, Typed, Own
  <1>2. /\ p' = [p EXCEPT ![q] = t] /\ t \in States(p[q].args) /\ t.code = code
        /\ t.phase = "exit" /\ t.temps = p[q].temps /\ t.link = p[q].link /\ t.pre = p[q].pre
        /\ t.syntax = p[q].syntax /\ t.args = p[q].args
    BY <1>1, ExitProps
  <1> HIDE DEF t
  <1>3. ~Succeeded(t)
    BY <1>2 DEF Succeeded
  <1>4. Own(t, fs) /\ Live(t) = {} /\ Gone(t) = {}
    BY <1>1, <1>2, <1>3, GivesUp
  <1> QED BY <1>1, <1>2, <1>4, QuietStep

-----------------------------------------------------------------------------
(* The command line *)
LEMMA WhileParsing ==
  ASSUME NEW args, NEW t \in States(args), NEW f, t.phase = "args", t.temps = <<>>, Scanned(t, t.k - 1)
  PROVE  Own(t, f) /\ Live(t) = {} /\ Gone(t) = {}
  <1>1. ~Working(t) /\ ~Compiling(t) /\ ~Succeeded(t) /\ Len(t.temps) = 0
    BY DEF Working, Compiling, Succeeded
  <1>2. Live(t) = {} /\ Gone(t) = {}
    BY <1>1 DEF Live, Gone
  <1>3. Parsed(t)
    BY <1>1 DEF Parsed
  <1>4. TempsNamed(t) /\ Advanced(t)
    BY <1>1 DEF TempsNamed, Advanced
  <1>5. Stored(t, f)
    BY <1>1, <1>2 DEF Stored
  <1> QED BY <1>2, <1>3, <1>4, <1>5 DEF Own

LEMMA TakeFlagBehaves ==
  ASSUME DriverInv, NEW q \in Procs, TakeFlag(q)
  PROVE  Behaves(q)
  <1> DEFINE s == p[q]
             a == Arg(q)
             u == Record(s, a)
             t == Step(u)
  <1>1. s \in States(s.args) /\ Own(s, fs) /\ Typed /\ s.args \in Seq(ToSet(s.args))
        /\ Outputs(s.args) \cap (TempNames \cup {NoFile}) = {}
    BY Disjointness DEF DriverInv
  <1>2. /\ s.phase = "args" /\ s.k <= Len(s.args) /\ a.t = "flag" /\ a = s.args[s.k]
        /\ p' = [p EXCEPT ![q] = t] /\ UNCHANGED fs
    BY DEF TakeFlag, Parsing, Arg
  <1>3. s.k \in Nat \ {0} /\ Len(s.args) \in Nat /\ s.k \in 1..Len(s.args)
    BY <1>1, <1>2 DEF States
  <1>4. a \in ToSet(s.args)
    BY <1>1, <1>2, <1>3 DEF ToSet
  <1>5. a.name = "-o" => a \in OutFlags(s.args) /\ a.path \in Outputs(s.args) /\ a.path # NoFile
    BY <1>1, <1>2, <1>4 DEF OutFlags, OfType, Outputs
  <1>6. a.name # "-o" => a \notin OutFlags(s.args)
    BY DEF OutFlags
  <1>7. Parsed(s) /\ TempsNamed(s) /\ Scanned(s, s.k - 1) /\ s.temps = <<>>
    BY <1>1, <1>2 DEF Own, Parsed
  <1> HIDE DEF a, s
  <1>8. u \in States(s.args)
    BY <1>1, <1>5 DEF Record, States
  <1>9. /\ u.k = s.k /\ u.phase = s.phase /\ u.sources = s.sources /\ u.inputs = s.inputs
        /\ u.temps = s.temps /\ u.args = s.args
        /\ u.output = IF a.name = "-o" THEN a.path ELSE s.output
    BY <1>1 DEF Record, States
  <1> HIDE DEF u
  <1>10. /\ t \in States(s.args)
         /\ t.k = s.k + 1 /\ t.phase = "args" /\ t.sources = s.sources /\ t.inputs = s.inputs
         /\ t.temps = <<>> /\ t.args = s.args
         /\ t.output = IF a.name = "-o" THEN a.path ELSE s.output
    <2>1. t \in States(s.args)
      <3>1. u.k + 1 \in Nat \ {0}
        BY <1>3, <1>9
      <3> QED BY <3>1, <1>8 DEF Step, States
    <2>2. /\ t.k = u.k + 1 /\ t.phase = u.phase /\ t.sources = u.sources /\ t.inputs = u.inputs
          /\ t.temps = u.temps /\ t.args = u.args /\ t.output = u.output
      BY <1>8 DEF Step, States
    <2> QED BY <2>1, <2>2, <1>2, <1>7, <1>9
  <1> HIDE DEF t
  <1>11. Scanned(t, s.k)
    <2>1. s.k - 1 \in Nat /\ (s.k - 1) + 1 = s.k
      BY <1>3
    <2>2. Count(s.args, "source", s.k) = Count(s.args, "source", s.k - 1)
          /\ Count(s.args, "object", s.k) = Count(s.args, "object", s.k - 1)
      BY <2>1, <1>2, CountProps
    <2>3. \A x \in 1..s.k : x \in 1..(s.k - 1) \/ x = s.k
      BY <1>3
    <2>4. ASSUME t.output = NoFile, NEW x \in 1..s.k PROVE s.args[x] \notin OutFlags(s.args)
      BY <2>3, <2>4, <1>2, <1>5, <1>6, <1>7, <1>10 DEF Scanned
    <2>5. ASSUME NEW x \in 1..s.k
          PROVE  /\ s.args[x].t = "source" => s.sources[Count(s.args, "source", x)] = s.args[x]
                 /\ s.args[x].t = "object" => s.inputs[Count(s.args, "object", x)] = s.args[x].path
      BY <2>3, <1>2, <1>7 DEF Scanned
    <2>6. Len(s.sources) = Count(s.args, "source", s.k)
          /\ Len(s.inputs) = Count(s.args, "object", s.k) + Len(s.temps)
      BY <2>2, <1>7 DEF Scanned
    <2>7. s.k \in 0..Len(s.args)
      BY <1>3
    <2> QED BY <2>4, <2>5, <2>6, <2>7, <1>7, <1>10 DEF Scanned
  <1>12. t.k - 1 = s.k
    BY <1>3, <1>10
  <1>13. Own(t, fs) /\ Live(t) = {} /\ Gone(t) = {}
    BY <1>10, <1>11, <1>12, WhileParsing
  <1> QED BY <1>1, <1>2, <1>7, <1>10, <1>13, QuietStep DEF s

LEMMA FlagEndsBehaves ==
  ASSUME DriverInv, NEW q \in Procs, FlagEnds(q)
  PROVE  Behaves(q)
  <1> DEFINE s == p[q]
             a == Arg(q)
             c == CASE a.name = "--version" -> SUCCESS
                    [] a.name = "-std=c11" -> UNIMPLEMENTED
                    [] OTHER -> BAD_CLI
  <1>1. s \in States(s.args) /\ Typed /\ s.args \in Seq(ToSet(s.args))
    BY Disjointness DEF DriverInv
  <1>2. /\ s.k <= Len(s.args) /\ a.t = "flag" /\ a = s.args[s.k] /\ Exit(q, c) /\ UNCHANGED fs
    BY DEF FlagEnds, Parsing, Arg
  <1>3. s.k \in 1..Len(s.args)
    BY <1>1, <1>2 DEF States
  <1>4. a \in ToSet(s.args)
    BY <1>1, <1>2, <1>3 DEF ToSet
  <1>5. c \in Int /\ (c # SUCCESS \/ a.name = "--version")
    <2>1. CASE a.name = "--version"
      BY <2>1 DEF SUCCESS
    <2>2. CASE a.name = "-std=c11"
      BY <2>2 DEF SUCCESS, UNIMPLEMENTED
    <2>3. CASE a.name # "--version" /\ a.name # "-std=c11"
      BY <2>3 DEF SUCCESS, BAD_CLI
    <2> QED BY <2>1, <2>2, <2>3
  <1> HIDE DEF c
  <1> QED BY <1>2, <1>4, <1>5, QuietExit

LEMMA TakeFileBehaves ==
  ASSUME DriverInv, NEW q \in Procs, TakeFile(q)
  PROVE  Behaves(q)
  <1> DEFINE s == p[q]
             a == Arg(q)
             u == Keep(s, a)
             t == Step(u)
  <1>1. s \in States(s.args) /\ Own(s, fs) /\ Typed /\ s.args \in Seq(ToSet(s.args))
    BY Disjointness DEF DriverInv
  <1>2. /\ s.phase = "args" /\ s.k <= Len(s.args) /\ a.t \in {"source", "object"}
        /\ a = s.args[s.k] /\ UNCHANGED fs
    BY DEF TakeFile, Parsing, Arg
  <1>3. p' = [p EXCEPT ![q] = t]
    BY DEF TakeFile
  <1>4. s.k \in Nat \ {0} /\ Len(s.args) \in Nat /\ s.k \in 1..Len(s.args)
        /\ s.sources \in Seq(OfType(s.args, "source"))
        /\ s.inputs \in Seq(Inputs(s.args) \cup TempNames)
    BY <1>1, <1>2 DEF States
  <1>5. a \in ToSet(s.args)
    BY <1>1, <1>2, <1>4 DEF ToSet
  <1>6. Scanned(s, s.k - 1) /\ s.temps = <<>>
    BY <1>1, <1>2 DEF Own, Parsed
  <1>7. a \notin OutFlags(s.args)
    BY <1>2 DEF OutFlags, OfType
  <1>8. a.t = "source" => a \in OfType(s.args, "source")
    BY <1>5 DEF OfType
  <1>9. a.t = "object" => a.path \in Inputs(s.args) \cup TempNames
    BY <1>5 DEF OfType, Inputs
  <1> DEFINE sources == IF a.t = "object" THEN s.sources ELSE Append(s.sources, a)
             inputs == IF a.t = "object" THEN Append(s.inputs, a.path) ELSE s.inputs
  <1>10. sources \in Seq(OfType(s.args, "source")) /\ inputs \in Seq(Inputs(s.args) \cup TempNames)
    <2> HIDE DEF a, s
    <2>1. CASE a.t = "object"
      BY <2>1, <1>4, <1>9, AppendedProps
    <2>2. CASE a.t = "source"
      BY <2>2, <1>4, <1>8, AppendedProps
    <2> QED BY <1>2, <2>1, <2>2
  <1>11. u = [s EXCEPT !.sources = sources, !.inputs = inputs]
    BY <1>1 DEF States, Keep
  <1> HIDE DEF a, s, u, sources, inputs
  <1>12. /\ u \in States(s.args) /\ u.k = s.k /\ u.phase = s.phase /\ u.sources = sources
         /\ u.inputs = inputs /\ u.temps = s.temps /\ u.args = s.args /\ u.output = s.output
    BY <1>1, <1>10, <1>11 DEF States
  <1>13. u.k + 1 \in Nat \ {0}
    BY <1>4, <1>12
  <1>14. /\ t \in States(s.args) /\ t.k = u.k + 1 /\ t.phase = u.phase /\ t.sources = u.sources
         /\ t.inputs = u.inputs /\ t.temps = u.temps /\ t.args = u.args /\ t.output = u.output
    BY <1>12, <1>13 DEF Step, States
  <1> HIDE DEF t
  <1>15. /\ t.k = s.k + 1 /\ t.phase = "args" /\ t.sources = sources /\ t.inputs = inputs
         /\ t.temps = <<>> /\ t.args = s.args /\ t.output = s.output
    BY <1>2, <1>6, <1>12, <1>14
  <1>16. Scanned(t, s.k)
    <2>1. s.k - 1 \in Nat /\ (s.k - 1) + 1 = s.k
      BY <1>4
    <2> DEFINE cs(x) == Count(s.args, "source", x)
               co(x) == Count(s.args, "object", x)
    <2>2. /\ a.t = "source" => cs(s.k) = cs(s.k - 1) + 1 /\ co(s.k) = co(s.k - 1)
          /\ a.t = "object" => cs(s.k) = cs(s.k - 1) /\ co(s.k) = co(s.k - 1) + 1
          /\ cs(s.k - 1) \in Nat /\ co(s.k - 1) \in Nat
      BY <2>1, <1>2, CountProps
    <2>3. \A x \in 1..s.k : x \in 1..(s.k - 1) \/ x = s.k
      BY <1>4
    <2>4. /\ Len(s.sources) = cs(s.k - 1) /\ Len(s.inputs) = co(s.k - 1) + Len(s.temps)
          /\ Len(s.temps) = 0
      BY <1>6 DEF Scanned
    <2>5. \A x \in 1..(s.k - 1) :
            /\ s.args[x].t = "source" => cs(x) \in 1..Len(s.sources) /\ s.sources[cs(x)] = s.args[x]
            /\ s.args[x].t = "object" => co(x) \in 1..Len(s.inputs) /\ s.inputs[co(x)] = s.args[x].path
      <3> SUFFICES ASSUME NEW x \in 1..(s.k - 1)
                   PROVE  /\ s.args[x].t = "source" =>
                               cs(x) \in 1..Len(s.sources) /\ s.sources[cs(x)] = s.args[x]
                          /\ s.args[x].t = "object" =>
                               co(x) \in 1..Len(s.inputs) /\ s.inputs[co(x)] = s.args[x].path
        OBVIOUS
      <3>1. s.args[x].t = "source" => cs(x) \in 1..cs(s.k - 1)
        BY <2>1, CountPlace
      <3>2. s.args[x].t = "object" => co(x) \in 1..co(s.k - 1)
        BY <2>1, CountPlace
      <3>3. co(s.k - 1) + 0 = co(s.k - 1)
        BY <2>2
      <3> QED BY <3>1, <3>2, <3>3, <2>4, <1>6 DEF Scanned
    <2>6. s.output = NoFile => \A x \in 1..s.k : s.args[x] \notin OutFlags(s.args)
      BY <2>3, <1>2, <1>6, <1>7 DEF Scanned
    <2> HIDE DEF cs, co
    <2>7. CASE a.t = "source"
      <3>1. inputs = s.inputs /\ Len(sources) = Len(s.sources) + 1
            /\ sources[Len(s.sources) + 1] = a
            /\ \A m \in 1..Len(s.sources) : sources[m] = s.sources[m]
        BY <2>7, <1>4, <1>8, AppendedProps DEF sources, inputs
      <3>2. cs(s.k) = Len(s.sources) + 1 /\ co(s.k) = co(s.k - 1)
        BY <2>2, <2>4, <2>7
      <3>3. \A x \in 1..s.k :
              /\ s.args[x].t = "source" => sources[cs(x)] = s.args[x]
              /\ s.args[x].t = "object" => inputs[co(x)] = s.args[x].path
        <4> SUFFICES ASSUME NEW x \in 1..s.k
                     PROVE  /\ s.args[x].t = "source" => sources[cs(x)] = s.args[x]
                            /\ s.args[x].t = "object" => inputs[co(x)] = s.args[x].path
          OBVIOUS
        <4>1. CASE x = s.k
          BY <4>1, <3>1, <3>2, <2>7, <1>2
        <4>2. CASE x \in 1..(s.k - 1)
          BY <4>2, <3>1, <2>5
        <4> QED BY <4>1, <4>2, <2>3
      <3>4. Len(t.sources) = cs(s.k) /\ Len(t.inputs) = co(s.k) + Len(t.temps)
        BY <3>1, <3>2, <2>2, <2>4, <1>6, <1>15
      <3>5. s.k \in 0..Len(s.args)
        BY <1>4
      <3> QED BY <3>3, <3>4, <3>5, <2>6, <1>15 DEF Scanned, cs, co
    <2>8. CASE a.t = "object"
      <3>1. sources = s.sources /\ Len(inputs) = Len(s.inputs) + 1
            /\ inputs[Len(s.inputs) + 1] = a.path
            /\ \A m \in 1..Len(s.inputs) : inputs[m] = s.inputs[m]
        BY <2>8, <1>4, <1>9, AppendedProps DEF sources, inputs
      <3>2. co(s.k) = Len(s.inputs) + 1 /\ cs(s.k) = cs(s.k - 1) /\ Len(inputs) = co(s.k) + 0
        BY <3>1, <2>2, <2>4, <2>8
      <3>3. \A x \in 1..s.k :
              /\ s.args[x].t = "source" => sources[cs(x)] = s.args[x]
              /\ s.args[x].t = "object" => inputs[co(x)] = s.args[x].path
        <4> SUFFICES ASSUME NEW x \in 1..s.k
                     PROVE  /\ s.args[x].t = "source" => sources[cs(x)] = s.args[x]
                            /\ s.args[x].t = "object" => inputs[co(x)] = s.args[x].path
          OBVIOUS
        <4>1. CASE x = s.k
          BY <4>1, <3>1, <3>2, <2>8, <1>2
        <4>2. CASE x \in 1..(s.k - 1)
          BY <4>2, <3>1, <2>5
        <4> QED BY <4>1, <4>2, <2>3
      <3>4. Len(t.sources) = cs(s.k) /\ Len(t.inputs) = co(s.k) + Len(t.temps)
        BY <3>1, <3>2, <2>2, <2>4, <1>6, <1>15
      <3>5. s.k \in 0..Len(s.args)
        BY <1>4
      <3> QED BY <3>3, <3>4, <3>5, <2>6, <1>15 DEF Scanned, cs, co
    <2> QED BY <2>7, <2>8, <1>2
  <1>17. t.k - 1 = s.k
    BY <1>4, <1>15
  <1>18. Own(t, fs) /\ Live(t) = {} /\ Gone(t) = {}
    BY <1>14, <1>15, <1>16, <1>17, WhileParsing
  <1> QED BY <1>1, <1>2, <1>3, <1>6, <1>14, <1>15, <1>18, QuietStep DEF s

LEMMA MissingInputBehaves ==
  ASSUME DriverInv, NEW q \in Procs, MissingInput(q)
  PROVE  Behaves(q)
  <1>1. Exit(q, IO_ERROR) /\ UNCHANGED fs /\ IO_ERROR \in Int /\ IO_ERROR # SUCCESS
    BY DEF MissingInput, IO_ERROR, SUCCESS
  <1> QED BY <1>1, QuietExit

LEMMA CheckCommandLineBehaves ==
  ASSUME DriverInv, NEW q \in Procs, CheckCommandLine(q)
  PROVE  Behaves(q)
  <1> DEFINE s == p[q]
             t == Moved(s, "name", 1)
  <1>1. s \in States(s.args) /\ Own(s, fs) /\ Typed /\ s.args \in Seq(ToSet(s.args))
    BY Disjointness DEF DriverInv
  <1>2. s.phase = "args" /\ s.k > Len(s.args) /\ UNCHANGED fs
    BY DEF CheckCommandLine
  <1>3. CASE Exit(q, BAD_CLI)
    <2>1. BAD_CLI \in Int /\ BAD_CLI # SUCCESS
      BY DEF BAD_CLI, SUCCESS
    <2> QED BY <2>1, <1>2, <1>3, QuietExit
  <1>4. CASE p' = [p EXCEPT ![q].phase = "name", ![q].k = 1]
    <2>1. p' = [p EXCEPT ![q] = t]
      BY <1>1, <1>4 DEF Typed, Moved
    <2>2. /\ t \in States(s.args) /\ t.phase = "name" /\ t.k = 1 /\ t.sources = s.sources
          /\ t.inputs = s.inputs /\ t.temps = s.temps /\ t.args = s.args /\ t.output = s.output
      <3>1. 1 \in Nat \ {0}
        OBVIOUS
      <3> QED BY <1>1, <3>1, MovedProps
    <2> HIDE DEF t
    <2>3. Scanned(s, s.k - 1) /\ s.temps = <<>>
      BY <1>1, <1>2 DEF Own, Parsed
    <2>4. s.k - 1 = Len(s.args)
      BY <2>3, <1>1, <1>2 DEF Scanned, States
    <2>5. Scanned(t, Len(t.args))
      BY <2>2, <2>3, <2>4 DEF Scanned
    <2>6. Len(t.temps) = 0 /\ Len(t.sources) \in Nat /\ t.temps = <<>>
      BY <2>2, <2>3 DEF States
    <2>7. Live(t) = {} /\ Gone(t) = {}
      BY <2>6 DEF Live, Gone
    <2>8. Own(t, fs)
      <3>1. Parsed(t)
        BY <2>2, <2>5 DEF Parsed
      <3>2. TempsNamed(t) /\ Advanced(t)
        BY <2>2, <2>6 DEF TempsNamed, Advanced
      <3>3. Stored(t, fs)
        BY <2>2, <2>6, <2>7 DEF Stored, Compiling, Succeeded
      <3> QED BY <3>1, <3>2, <3>3 DEF Own
    <2> QED BY <1>1, <1>2, <2>1, <2>2, <2>7, <2>8, QuietStep DEF s
  <1> QED BY <1>3, <1>4 DEF CheckCommandLine
-----------------------------------------------------------------------------
(* Compiling *)
LEMMA NameObjectBehaves ==
  ASSUME DriverInv, NEW q \in Procs, NameObject(q)
  PROVE  Behaves(q)
  <1> DEFINE s == p[q]
             object == CASE s.pre -> s.output
                         [] s.syntax /\ ~s.pre -> NoFile
                         [] OTHER -> IF s.output # NoFile THEN s.output ELSE ObjectName(Source(q))
             t == [s EXCEPT !.phase = "compile", !.object = object]
  <1>1. /\ s \in States(s.args) /\ Own(s, fs) /\ Typed /\ s.args \in Seq(ToSet(s.args))
        /\ Outputs(s.args) \cap (TempNames \cup {NoFile}) = {} /\ NoFile \notin TempNames
    BY Disjointness DEF DriverInv
  <1>2. /\ s.phase = "name" /\ s.k <= Len(s.sources) /\ UNCHANGED fs
        /\ s.pre \/ s.syntax \/ ~s.link
        /\ Source(q) = s.sources[s.k]
    BY DEF NameObject, Naming, Source
  <1>3. p' = [p EXCEPT ![q] = t]
    BY <1>1 DEF NameObject, ToCompile, Typed
  <1>4. /\ s.k \in Nat \ {0} /\ Len(s.sources) \in Nat /\ s.k \in 1..Len(s.sources)
        /\ s.output \in {NoFile} \cup Outputs(s.args)
    BY <1>1, <1>2 DEF States
  <1>5. Scanned(s, Len(s.args)) /\ TempsNamed(s) /\ Advanced(s) /\ Stored(s, fs) /\ ~Links(s)
    BY <1>1, <1>2 DEF Own, Parsed, Working, Links
  <1>6. NamesObjects(s) => ObjectName(s.sources[s.k]) \in Outputs(s.args)
    BY <1>1, <1>4, <1>5, WritesOutputs
  <1>7. object \in {NoFile} \cup Outputs(s.args)
    BY <1>2, <1>4, <1>6 DEF NamesObjects, Source
  <1>8. NamesObjects(s) => object = ObjectName(s.sources[s.k])
    BY DEF NamesObjects, Source
  <1> HIDE DEF s, object
  <1>9. t \in States(s.args)
    BY <1>1, <1>7 DEF States
  <1>10. /\ t.phase = "compile" /\ t.object = object /\ t.k = s.k /\ t.args = s.args
         /\ t.sources = s.sources /\ t.inputs = s.inputs /\ t.temps = s.temps
         /\ t.output = s.output /\ t.link = s.link /\ t.pre = s.pre /\ t.syntax = s.syntax
    BY <1>1 DEF States
  <1> HIDE DEF t
  <1>11. Links(t) = Links(s) /\ NamesObjects(t) = NamesObjects(s) /\ SameName(t) = SameName(s)
    BY <1>10 DEF Links, NamesObjects, SameName
  <1>12. s.temps = <<>> /\ Len(t.temps) = 0
    BY <1>5, <1>10 DEF TempsNamed
  <1>13. Live(t) = {} /\ Gone(t) = {}
    BY <1>12 DEF Live, Gone
  <1>14. Parsed(t)
    BY <1>5, <1>10 DEF Parsed, Scanned
  <1>15. TempsNamed(t)
    BY <1>10, <1>12 DEF TempsNamed
  <1>16. Advanced(t)
    <2>1. object \notin TempNames
      BY <1>1, <1>7
    <2> QED BY <2>1, <1>2, <1>4, <1>5, <1>8, <1>10, <1>11 DEF Advanced
  <1>17. Stored(t, fs)
    <2>1. Compiling(t) /\ Compiling(s) /\ ~Succeeded(t)
      BY <1>2, <1>10 DEF Compiling, Succeeded
    <2> QED BY <2>1, <1>5, <1>10, <1>11, <1>13 DEF Stored
  <1> QED BY <1>1, <1>2, <1>3, <1>9, <1>10, <1>13, <1>14, <1>15, <1>16, <1>17, QuietStep DEF s, Own

LEMMA TempFileFailsBehaves ==
  ASSUME DriverInv, NEW q \in Procs, TempFileFails(q)
  PROVE  Behaves(q)
  <1>1. Exit(q, IO_ERROR) /\ UNCHANGED fs /\ IO_ERROR \in Int /\ IO_ERROR # SUCCESS
    BY DEF TempFileFails, IO_ERROR, SUCCESS
  <1> QED BY <1>1, QuietExit

LEMMA CompileFailsBehaves ==
  ASSUME DriverInv, NEW q \in Procs, CompileFails(q)
  PROVE  Behaves(q)
  <1>1. PICK code \in {INVALID_SOURCE, UNIMPLEMENTED, INTERNAL_COMPILER_ERROR, IO_ERROR} :
          Exit(q, code)
    BY DEF CompileFails
  <1>2. code \in Int /\ code # SUCCESS
    BY DEF SUCCESS, INVALID_SOURCE, UNIMPLEMENTED, INTERNAL_COMPILER_ERROR, IO_ERROR
  <1>3. UNCHANGED fs
    BY DEF CompileFails
  <1> QED BY <1>1, <1>2, <1>3, QuietExit

LEMMA CompileOkBehaves ==
  ASSUME DriverInv, NEW q \in Procs, CompileOk(q)
  PROVE  Behaves(q)
  <1> DEFINE s == p[q]
             t == Moved(s, "name", s.k + 1)
             source == s.sources[s.k]
             written == <<IF s.pre THEN "text" ELSE "object of", source>>
  <1>1. /\ s \in States(s.args) /\ Own(s, fs) /\ Typed /\ s.args \in Seq(ToSet(s.args))
        /\ Outputs(s.args) \cap (TempNames \cup {NoFile}) = {} /\ NoFile \notin TempNames
    BY Disjointness DEF DriverInv
  <1>2. /\ s.phase = "compile"
        /\ fs' = IF s.object = NoFile THEN fs ELSE Put(s.object, written)
    BY DEF CompileOk, Source
  <1>3. p' = [p EXCEPT ![q] = t]
    BY <1>1 DEF CompileOk, Moved, Typed
  <1>4. /\ s.k \in Nat \ {0} /\ Len(s.sources) \in Nat /\ s.temps \in Seq(TempNames)
        /\ s.object \in {NoFile} \cup Outputs(s.args) \cup TempNames /\ Len(s.temps) \in Nat
    BY <1>1 DEF States
  <1>5. Scanned(s, Len(s.args)) /\ TempsNamed(s) /\ Advanced(s) /\ Stored(s, fs)
    BY <1>1, <1>2 DEF Own, Parsed, Working
  <1>6. /\ s.k \in 1..Len(s.sources)
        /\ Links(s) => Len(s.temps) = s.k /\ s.object = s.temps[s.k]
        /\ ~Links(s) => s.object \notin TempNames
        /\ NamesObjects(s) => s.object = ObjectName(source)
    <2> HIDE DEF s
    <2>1. s.k <= Len(s.sources)
      BY <1>2, <1>5 DEF Advanced
    <2>2. s.k \in 1..Len(s.sources)
      BY <2>1, <1>4
    <2> QED BY <2>2, <1>2, <1>5 DEF Advanced
  <1> HIDE DEF source, written
  <1>7. /\ t \in States(s.args) /\ t.phase = "name" /\ t.k = s.k + 1 /\ t.args = s.args
        /\ t.sources = s.sources /\ t.inputs = s.inputs /\ t.temps = s.temps
        /\ t.output = s.output /\ t.link = s.link /\ t.pre = s.pre /\ t.syntax = s.syntax
    <2> DEFINE n == s.k + 1
    <2>1. n \in Nat \ {0}
      BY <1>4
    <2> HIDE DEF s, n
    <2>2. t \in States(s.args)
      BY <2>1, <1>1 DEF Moved, States, n
    <2>3. /\ t.phase = "name" /\ t.k = n /\ t.args = s.args
          /\ t.sources = s.sources /\ t.inputs = s.inputs /\ t.temps = s.temps
          /\ t.output = s.output /\ t.link = s.link /\ t.pre = s.pre /\ t.syntax = s.syntax
      BY <1>1 DEF Moved, States, n
    <2> QED BY <2>2, <2>3 DEF n
  <1> HIDE DEF s, t
  <1>8. /\ Links(t) = Links(s) /\ NamesObjects(t) = NamesObjects(s) /\ SameName(t) = SameName(s)
        /\ ~Succeeded(t) /\ ~Succeeded(s) /\ Working(s) /\ Working(t) /\ Compiling(s)
    BY <1>2, <1>7 DEF Links, NamesObjects, SameName, Succeeded, Working, Compiling
  <1>9. Live(t) = Live(s) /\ Gone(t) = {} /\ \A j \in 1..Len(s.temps) : s.temps[j] \in Live(s)
    BY <1>2, <1>7, <1>8 DEF Live, Gone
  <1>10. Links(s) => s.object \in Live(s) /\ s.object # NoFile
    BY <1>1, <1>4, <1>6, <1>9
  <1>11. NamesObjects(s) => s.object # NoFile
    <2>1. NamesObjects(s) => ObjectName(source) \in Outputs(s.args)
      BY <1>1, <1>5, <1>6, WritesOutputs DEF source
    <2> QED BY <2>1, <1>1, <1>6
  <1>12. s.object # NoFile => s.object \in Live(s) \cup Outputs(s.args)
    BY <1>4, <1>6, <1>10
  <1>13. /\ DOMAIN fs \subseteq DOMAIN fs'
         /\ \A x \in DOMAIN fs : x # s.object => fs'[x] = fs[x]
         /\ \A x \in DOMAIN fs' : x \in DOMAIN fs \/ (x = s.object /\ s.object # NoFile)
         /\ s.object # NoFile => s.object \in DOMAIN fs' /\ fs'[s.object] = written
         /\ s.object = NoFile => fs' = fs
    <2>1. CASE s.object = NoFile
      BY <2>1, <1>2
    <2>2. CASE s.object # NoFile
      <3>1. fs' = Put(s.object, written)
        BY <2>2, <1>2
      <3>2. /\ DOMAIN fs' = DOMAIN fs \cup {s.object} /\ fs'[s.object] = written
            /\ \A x \in DOMAIN fs : x # s.object => fs'[x] = fs[x]
        BY <3>1 DEF Put
      <3> QED BY <3>2, <2>2
    <2> QED BY <2>1, <2>2
  <1>14. Links(s) \/ NamesObjects(s) => written = ObjectOf(source)
    BY DEF Links, NamesObjects, ObjectOf, written
  <1>15. Parsed(t)
    BY <1>5, <1>7, <1>8 DEF Parsed, Scanned
  <1>16. TempsNamed(t)
    BY <1>5, <1>7, <1>8 DEF TempsNamed, Objects
  <1>17. Advanced(t)
    BY <1>4, <1>6, <1>7, <1>8 DEF Advanced
  <1>18. Stored(t, fs')
    <2>1. Live(t) \subseteq DOMAIN fs'
      BY <1>5, <1>9, <1>13 DEF Stored
    <2>2. ASSUME Links(t), NEW j \in 1..t.k - 1 PROVE fs'[t.temps[j]] = ObjectOf(t.sources[j])
      <3>1. CASE j = s.k
        BY <3>1, <2>2, <1>6, <1>7, <1>8, <1>10, <1>13, <1>14 DEF source
      <3>2. CASE j # s.k
        <4>1. j \in 1..s.k - 1 /\ j \in 1..Len(s.temps) /\ s.k \in 1..Len(s.temps)
          BY <3>2, <2>2, <1>4, <1>6, <1>7, <1>8
        <4>2. s.temps[j] # s.object
          BY <4>1, <3>2, <2>2, <1>5, <1>6, <1>8 DEF TempsNamed
        <4>3. fs[s.temps[j]] = ObjectOf(s.sources[j]) /\ s.temps[j] \in DOMAIN fs
          BY <4>1, <2>2, <1>5, <1>8, <1>9 DEF Stored
        <4> QED BY <4>2, <4>3, <1>7, <1>13
      <3> QED BY <3>1, <3>2
    <2>3. ASSUME NamesObjects(t), ~SameName(t), NEW j \in 1..Len(t.sources), j < t.k
          PROVE  /\ ObjectName(t.sources[j]) \in DOMAIN fs'
                 /\ fs'[ObjectName(t.sources[j])] = ObjectOf(t.sources[j])
      <3>1. CASE ObjectName(s.sources[j]) = s.object
        <4>1. s.sources[j] \in ToSet(s.sources) /\ source \in ToSet(s.sources)
          <5>1. s.sources \in Seq(OfType(s.args, "source"))
            BY <1>1 DEF States
          <5> QED BY <5>1, <2>3, <1>6, <1>7 DEF ToSet, source
        <4>2. s.sources[j] = source
          BY <4>1, <3>1, <2>3, <1>6, <1>8 DEF SameName
        <4> QED BY <4>2, <3>1, <2>3, <1>7, <1>8, <1>11, <1>13, <1>14
      <3>2. CASE ObjectName(s.sources[j]) # s.object
        <4>1. j < s.k
          <5>1. j # s.k
            BY <3>2, <2>3, <1>6, <1>8 DEF source
          <5> QED BY <5>1, <2>3, <1>4, <1>7
        <4>2. /\ ObjectName(s.sources[j]) \in DOMAIN fs
              /\ fs[ObjectName(s.sources[j])] = ObjectOf(s.sources[j])
          BY <4>1, <2>3, <1>5, <1>7, <1>8 DEF Stored
        <4> QED BY <4>2, <3>2, <1>7, <1>13
      <3> QED BY <3>1, <3>2
    <2>4. t.phase # "remove"
      BY <1>7
    <2> QED BY <2>1, <2>2, <2>3, <2>4, <1>8 DEF Stored
  <1>19. Typed' /\ p'[q] = t /\ (\A r \in Procs \ {q} : p'[r] = p[r])
    BY <1>1, <1>3, <1>7, StepTyped DEF s
  <1>20. \A x \in Live(s) : x \in ToSet(s.temps)
    <2>1. DOMAIN s.temps = 1..Len(s.temps)
      BY <1>4
    <2> QED BY <2>1 DEF Live, ToSet
  <1>21. \A x \in DOMAIN fs' : x \in DOMAIN fs \/ x \in ToSet(t.temps) \/ x \in Outputs(s.args)
    BY <1>7, <1>12, <1>13, <1>20
  <1>22. \A x \in DOMAIN fs : x \notin Live(s) \cup Outputs(s.args) =>
           x \in DOMAIN fs' /\ fs'[x] = fs[x]
    BY <1>12, <1>13
  <1> QED BY <1>7, <1>9, <1>15, <1>16, <1>17, <1>18, <1>19, <1>21, <1>22 DEF Behaves, Own, s
(* Round the loop of make_temp_file nothing but the name changes. *)
LEMMA LoopBehaves ==
  ASSUME DriverInv, NEW q \in Procs, UNCHANGED fs, Links(p[q]), p[q].k <= Len(p[q].sources),
         NEW phase \in {"name", "open"}, p[q].phase \in {"name", "open"},
         NEW object \in TempNames, NEW rand \in 1..Len(RandCycle),
         p' = [p EXCEPT ![q] = [p[q] EXCEPT !.phase = phase, !.object = object, !.rand = rand]]
  PROVE  Behaves(q)
  <1> DEFINE s == p[q]
             t == [s EXCEPT !.phase = phase, !.object = object, !.rand = rand]
  <1>1. s \in States(s.args) /\ Own(s, fs) /\ Typed
    BY DEF DriverInv, Typed
  <1>2. Scanned(s, Len(s.args)) /\ TempsNamed(s) /\ Advanced(s) /\ Stored(s, fs)
    BY <1>1 DEF Own, Parsed, Working
  <1> HIDE DEF s
  <1>3. t \in States(s.args)
    BY <1>1 DEF States
  <1>4. /\ t.phase = phase /\ t.object = object /\ t.k = s.k /\ t.args = s.args
        /\ t.sources = s.sources /\ t.inputs = s.inputs /\ t.temps = s.temps
        /\ t.output = s.output /\ t.link = s.link /\ t.pre = s.pre /\ t.syntax = s.syntax
    BY <1>1 DEF States
  <1>5. p' = [p EXCEPT ![q] = t] /\ Links(s) /\ s.k <= Len(s.sources) /\ s.phase \in {"name", "open"}
    BY DEF s
  <1> HIDE DEF t
  <1>6. /\ Links(t) /\ ~NamesObjects(t) /\ ~Succeeded(t) /\ Working(s) /\ Working(t)
        /\ Compiling(s) /\ Compiling(t) /\ Objects(t) = Objects(s)
    BY <1>4, <1>5 DEF Links, NamesObjects, Succeeded, Working, Compiling, Objects
  <1>7. Live(t) = Live(s) /\ Gone(t) = {}
    BY <1>4, <1>5, <1>6 DEF Live, Gone
  <1>8. Parsed(t)
    BY <1>2, <1>4 DEF Parsed, Scanned
  <1>9. TempsNamed(t)
    BY <1>2, <1>4, <1>6 DEF TempsNamed
  <1>10. Advanced(t)
    BY <1>2, <1>4, <1>5, <1>6 DEF Advanced
  <1>11. Stored(t, fs)
    BY <1>2, <1>4, <1>5, <1>6, <1>7 DEF Stored
  <1> QED BY <1>1, <1>3, <1>4, <1>5, <1>7, <1>8, <1>9, <1>10, <1>11, QuietStep DEF s, Own

LEMMA DrawNameBehaves ==
  ASSUME DriverInv, NEW q \in Procs, DrawName(q)
  PROVE  Behaves(q)
  <1> DEFINE s == p[q]
             name == RandCycle[s.rand]
             rand == (s.rand % Len(RandCycle)) + 1
  <1>1. s \in States(s.args) /\ Typed /\ RandCycle \in Seq(TempNames)
    BY DriverAssumption DEF DriverInv, Typed
  <1>2. s.rand \in 1..Len(RandCycle) /\ Len(RandCycle) \in Nat
    BY <1>1 DEF States
  <1>3. name \in TempNames /\ rand \in 1..Len(RandCycle)
    BY <1>1, <1>2
  <1>4. /\ s.phase = "name" /\ Links(s) /\ s.k <= Len(s.sources) /\ UNCHANGED fs
        /\ p' = [p EXCEPT ![q] = [s EXCEPT !.phase = "open", !.object = name, !.rand = rand]]
    BY <1>1 DEF DrawName, Naming, Links, Typed
  <1> QED BY <1>3, <1>4, LoopBehaves

LEMMA NameTakenBehaves ==
  ASSUME DriverInv, NEW q \in Procs, NameTaken(q)
  PROVE  Behaves(q)
  <1> DEFINE s == p[q]
             n == s.object
             k == s.rand
  <1>1. s \in States(s.args) /\ Typed /\ Own(s, fs)
    BY DEF DriverInv, Typed
  <1>2. s.phase = "open" /\ UNCHANGED fs /\ p' = [p EXCEPT ![q] = [s EXCEPT !.phase = "name"]]
    BY <1>1 DEF NameTaken, Typed
  <1>3. Links(s) /\ s.k <= Len(s.sources) /\ n \in TempNames /\ k \in 1..Len(RandCycle)
    BY <1>1, <1>2 DEF Own, Advanced, States
  <1>4. [s EXCEPT !.phase = "name"] = [s EXCEPT !.phase = "name", !.object = n, !.rand = k]
    BY <1>1 DEF States
  <1>5. p' = [p EXCEPT ![q] = [s EXCEPT !.phase = "name", !.object = n, !.rand = k]]
    BY <1>2, <1>4
  <1> HIDE DEF n, k
  <1> QED BY <1>2, <1>3, <1>5, LoopBehaves

LEMMA MakeTempFileBehaves ==
  ASSUME DriverInv, NEW q \in Procs, MakeTempFile(q)
  PROVE  Behaves(q)
  <1> DEFINE s == p[q]
  <1>1. /\ s \in States(s.args) /\ Own(s, fs) /\ Typed /\ s.args \in Seq(ToSet(s.args))
    BY Disjointness DEF DriverInv
  <1> DEFINE name == s.object
  <1>2. s.phase = "open" /\ s.k <= Len(s.sources) /\ Links(s) /\ name \in TempNames
    BY <1>1 DEF MakeTempFile, Own, Advanced
  <1>3. name \notin DOMAIN fs /\ fs' = Put(name, <<"empty">>)
    BY DEF MakeTempFile
  <1> DEFINE temps == Append(s.temps, name)
             inputs == Append(s.inputs, name)
             t == [s EXCEPT !.phase = "compile", !.temps = temps, !.inputs = inputs]
  <1>4. p' = [p EXCEPT ![q] = t]
    BY <1>1 DEF MakeTempFile, Typed
  <1>5. /\ s.k \in Nat \ {0} /\ Len(s.sources) \in Nat /\ s.temps \in Seq(TempNames)
        /\ s.inputs \in Seq(Inputs(s.args) \cup TempNames) /\ Len(s.temps) \in Nat
        /\ Len(s.inputs) \in Nat /\ Len(s.args) \in Nat
    BY <1>1 DEF States
  <1>6. Scanned(s, Len(s.args)) /\ TempsNamed(s) /\ Advanced(s) /\ Stored(s, fs)
    BY <1>1, <1>2 DEF Own, Parsed, Working
  <1>7. /\ temps \in Seq(TempNames) /\ Len(temps) = Len(s.temps) + 1 /\ temps[Len(s.temps) + 1] = name
        /\ \A j \in 1..Len(s.temps) : temps[j] = s.temps[j]
        /\ ToSet(s.temps) \subseteq ToSet(temps) /\ name \in ToSet(temps)
    BY <1>2, <1>5, AppendedProps
  <1>8. /\ inputs \in Seq(Inputs(s.args) \cup TempNames) /\ Len(inputs) = Len(s.inputs) + 1
        /\ inputs[Len(s.inputs) + 1] = name
        /\ \A j \in 1..Len(s.inputs) : inputs[j] = s.inputs[j]
    <2>1. name \in Inputs(s.args) \cup TempNames
      BY <1>2
    <2> QED BY <2>1, <1>5, AppendedProps
  <1> HIDE DEF s, temps, inputs, name
  <1>9. t \in States(s.args)
    BY <1>1, <1>7, <1>8 DEF States
  <1>10. /\ t.phase = "compile" /\ t.object = name /\ t.k = s.k /\ t.args = s.args
         /\ t.sources = s.sources /\ t.inputs = inputs /\ t.temps = temps
         /\ t.output = s.output /\ t.link = s.link /\ t.pre = s.pre /\ t.syntax = s.syntax
    BY <1>1 DEF States, name
  <1> HIDE DEF t
  <1>11. /\ Links(t) /\ ~NamesObjects(t) /\ ~Succeeded(t) /\ Working(s) /\ Working(t)
         /\ Compiling(s) /\ Compiling(t) /\ Objects(t) = Objects(s)
    BY <1>2, <1>10 DEF Links, NamesObjects, Succeeded, Working, Compiling, Objects
  <1>12. Len(s.temps) = s.k - 1 /\ Len(temps) = s.k
    BY <1>2, <1>5, <1>6, <1>7 DEF Advanced
  <1>13. \A j \in 1..Len(s.temps) : s.temps[j] \in Live(s) /\ s.temps[j] \in DOMAIN fs
    BY <1>2, <1>6, <1>11 DEF Live, Stored
  <1>14. \A j \in 1..Len(temps) : j \in 1..Len(s.temps) \/ j = Len(s.temps) + 1
    BY <1>5, <1>7
  <1>15. /\ DOMAIN fs' = DOMAIN fs \cup {name}
         /\ \A x \in DOMAIN fs : fs'[x] = fs[x]
    BY <1>3 DEF Put
  <1>16. Live(t) \subseteq Live(s) \cup {name}
    BY <1>7, <1>10, <1>13, <1>14 DEF Live
  <1>17. Gone(t) = {}
    BY <1>10, <1>11 DEF Gone
  <1>18. Len(s.inputs) = Objects(s) + Len(s.temps) /\ Objects(s) \in Nat
    BY <1>5, <1>6, CountProps DEF Scanned, Objects
  <1>19. Scanned(t, Len(t.args))
    <2>1. Len(t.inputs) = Objects(s) + Len(t.temps)
      BY <1>5, <1>7, <1>8, <1>10, <1>18
    <2>2. ASSUME NEW x \in 1..Len(s.args), s.args[x].t = "object"
          PROVE  t.inputs[Count(s.args, "object", x)] = s.args[x].path
      <3>1. Count(s.args, "object", x) \in 1..Objects(s)
        BY <2>2, <1>5, CountPlace DEF Objects
      <3>2. Count(s.args, "object", x) \in 1..Len(s.inputs)
        BY <3>1, <1>5, <1>18
      <3>3. s.inputs[Count(s.args, "object", x)] = s.args[x].path
        BY <2>2, <1>6 DEF Scanned
      <3> QED BY <3>2, <3>3, <1>8, <1>10
    <2> QED BY <2>1, <2>2, <1>6, <1>10 DEF Scanned, Objects
  <1>20. Parsed(t)
    BY <1>10, <1>19 DEF Parsed
  <1>21. TempsNamed(t)
    <2>1. ASSUME NEW j \in 1..Len(temps), NEW m \in 1..Len(temps), temps[j] = temps[m] PROVE j = m
      <3>1. CASE j \in 1..Len(s.temps) /\ m \in 1..Len(s.temps)
        BY <3>1, <2>1, <1>6, <1>7 DEF TempsNamed
      <3>2. CASE j = Len(s.temps) + 1 \/ m = Len(s.temps) + 1
        BY <3>2, <2>1, <1>3, <1>7, <1>13, <1>14
      <3> QED BY <3>1, <3>2, <1>14
    <2>2. ASSUME NEW j \in 1..Len(temps) PROVE inputs[Objects(s) + j] = temps[j]
      <3>1. CASE j \in 1..Len(s.temps)
        <4>1. Objects(s) + j \in 1..Len(s.inputs)
          BY <3>1, <1>5, <1>18
        <4>2. s.inputs[Objects(s) + j] = s.temps[j]
          BY <3>1, <1>6, <1>11 DEF TempsNamed
        <4> QED BY <3>1, <4>1, <4>2, <1>7, <1>8
      <3>2. CASE j = Len(s.temps) + 1
        <4>1. Objects(s) + j = Len(s.inputs) + 1
          BY <3>2, <1>5, <1>18
        <4> QED BY <3>2, <4>1, <1>7, <1>8
      <3> QED BY <3>1, <3>2, <1>14
    <2> QED BY <2>1, <2>2, <1>10, <1>11 DEF TempsNamed
  <1>22. Advanced(t)
    <2>1. s.k = Len(s.temps) + 1 /\ s.k <= Len(s.sources) + 1
      BY <1>2, <1>5, <1>12
    <2> QED BY <2>1, <1>2, <1>7, <1>10, <1>11, <1>12 DEF Advanced
  <1>23. Stored(t, fs')
    <2>1. Live(t) \subseteq DOMAIN fs'
      BY <1>6, <1>15, <1>16 DEF Stored
    <2>2. ASSUME NEW j \in 1..t.k - 1 PROVE fs'[t.temps[j]] = ObjectOf(t.sources[j])
      <3>1. j \in 1..Len(s.temps) /\ j \in 1..s.k - 1
        BY <1>5, <1>10, <1>12
      <3>2. fs[s.temps[j]] = ObjectOf(s.sources[j])
        BY <3>1, <1>2, <1>6, <1>11 DEF Stored
      <3> QED BY <3>1, <3>2, <1>7, <1>10, <1>13, <1>15
    <2> QED BY <2>1, <2>2, <1>10, <1>11 DEF Stored
  <1>24. Typed' /\ p'[q] = t /\ (\A r \in Procs \ {q} : p'[r] = p[r])
    BY <1>1, <1>4, <1>9, StepTyped DEF s
  <1>25. Own(t, fs')
    BY <1>20, <1>21, <1>22, <1>23 DEF Own
  <1>26. \A x \in DOMAIN fs' : x \in DOMAIN fs \/ x \in ToSet(t.temps)
    BY <1>7, <1>10, <1>15
  <1>27. Live(t) \subseteq Live(s) \cup (TempNames \ DOMAIN fs)
    BY <1>2, <1>3, <1>16
  <1> QED BY <1>7, <1>10, <1>15, <1>17, <1>24, <1>25, <1>26, <1>27 DEF Behaves, s

-----------------------------------------------------------------------------
(* Linking *)
LEMMA NothingToLinkBehaves ==
  ASSUME DriverInv, NEW q \in Procs, NothingToLink(q)
  PROVE  Behaves(q)
  <1> DEFINE s == p[q]
             t == Exited(s, SUCCESS)
  <1>1. s \in States(s.args) /\ Own(s, fs) /\ Typed
    BY Disjointness DEF DriverInv
  <1>2. /\ s.phase = "name" /\ s.k > Len(s.sources) /\ ~Links(s) /\ UNCHANGED fs
        /\ Exit(q, SUCCESS) /\ SUCCESS \in Int
    BY DEF NothingToLink, Compiled, Links, SUCCESS
  <1>3. /\ p' = [p EXCEPT ![q] = t] /\ t \in States(s.args) /\ t.phase = "exit"
        /\ t.temps = s.temps /\ t.link = s.link /\ t.pre = s.pre
        /\ t.syntax = s.syntax /\ t.args = s.args /\ t.output = s.output
        /\ t.sources = s.sources /\ t.inputs = s.inputs
    BY <1>1, <1>2, ExitProps
  <1> HIDE DEF t
  <1>4. Scanned(s, Len(s.args)) /\ TempsNamed(s) /\ Stored(s, fs) /\ Compiling(s)
    BY <1>1, <1>2 DEF Own, Parsed, Working, Compiling
  <1>5. /\ ~Links(t) /\ NamesObjects(t) = NamesObjects(s) /\ SameName(t) = SameName(s)
        /\ ~Working(t) /\ ~Compiling(t)
    BY <1>2, <1>3 DEF Links, NamesObjects, SameName, Working, Compiling
  <1>6. t.temps = <<>> /\ Len(t.temps) = 0
    BY <1>2, <1>3, <1>4 DEF TempsNamed
  <1>7. Live(t) = {} /\ Gone(t) = {}
    BY <1>6 DEF Live, Gone
  <1>8. Parsed(t) /\ TempsNamed(t) /\ Advanced(t)
    BY <1>3, <1>4, <1>5, <1>6 DEF Parsed, Scanned, TempsNamed, Advanced
  <1>9. Stored(t, fs)
    <2>1. \A j \in 1..Len(s.sources) : j < s.k
      BY <1>1, <1>2 DEF States
    <2> QED BY <2>1, <1>3, <1>4, <1>5, <1>7 DEF Stored
  <1> QED BY <1>1, <1>2, <1>3, <1>7, <1>8, <1>9, QuietStep DEF Own

LEMMA LinkOkBehaves ==
  ASSUME DriverInv, NEW q \in Procs, LinkOk(q)
  PROVE  Behaves(q)
  <1> DEFINE s == p[q]
             t == Moved(s, "remove", 1)
             all == s.inputs \o IF s.freestanding THEN <<>> ELSE <<<<"libc.a">>>>
             linked == [x \in 1..Len(all) |-> Contents(all[x])]
             file == <<"program", linked, "rw">>
  <1>1. /\ s \in States(s.args) /\ Own(s, fs) /\ Typed /\ s.args \in Seq(ToSet(s.args))
        /\ Outputs(s.args) \cap (TempNames \cup {NoFile}) = {}
        /\ Inputs(s.args) \cap DOMAIN fs = {}
    BY Disjointness DEF DriverInv, InputsKept
  <1>2. s.phase = "name" /\ s.k > Len(s.sources) /\ Links(s)
    BY DEF LinkOk, Compiled, Links
  <1>3. fs' = Put(Executable(s), file)
    BY DEF LinkOk, LinkerInputs
  <1>4. p' = [p EXCEPT ![q] = t]
    BY <1>1 DEF LinkOk, Moved, Typed
  <1>5. /\ s.k \in Nat \ {0} /\ Len(s.sources) \in Nat /\ s.temps \in Seq(TempNames)
        /\ s.inputs \in Seq(Inputs(s.args) \cup TempNames) /\ Len(s.temps) \in Nat
        /\ Len(s.inputs) \in Nat /\ Len(s.args) \in Nat
    <2> HIDE DEF s
    <2> QED BY <1>1 DEF States
  <1>6. Scanned(s, Len(s.args)) /\ TempsNamed(s) /\ Advanced(s) /\ Stored(s, fs)
    BY <1>1, <1>2 DEF Own, Parsed, Working
  <1>7. /\ t \in States(s.args) /\ t.phase = "remove" /\ t.k = 1 /\ t.args = s.args
        /\ t.sources = s.sources /\ t.inputs = s.inputs /\ t.temps = s.temps
        /\ t.output = s.output /\ t.link = s.link /\ t.pre = s.pre /\ t.syntax = s.syntax
        /\ t.freestanding = s.freestanding
    <2>1. 1 \in Nat \ {0}
      OBVIOUS
    <2> QED BY <1>1, <2>1, MovedProps
  <1>8. /\ Len(all) = IF s.freestanding THEN Len(s.inputs) ELSE Len(s.inputs) + 1
        /\ \A x \in 1..Len(s.inputs) : all[x] = s.inputs[x]
        /\ ~s.freestanding => all[Len(s.inputs) + 1] = <<"libc.a">>
        /\ Len(all) \in Nat
    <2> HIDE DEF s
    <2>1. CASE s.freestanding
      BY <2>1, <1>5
    <2>2. CASE ~s.freestanding
      BY <2>2, <1>5
    <2> QED BY <2>1, <2>2
  <1> HIDE DEF s, t, all
  <1>9. /\ Links(t) /\ ~NamesObjects(t) /\ ~Succeeded(t) /\ Working(s) /\ Working(t)
        /\ Compiling(s) /\ ~Compiling(t) /\ Objects(t) = Objects(s) /\ Executable(t) = Executable(s)
    BY <1>2, <1>7 DEF Links, NamesObjects, Succeeded, Working, Compiling, Objects, Executable
  <1>10. s.k = Len(s.sources) + 1 /\ Len(s.temps) = Len(s.sources)
    BY <1>2, <1>5, <1>6, <1>9 DEF Advanced
  <1>11. \A j \in 1..Len(s.temps) : s.temps[j] \in Live(s)
    BY <1>2, <1>9 DEF Live
  <1>12. Live(t) \subseteq Live(s) /\ Gone(t) = {}
    <2>1. ~\E m \in 1..Len(t.temps) : m < t.k
      BY <1>7
    <2> QED BY <2>1, <1>7, <1>9, <1>11 DEF Live, Gone
  <1>13. Executable(s) \in Outputs(s.args) /\ Live(s) \subseteq TempNames
    BY <1>1, <1>6, WritesOutputs, LiveProps
  <1>14. /\ DOMAIN fs' = DOMAIN fs \cup {Executable(s)} /\ fs'[Executable(s)] = file
         /\ \A x \in DOMAIN fs : x # Executable(s) => fs'[x] = fs[x]
    <2> HIDE DEF file
    <2> QED BY <1>3 DEF Put
  <1>15. IsWanted(t, linked)
    <2> DEFINE cs(x) == Count(s.args, "source", x)
               co(x) == Count(s.args, "object", x)
               files == co(Len(s.args)) + cs(Len(s.args))
    <2>1. /\ co(Len(s.args)) \in Nat /\ cs(Len(s.args)) = Len(s.sources)
          /\ Len(s.inputs) = co(Len(s.args)) + Len(s.temps)
      BY <1>5, <1>6, CountProps DEF Scanned
    <2>2. Len(s.inputs) = files
      BY <2>1, <1>10
    <2>3. Len(linked) = Len(all) /\ \A x \in 1..Len(all) : linked[x] = Contents(all[x])
      BY <1>8
    <2> HIDE DEF linked
    <2>4. \A x \in 1..Len(s.inputs) : linked[x] = Contents(s.inputs[x])
      <3>1. \A x \in 1..Len(s.inputs) : x \in 1..Len(all)
        BY <1>5, <1>8
      <3> QED BY <3>1, <2>3, <1>8
    <2>5. ASSUME NEW x \in 1..Len(s.args), s.args[x].t = "object"
          PROVE  linked[co(x)] = s.args[x].path
      <3>1. co(x) \in 1..co(Len(s.args))
        BY <2>5, <1>5, CountPlace
      <3>2. co(x) \in 1..Len(s.inputs)
        BY <3>1, <2>1, <1>5
      <3>3. s.inputs[co(x)] = s.args[x].path
        BY <2>5, <1>6 DEF Scanned
      <3>4. s.args[x] \in ToSet(s.args)
        BY <1>1 DEF ToSet
      <3>5. s.args[x].path \in Inputs(s.args)
        BY <3>4, <2>5 DEF Inputs, OfType
      <3>6. Contents(s.args[x].path) = s.args[x].path
        BY <3>5, <1>1 DEF Contents
      <3> QED BY <3>2, <3>3, <3>6, <2>4
    <2>6. ASSUME NEW x \in 1..Len(s.args), s.args[x].t = "source"
          PROVE  linked[co(Len(s.args)) + cs(x)] = ObjectOf(s.args[x])
      <3>1. cs(x) \in 1..Len(s.sources)
        BY <2>1, <2>6, <1>5, CountPlace
      <3>2. s.sources[cs(x)] = s.args[x]
        BY <2>6, <1>6 DEF Scanned
      <3> DEFINE j == cs(x)
      <3> HIDE DEF cs, j
      <3>3. j \in 1..Len(s.temps) /\ j \in 1..s.k - 1
        BY <3>1, <1>5, <1>10 DEF j
      <3>4. s.temps[j] \in DOMAIN fs /\ fs[s.temps[j]] = ObjectOf(s.sources[j])
        BY <3>3, <1>2, <1>6, <1>9, <1>11 DEF Stored
      <3>5. s.inputs[co(Len(s.args)) + j] = s.temps[j]
        BY <3>3, <1>6, <1>9 DEF TempsNamed, Objects
      <3>6. co(Len(s.args)) + j \in 1..Len(s.inputs)
        BY <3>3, <2>1, <1>5
      <3>7. linked[co(Len(s.args)) + j] = ObjectOf(s.sources[j])
        BY <3>4, <3>5, <3>6, <2>4 DEF Contents
      <3> QED BY <3>2, <3>7 DEF j
    <2>7. ASSUME ~s.freestanding PROVE linked[files + 1] = <<"libc.a">>
      <3>1. files + 1 \in 1..Len(all) /\ all[files + 1] = <<"libc.a">>
        BY <2>2, <2>7, <1>5, <1>8
      <3>2. <<"libc.a">> \notin DOMAIN fs
        BY <1>1 DEF Inputs
      <3> QED BY <3>1, <3>2, <2>3 DEF Contents
    <2>8. Len(linked) = IF s.freestanding THEN files ELSE files + 1
      BY <2>2, <2>3, <1>8
    <2> QED BY <2>5, <2>6, <2>7, <2>8, <1>7 DEF IsWanted
  <1>16. IsProgram(t, file, "rw")
    <2>1. file = <<"program", linked, "rw">> /\ file[2] = linked
      OBVIOUS
    <2> HIDE DEF file, linked
    <2> QED BY <2>1, <1>15 DEF IsProgram
  <1> HIDE DEF file
  <1>17. Parsed(t) /\ TempsNamed(t) /\ Advanced(t)
    <2>1. Parsed(t)
      BY <1>6, <1>7, <1>9 DEF Parsed, Scanned
    <2>2. TempsNamed(t)
      BY <1>6, <1>7, <1>9 DEF TempsNamed
    <2>3. 1 <= Len(s.temps) + 1
      BY <1>5
    <2> QED BY <2>1, <2>2, <2>3, <1>7, <1>9, <1>10 DEF Advanced
  <1>18. Stored(t, fs')
    BY <1>6, <1>9, <1>12, <1>14, <1>16 DEF Stored
  <1>19. Typed' /\ p'[q] = t /\ (\A r \in Procs \ {q} : p'[r] = p[r])
    BY <1>1, <1>4, <1>7, StepTyped DEF s
  <1> QED BY <1>7, <1>12, <1>13, <1>14, <1>17, <1>18, <1>19 DEF Behaves, Own, s
LEMMA LinkFailsBehaves ==
  ASSUME DriverInv, NEW q \in Procs, LinkFails(q)
  PROVE  Behaves(q)
  <1> DEFINE s == p[q]
             e == Executable(s)
  <1>1. s \in States(s.args) /\ Own(s, fs) /\ Typed /\ s.args \in Seq(ToSet(s.args))
    BY Disjointness DEF DriverInv
  <1>2. s.phase = "name"
    BY DEF LinkFails, Compiled
  <1>3. CASE fs' = fs /\ Exit(q, IO_ERROR)
    <2>1. IO_ERROR \in Int /\ IO_ERROR # SUCCESS
      BY DEF IO_ERROR, SUCCESS
    <2> QED BY <2>1, <1>3, QuietExit
  <1>4. CASE /\ fs' = Put(e, <<"partial">>)
             /\ \E code \in {IO_ERROR, LINKER_ERROR, UNIMPLEMENTED} : Exit(q, code)
    <2>1. PICK code \in {IO_ERROR, LINKER_ERROR, UNIMPLEMENTED} : Exit(q, code)
      BY <1>4
    <2>2. code \in Int /\ code # SUCCESS
      BY DEF IO_ERROR, LINKER_ERROR, UNIMPLEMENTED, SUCCESS
    <2> DEFINE t == Exited(s, code)
    <2>3. /\ p' = [p EXCEPT ![q] = t] /\ t \in States(s.args) /\ t.code = code
          /\ t.phase = "exit" /\ t.temps = s.temps /\ t.link = s.link /\ t.pre = s.pre
          /\ t.syntax = s.syntax /\ t.args = s.args
      BY <1>1, <2>1, <2>2, ExitProps
    <2>4. e \in Outputs(s.args) /\ TempsNamed(s)
      <3>1. Scanned(s, Len(s.args))
        BY <1>1, <1>2 DEF Own, Parsed, Working
      <3> QED BY <3>1, <1>1, WritesOutputs DEF Own
    <2> HIDE DEF t, s, e
    <2>5. ~Succeeded(t)
      BY <2>2, <2>3 DEF Succeeded
    <2>6. Own(t, fs') /\ Live(t) = {} /\ Gone(t) = {}
      BY <1>1, <2>3, <2>4, <2>5, GivesUp
    <2>7. DOMAIN fs' = DOMAIN fs \cup {e} /\ \A x \in DOMAIN fs : x # e => fs'[x] = fs[x]
      BY <1>4 DEF Put
    <2>8. Typed' /\ p'[q] = t /\ (\A r \in Procs \ {q} : p'[r] = p[r])
      BY <1>1, <2>3, StepTyped DEF s
    <2> QED BY <2>3, <2>4, <2>6, <2>7, <2>8 DEF Behaves, s
  <1> QED BY <1>3, <1>4 DEF LinkFails

-----------------------------------------------------------------------------
(* States with the same command line, inputs and choices. *)
SameInput(s, t) ==
  /\ t.args = s.args /\ t.sources = s.sources /\ t.inputs = s.inputs /\ t.temps = s.temps
  /\ t.output = s.output /\ t.link = s.link /\ t.pre = s.pre /\ t.syntax = s.syntax
  /\ t.freestanding = s.freestanding

(* The temporary files up to the k-th. *)
Passed(s) == {s.temps[j] : j \in {m \in 1..Len(s.temps) : m < s.k \/ m = s.k}}

(* All files but one are kept. *)
KeptBut(f, g, path) == \A x \in DOMAIN f \ {path} : x \in DOMAIN g /\ g[x] = f[x]

(***************************************************************************)
(* Removing one temporary file: the next state t of a process whose k-th   *)
(* is done, whether remove() succeeded or not.                             *)
(***************************************************************************)
LEMMA NextRemoval ==
  ASSUME NEW args, NEW s \in States(args), NEW t \in States(args), NEW f, NEW g, Own(s, f),
         args \in Seq(ToSet(args)), Outputs(args) \cap (TempNames \cup {NoFile}) = {},
         s.phase = "remove", s.k <= Len(s.temps), t.phase = "remove", t.k = s.k + 1,
         SameInput(s, t), KeptBut(f, g, s.temps[s.k])
  PROVE  /\ Own(t, g) /\ Live(t) \subseteq Live(s) /\ s.temps[s.k] \in Live(s)
         /\ Gone(t) \subseteq Passed(s) /\ (t.result # SUCCESS => Gone(t) = {})
  <1> USE DEF SameInput
  <1>1. /\ s.k \in Nat \ {0} /\ s.temps \in Seq(TempNames) /\ Len(s.temps) \in Nat /\ s.args = args
        /\ s.k \in 1..Len(s.temps) /\ t.k = s.k + 1
    BY DEF States
  <1>2. Scanned(s, Len(s.args)) /\ TempsNamed(s) /\ Advanced(s) /\ Stored(s, f)
    BY DEF Own, Parsed, Working
  <1>3. /\ Links(s) /\ Links(t) /\ ~NamesObjects(t) /\ ~Succeeded(t) /\ Working(s) /\ Working(t)
        /\ ~Compiling(t) /\ ~Compiling(s) /\ Objects(t) = Objects(s) /\ Executable(t) = Executable(s)
        /\ Len(s.temps) = Len(s.sources)
    <2>1. Links(s) /\ Len(s.temps) = Len(s.sources)
      BY <1>2 DEF Advanced
    <2> QED BY <2>1 DEF Links, NamesObjects, Succeeded, Working, Compiling, Objects, Executable
  <1>4. Live(s) = {s.temps[j] : j \in {m \in 1..Len(s.temps) : s.k <= m}}
    BY <1>3 DEF Live
  <1>5. Live(t) = {s.temps[j] : j \in {m \in 1..Len(s.temps) : t.k <= m}}
    BY <1>3 DEF Live
  <1>6. \A m \in 1..Len(s.temps) : (t.k <= m => s.k <= m /\ m # s.k) /\ (m < t.k => m < s.k \/ m = s.k)
    BY <1>1
  <1>7. s.temps[s.k] \in Live(s)
    <2>1. s.k <= s.k
      BY <1>1
    <2> QED BY <2>1, <1>1, <1>4
  <1>8. Live(t) \subseteq Live(s) \ {s.temps[s.k]}
    <2> SUFFICES ASSUME NEW m \in 1..Len(s.temps), t.k <= m
                 PROVE  s.temps[m] \in Live(s) /\ s.temps[m] # s.temps[s.k]
      BY <1>5
    <2>1. s.k <= m /\ m # s.k
      BY <1>6
    <2> QED BY <2>1, <1>1, <1>2, <1>4 DEF TempsNamed
  <1>9. Gone(t) \subseteq Passed(s) /\ (t.result # SUCCESS => Gone(t) = {})
    BY <1>3, <1>6 DEF Gone, Passed
  <1>10. Executable(s) \in Outputs(args) /\ s.temps[s.k] \in TempNames
    BY <1>1, <1>2, WritesOutputs
  <1>11. Parsed(t)
    BY <1>2, <1>3 DEF Parsed, Scanned
  <1>12. TempsNamed(t)
    BY <1>2, <1>3 DEF TempsNamed
  <1>13. Advanced(t)
    <2>1. t.k <= Len(s.temps) + 1
      BY <1>1
    <2> QED BY <2>1, <1>3 DEF Advanced
  <1>14. Stored(t, g)
    <2>1. Live(t) \subseteq DOMAIN g
      BY <1>2, <1>8 DEF Stored, KeptBut
    <2>2. Executable(s) \in DOMAIN f /\ IsProgram(s, f[Executable(s)], "rw")
      BY <1>2 DEF Stored
    <2>3. Executable(s) \in DOMAIN g /\ g[Executable(s)] = f[Executable(s)]
      BY <2>2, <1>10 DEF KeptBut
    <2>4. IsProgram(t, g[Executable(s)], "rw")
      BY <2>2, <2>3 DEF IsProgram, IsWanted
    <2> QED BY <2>1, <2>3, <2>4, <1>3 DEF Stored
  <1> QED BY <1>7, <1>8, <1>9, <1>11, <1>12, <1>13, <1>14 DEF Own

LEMMA RemoveTempBehaves ==
  ASSUME DriverInv, NEW q \in Procs, RemoveTemp(q)
  PROVE  Behaves(q)
  <1> DEFINE s == p[q]
             n == s.k + 1
             t == Moved(s, "remove", n)
             gone == s.temps[s.k]
  <1>1. /\ s \in States(s.args) /\ Own(s, fs) /\ Typed /\ s.args \in Seq(ToSet(s.args))
        /\ Outputs(s.args) \cap (TempNames \cup {NoFile}) = {}
    BY Disjointness DEF DriverInv
  <1>2. s.phase = "remove" /\ s.k <= Len(s.temps) /\ fs' = Delete(gone)
    BY DEF RemoveTemp
  <1>3. p' = [p EXCEPT ![q] = t]
    <2> DEFINE u == [s EXCEPT !.k = n]
    <2>1. p' = [p EXCEPT ![q] = u]
      BY <1>1 DEF RemoveTemp, Typed
    <2>2. u = t
      BY <1>1, <1>2 DEF Moved, States
    <2> QED BY <2>1, <2>2
  <1>4. n \in Nat \ {0}
    BY <1>1 DEF States
  <1> HIDE DEF n, t
  <1>5. /\ t \in States(s.args) /\ t.phase = "remove" /\ t.k = n /\ t.args = s.args
        /\ t.sources = s.sources /\ t.inputs = s.inputs /\ t.temps = s.temps
        /\ t.output = s.output /\ t.link = s.link /\ t.pre = s.pre /\ t.syntax = s.syntax
        /\ t.freestanding = s.freestanding /\ t.result = s.result
    <2> HIDE DEF s
    <2>1. t \in States(s.args)
      BY <1>1, <1>4 DEF t, Moved, States
    <2>2. /\ t.phase = "remove" /\ t.k = n /\ t.args = s.args
          /\ t.sources = s.sources /\ t.inputs = s.inputs /\ t.temps = s.temps
          /\ t.output = s.output /\ t.link = s.link /\ t.pre = s.pre /\ t.syntax = s.syntax
          /\ t.freestanding = s.freestanding /\ t.result = s.result
      BY <1>1 DEF t, Moved, States
    <2> QED BY <2>1, <2>2
  <1> HIDE DEF s, gone
  <1>6. DOMAIN fs' = DOMAIN fs \ {gone} /\ \A x \in DOMAIN fs \ {gone} : fs'[x] = fs[x]
    BY <1>2 DEF Delete
  <1>7. /\ Own(t, fs') /\ Live(t) \subseteq Live(s) /\ gone \in Live(s)
        /\ Gone(t) \subseteq Passed(s) /\ (t.result # SUCCESS => Gone(t) = {})
    <2> DEFINE g == fs'
    <2>1. SameInput(s, t) /\ KeptBut(fs, g, s.temps[s.k]) /\ t.k = s.k + 1
      BY <1>5, <1>6 DEF SameInput, KeptBut, n, gone
    <2> HIDE DEF g
    <2>2. /\ Own(t, g) /\ Live(t) \subseteq Live(s) /\ s.temps[s.k] \in Live(s)
          /\ Gone(t) \subseteq Passed(s) /\ (t.result # SUCCESS => Gone(t) = {})
      BY <2>1, <1>1, <1>2, <1>5, NextRemoval
    <2> QED BY <2>2 DEF g, gone
  <1>8. Gone(t) \subseteq Gone(s) \cup {gone}
    BY <1>2, <1>5, <1>7 DEF Gone, Passed, gone
  <1>9. Typed' /\ p'[q] = t /\ (\A r \in Procs \ {q} : p'[r] = p[r])
    BY <1>1, <1>3, <1>5, StepTyped DEF s
  <1> QED BY <1>5, <1>6, <1>7, <1>8, <1>9 DEF Behaves, s

LEMMA RemoveFailsBehaves ==
  ASSUME DriverInv, NEW q \in Procs, RemoveFails(q)
  PROVE  Behaves(q)
  <1> DEFINE s == p[q]
             n == s.k + 1
             t == [s EXCEPT !.k = n, !.result = IO_ERROR]
  <1>1. /\ s \in States(s.args) /\ Own(s, fs) /\ Typed /\ s.args \in Seq(ToSet(s.args))
        /\ Outputs(s.args) \cap (TempNames \cup {NoFile}) = {}
    BY Disjointness DEF DriverInv
  <1>2. s.phase = "remove" /\ s.k <= Len(s.temps) /\ UNCHANGED fs
    BY DEF RemoveFails
  <1>3. p' = [p EXCEPT ![q] = t]
    BY <1>1 DEF RemoveFails, Typed
  <1>4. n \in Nat \ {0} /\ IO_ERROR \in Int /\ IO_ERROR # SUCCESS
    BY <1>1 DEF States, IO_ERROR, SUCCESS
  <1> HIDE DEF n, s
  <1>5. t \in States(s.args)
    BY <1>1, <1>4 DEF States
  <1>6. /\ t.phase = s.phase /\ t.k = n /\ t.args = s.args
        /\ t.sources = s.sources /\ t.inputs = s.inputs /\ t.temps = s.temps
        /\ t.output = s.output /\ t.link = s.link /\ t.pre = s.pre /\ t.syntax = s.syntax
        /\ t.freestanding = s.freestanding /\ t.result = IO_ERROR
    BY <1>1 DEF States
  <1> HIDE DEF t
  <1>7. /\ Own(t, fs) /\ Live(t) \subseteq Live(s)
        /\ Gone(t) \subseteq Passed(s) /\ (t.result # SUCCESS => Gone(t) = {})
    <2> DEFINE g == fs
    <2>1. /\ t.phase = "remove" /\ t.k = s.k + 1 /\ SameInput(s, t)
          /\ KeptBut(fs, g, s.temps[s.k])
      BY <1>2, <1>6 DEF n, SameInput, KeptBut
    <2> HIDE DEF g
    <2>2. /\ Own(t, g) /\ Live(t) \subseteq Live(s)
          /\ Gone(t) \subseteq Passed(s) /\ (t.result # SUCCESS => Gone(t) = {})
      BY <2>1, <1>1, <1>2, <1>5, NextRemoval
    <2> QED BY <2>2 DEF g
  <1>8. Gone(t) = {}
    BY <1>4, <1>6, <1>7
  <1> QED BY <1>1, <1>2, <1>3, <1>5, <1>6, <1>7, <1>8, QuietStep DEF s

LEMMA MakeExecutableBehaves ==
  ASSUME DriverInv, NEW q \in Procs, MakeExecutable(q)
  PROVE  Behaves(q)
  <1> DEFINE s == p[q]
             e == Executable(s)
             file == [fs[e] EXCEPT ![3] = "rwx"]
             t == Exited(s, SUCCESS)
  <1>1. s \in States(s.args) /\ Own(s, fs) /\ Typed /\ s.args \in Seq(ToSet(s.args))
    BY Disjointness DEF DriverInv
  <1>2. s.phase = "remove" /\ s.k > Len(s.temps)
    BY DEF MakeExecutable
  <1>3. CASE s.result # SUCCESS /\ Exit(q, s.result) /\ UNCHANGED fs
    <2>1. s.result \in Int
      BY <1>1 DEF States
    <2> QED BY <2>1, <1>3, QuietExit
  <1>4. CASE Exit(q, IO_ERROR) /\ UNCHANGED fs
    <2>1. IO_ERROR \in Int /\ IO_ERROR # SUCCESS
      BY DEF IO_ERROR, SUCCESS
    <2> QED BY <2>1, <1>4, QuietExit
  <1>5. CASE s.result = SUCCESS /\ Exit(q, SUCCESS) /\ fs' = Put(e, file)
    <2>1. SUCCESS \in Int
      BY DEF SUCCESS
    <2>2. /\ p' = [p EXCEPT ![q] = t] /\ t \in States(s.args) /\ t.phase = "exit"
          /\ t.temps = s.temps /\ t.link = s.link /\ t.pre = s.pre
          /\ t.syntax = s.syntax /\ t.args = s.args /\ t.output = s.output
          /\ t.sources = s.sources /\ t.inputs = s.inputs /\ t.freestanding = s.freestanding
      BY <1>1, <1>5, <2>1, ExitProps
    <2>3. Scanned(s, Len(s.args)) /\ TempsNamed(s) /\ Advanced(s) /\ Stored(s, fs)
      BY <1>1, <1>2 DEF Own, Parsed, Working
    <2>4. e \in Outputs(s.args)
      BY <1>1, <2>3, WritesOutputs
    <2>5. Links(s) /\ e \in DOMAIN fs /\ IsProgram(s, fs[e], "rw")
      BY <1>2, <2>3 DEF Advanced, Stored
    <2> HIDE DEF t
    <2>6. /\ Links(t) /\ ~NamesObjects(t) /\ ~Working(t) /\ ~Compiling(t) /\ Executable(t) = e
      BY <2>2, <2>5 DEF Links, NamesObjects, Working, Compiling, Executable
    <2>7. IsProgram(t, file, "rwx")
      <3>1. fs[e] = <<"program", fs[e][2], "rw">> /\ IsWanted(s, fs[e][2])
        BY <2>5 DEF IsProgram
      <3> DEFINE content == fs[e][2]
      <3> HIDE DEF content
      <3>2. fs[e] = <<"program", content, "rw">> /\ IsWanted(s, content)
        BY <3>1 DEF content
      <3>3. file = <<"program", content, "rwx">>
        BY <3>2
      <3>4. IsWanted(t, content)
        BY <3>2, <2>2 DEF IsWanted
      <3>5. file[2] = content
        BY <3>3
      <3> HIDE DEF file
      <3> QED BY <3>3, <3>4, <3>5 DEF IsProgram
    <2> HIDE DEF s, e, file
    <2>8. /\ DOMAIN fs' = DOMAIN fs /\ fs'[e] = file
          /\ \A x \in DOMAIN fs : x # e => fs'[x] = fs[x]
      BY <1>5, <2>5 DEF Put
    <2>9. Live(t) = {} /\ Gone(t) \subseteq Gone(s)
      <3>1. \A m \in 1..Len(s.temps) : m < s.k
        BY <1>1, <1>2 DEF States
      <3> QED BY <3>1, <1>2, <1>5, <2>2, <2>6 DEF Live, Gone
    <2>10. Parsed(t) /\ TempsNamed(t) /\ Advanced(t)
      BY <2>2, <2>3, <2>6 DEF Parsed, Scanned, TempsNamed, Advanced
    <2>11. Stored(t, fs')
      BY <2>2, <2>5, <2>6, <2>7, <2>8, <2>9 DEF Stored
    <2>12. Typed' /\ p'[q] = t /\ (\A r \in Procs \ {q} : p'[r] = p[r])
      BY <1>1, <2>2, StepTyped DEF s
    <2> QED BY <2>2, <2>4, <2>8, <2>9, <2>10, <2>11, <2>12 DEF Behaves, Own, s
  <1> QED BY <1>3, <1>4, <1>5 DEF MakeExecutable

-----------------------------------------------------------------------------
LEMMA InitDriverInv ==
  ASSUME Init
  PROVE  DriverInv
  <1>1. ASSUME NEW q \in Procs
        PROVE  /\ p[q].args \in CommandLines[q] /\ p[q] \in States(p[q].args)
               /\ Own(p[q], fs) /\ Live(p[q]) = {} /\ Gone(p[q]) = {}
    <2> DEFINE s == p[q]
    <2> DEFINE A == UNION {CommandLines[r] : r \in Procs}
               F == {Fresh(a, seed) : a \in A, seed \in Seeds}
    <2>1. s \in F /\ s.args \in CommandLines[q]
      <3>1. p \in {z \in [Procs -> F] : \A r \in Procs : z[r].args \in CommandLines[r]}
        BY DEF Init
      <3> HIDE DEF F
      <3> QED BY <3>1, <1>1
    <2>2. PICK seed \in Seeds : s = Fresh(s.args, seed)
      <3> HIDE DEF s, A
      <3>1. PICK a \in A, seed \in Seeds : s = Fresh(a, seed)
        BY <2>1
      <3>2. s.args = a
        BY <3>1 DEF Fresh
      <3> QED BY <3>1, <3>2
    <2> DEFINE args == s.args
    <2>3. s = Fresh(args, seed) /\ args \in Seq(ToSet(args)) /\ seed \in 1..Len(RandCycle)
      BY <2>1, <2>2, DriverAssumption
    <2> HIDE DEF s, args
    <2>4. <<>> \in Seq(OfType(args, "source")) /\ <<>> \in Seq(Inputs(args) \cup TempNames)
          /\ <<>> \in Seq(TempNames)
      BY EmptySeq
    <2>5. s \in States(args)
      BY <2>3, <2>4 DEF Fresh, States
    <2>6. /\ s.args = args /\ s.k = 1 /\ s.phase = "args" /\ s.temps = <<>> /\ s.sources = <<>>
          /\ s.inputs = <<>>
      BY <2>3 DEF Fresh
    <2>7. Scanned(s, s.k - 1)
      <3>1. s.k - 1 = 0 /\ 0 \in 0..Len(args) /\ Len(s.sources) = 0 /\ Len(s.inputs) = 0 /\ Len(s.temps) = 0
        BY <2>3, <2>6
      <3>2. Count(args, "source", 0) = 0 /\ Count(args, "object", 0) = 0
        BY CountProps
      <3>3. Scanned(s, 0)
        BY <3>1, <3>2, <2>6 DEF Scanned
      <3> QED BY <3>1, <3>3
    <2>8. Own(s, fs) /\ Live(s) = {} /\ Gone(s) = {}
      BY <2>5, <2>6, <2>7, WhileParsing
    <2> QED BY <2>1, <2>5, <2>6, <2>8 DEF s
  <1>2. p = [q \in Procs |-> p[q]] /\ DOMAIN fs \subseteq TempNames
    BY DriverAssumption DEF Init
  <1>3. Typed
    BY <1>1, <1>2 DEF Typed
  <1>4. Apart /\ Reused
    BY <1>1 DEF Apart, Reused
  <1>5. InputsKept
    BY <1>1, <1>2, <1>3, Disjointness DEF InputsKept
  <1> QED BY <1>1, <1>3, <1>4, <1>5 DEF DriverInv

LEMMA NextDriverInv ==
  ASSUME DriverInv, [Next]_vars
  PROVE  DriverInv'
  <1>1. ASSUME NEW q \in Procs, Run(q) PROVE Behaves(q)
    BY <1>1, TakeFlagBehaves, FlagEndsBehaves, TakeFileBehaves, MissingInputBehaves,
       CheckCommandLineBehaves, NameObjectBehaves, DrawNameBehaves, MakeTempFileBehaves,
       NameTakenBehaves, TempFileFailsBehaves,
       CompileOkBehaves, CompileFailsBehaves, NothingToLinkBehaves, LinkOkBehaves,
       LinkFailsBehaves, RemoveTempBehaves, RemoveFailsBehaves, MakeExecutableBehaves DEF Run
  <1>2. CASE \E q \in Procs : Run(q)
    BY <1>1, <1>2, BehavesKeeps
  <1>3. CASE UNCHANGED vars
    BY <1>3 DEF vars, DriverInv, Typed, Apart, Reused, InputsKept
  <1> QED BY <1>2, <1>3 DEF Next, AllExited

(***************************************************************************)
(* However any number of ncc processes interleave: each has read its       *)
(* command line as it is, numbers its temporary objects as its sources,    *)
(* works with no temporary object of another process, and finds in its own *)
(* ones what compile_file wrote there.                                     *)
(***************************************************************************)
THEOREM DriverIsSound == Spec => []DriverInv
  <1>1. Init => DriverInv
    BY InitDriverInv
  <1>2. DriverInv /\ [Next]_vars => DriverInv'
    BY NextDriverInv
  <1> QED BY <1>1, <1>2, PTL DEF Spec

LEMMA DriverInvSuffices ==
  ASSUME DriverInv
  PROVE  SuccessMeansDone
  <1> SUFFICES ASSUME NEW q \in Procs
               PROVE  /\ ProgramWritten(p[q]) /\ ObjectsWritten(p[q])
                      /\ Succeeded(p[q]) => Removed(q)
    BY DEF SuccessMeansDone
  <1> DEFINE s == p[q]
  <1>1. s \in States(s.args) /\ Own(s, fs) /\ Reused /\ s.args \in Seq(ToSet(s.args))
    BY Disjointness DEF DriverInv
  <1> HIDE DEF s
  <1>2. ProgramWritten(s)
    BY <1>1 DEF ProgramWritten, Own, Stored
  <1>3. ObjectsWritten(s)
    <2> SUFFICES ASSUME Succeeded(s), NamesObjects(s), ~SameName(s), NEW a \in OfType(s.args, "source")
                 PROVE  ObjectName(a) \in DOMAIN fs /\ fs[ObjectName(a)] = ObjectOf(a)
      BY DEF ObjectsWritten
    <2>1. a.t = "source" /\ \E x \in 1..Len(s.args) : a = s.args[x]
      BY <1>1 DEF OfType, ToSet
    <2>2. PICK x \in 1..Len(s.args) : a = s.args[x]
      BY <2>1
    <2>3. Scanned(s, Len(s.args))
      BY <1>1 DEF Own, Parsed
    <2> DEFINE j == Count(s.args, "source", x)
    <2>4. j \in 1..Len(s.sources)
      <3>1. Len(s.args) \in Nat
        BY <1>1
      <3>2. j \in 1..Count(s.args, "source", Len(s.args))
        BY <3>1, <2>1, <2>2, CountPlace
      <3> QED BY <3>2, <2>3 DEF Scanned
    <2>5. s.sources[j] = a
      BY <2>1, <2>2, <2>3 DEF Scanned
    <2> HIDE DEF j
    <2> QED BY <2>4, <2>5, <1>1 DEF Own, Stored
  <1>4. ASSUME Succeeded(s) PROVE Removed(q)
    <2>1. \A x \in ToSet(s.temps) : \E j \in 1..Len(s.temps) : x = s.temps[j]
      <3>1. s.temps \in Seq(TempNames)
        BY <1>1 DEF States
      <3> QED BY <3>1 DEF ToSet
    <2>2. ToSet(s.temps) \subseteq Gone(s)
      BY <2>1, <1>4 DEF Gone
    <2> QED BY <2>2, <1>1 DEF Reused, Removed, s
  <1> QED BY <1>2, <1>3, <1>4 DEF s

(***************************************************************************)
(* If ncc exits with SUCCESS, the executable is made of its own inputs,    *)
(* each once and in order, or with -c every object is there, and its own   *)
(* temporary objects are gone, whatever the other processes do.            *)
(***************************************************************************)
THEOREM SuccessIsTrue == Spec => []SuccessMeansDone
  BY DriverIsSound, DriverInvSuffices, PTL
=============================================================================
