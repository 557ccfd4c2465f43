------------------------------- MODULE Driver -------------------------------
(***************************************************************************)
(* The compiler driver, src/src/bin/ncc.c: options, one compile_file per   *)
(* source, the link, and the clean-up of temporary object files, for       *)
(* several ncc processes that share the file system (make_temp_file and    *)
(* make_file_executable of src/src/file.c).                                *)
(*                                                                         *)
(* An argument is [t, ...]: "flag", "source" [dir, base], "object" [path]  *)
(* or "absent" (a file that cannot be opened).  What the front end and the *)
(* linker answer is the environment's choice; Linker models the latter.    *)
(***************************************************************************)
EXTENDS Integers, FiniteSetsExt, SequencesExt

CONSTANTS
  Procs,      \* the ncc processes
  CommandLines,  \* the argument lists each process may be started with
  RandCycle,  \* the temporary names in the order in which rand() leads to them, a cycle
  Seeds,      \* where in the cycle srand(time(NULL)) may start
  Leftovers   \* the sets of temporary objects that earlier runs may have left in /tmp

NoFile == <<>>    \* paths and contents are tuples

TempNames == ToSet(RandCycle)

(* The name of the source with ".o", in the current directory. *)
ObjectName(source) == <<source.base, "o">>

(* The files a command line reads, and those it may write. *)
OfType(args, t) == {a \in ToSet(args) : a.t = t}
OutFlags(args) == {a \in OfType(args, "flag") : a.name = "-o"}
Inputs(args) == {a.path : a \in OfType(args, "object")} \cup {<<"libc.a">>}
Outputs(args) ==
  IF OutFlags(args) # {} THEN {a.path : a \in OutFlags(args)}
  ELSE {<<"a.out">>} \cup {ObjectName(a) : a \in OfType(args, "source")}

(* No two processes are given the same output file, and nobody reads what  *)
(* is written meanwhile.                                                   *)
ASSUME DriverAssumption ==
  /\ RandCycle \in Seq(TempNames) /\ Seeds \subseteq 1..Len(RandCycle)
  /\ \A l \in Leftovers : l \subseteq TempNames
  /\ NoFile \notin TempNames
  /\ \A q \in Procs : \A a \in CommandLines[q] :
       /\ a \in Seq(ToSet(a))
       /\ Outputs(a) \cap (TempNames \cup {NoFile}) = {}
       /\ \A r \in Procs : \A b \in CommandLines[r] :
            /\ Inputs(b) \cap (TempNames \cup Outputs(a)) = {}
            /\ q # r => Outputs(a) \cap Outputs(b) = {}

VARIABLES
  fs,   \* the file system: path |-> what is in the file
  p     \* the state of main() in each process

vars == <<fs, p>>

Fresh(args, seed) ==
  [args |-> args, rand |-> seed, k |-> 1, phase |-> "args", code |-> -1,
   link |-> TRUE, syntax |-> FALSE, pre |-> FALSE, freestanding |-> FALSE, output |-> NoFile,
   sources |-> <<>>, inputs |-> <<>>, temps |-> <<>>, object |-> NoFile, result |-> 0]

Init ==
  /\ \E l \in Leftovers : fs = [x \in l |-> <<"left">>]
  /\ p \in {s \in [Procs -> {Fresh(a, seed) : a \in UNION {CommandLines[q] : q \in Procs}, seed \in Seeds}] :
              \A q \in Procs : s[q].args \in CommandLines[q]}

SUCCESS == 0
BAD_CLI == 1
IO_ERROR == 2
INVALID_SOURCE == 3
LINKER_ERROR == 4
UNIMPLEMENTED == 5
INTERNAL_COMPILER_ERROR == 6

Put(path, contents) == [x \in DOMAIN fs \cup {path} |-> IF x = path THEN contents ELSE fs[x]]
Delete(path) == [x \in DOMAIN fs \ {path} |-> fs[x]]

Exit(q, code) == p' = [p EXCEPT ![q].phase = "exit", ![q].code = code]

-----------------------------------------------------------------------------
(* The command line *)
Arg(q) == p[q].args[p[q].k]
Parsing(q) == p[q].phase = "args" /\ p[q].k <= Len(p[q].args)

Step(s) == [s EXCEPT !.k = @ + 1]

(* Flags that only record a choice, and those that end the run. *)
Recording == {"-c", "-E", "-fsyntax-only", "-ffreestanding", "-o", "ignored"}
Record(s, a) ==
  CASE a.name = "-c" -> [s EXCEPT !.link = FALSE]
    [] a.name = "-E" -> [s EXCEPT !.pre = TRUE]
    [] a.name = "-fsyntax-only" -> [s EXCEPT !.syntax = TRUE]
    [] a.name = "-ffreestanding" -> [s EXCEPT !.freestanding = TRUE]
    [] a.name = "-o" -> [s EXCEPT !.output = a.path]
    [] OTHER -> s

TakeFlag(q) ==
  /\ Parsing(q) /\ Arg(q).t = "flag" /\ Arg(q).name \in Recording
  /\ p' = [p EXCEPT ![q] = Step(Record(@, Arg(q)))]
  /\ UNCHANGED fs

(* --version, -std= with anything but c99, -o as the last word, and a flag *)
(* that is not known.                                                      *)
FlagEnds(q) ==
  /\ Parsing(q) /\ Arg(q).t = "flag" /\ Arg(q).name \notin Recording
  /\ Exit(q, CASE Arg(q).name = "--version" -> SUCCESS
               [] Arg(q).name = "-std=c11" -> UNIMPLEMENTED
               [] OTHER -> BAD_CLI)
  /\ UNCHANGED fs

Keep(s, a) == IF a.t = "object" THEN [s EXCEPT !.inputs = Append(@, a.path)]
              ELSE [s EXCEPT !.sources = Append(@, a)]

TakeFile(q) ==
  /\ Parsing(q) /\ Arg(q).t \in {"source", "object"}
  /\ p' = [p EXCEPT ![q] = Step(Keep(@, Arg(q)))]
  /\ UNCHANGED fs

MissingInput(q) ==
  /\ Parsing(q) /\ Arg(q).t = "absent"
  /\ Exit(q, IO_ERROR)
  /\ UNCHANGED fs

CheckCommandLine(q) ==
  LET s == p[q]
      bad == \/ s.sources = <<>> /\ s.inputs = <<>>
             \/ ~s.link /\ s.output # NoFile /\ Len(s.sources) > 1
  IN  /\ s.phase = "args" /\ s.k > Len(s.args)
      /\ IF bad THEN Exit(q, BAD_CLI)
         ELSE p' = [p EXCEPT ![q].phase = "name", ![q].k = 1]
      /\ UNCHANGED fs

-----------------------------------------------------------------------------
Source(q) == p[q].sources[p[q].k]
Naming(q) == p[q].phase = "name" /\ p[q].k <= Len(p[q].sources)

ToCompile(q, object) == [p EXCEPT ![q].phase = "compile", ![q].object = object]

NameObject(q) ==
  LET s == p[q]
  IN  /\ Naming(q)
      /\ s.pre \/ s.syntax \/ ~s.link
      /\ p' = ToCompile(q, CASE s.pre -> s.output
                             [] s.syntax /\ ~s.pre -> NoFile
                             [] OTHER -> IF s.output # NoFile THEN s.output ELSE ObjectName(Source(q)))
      /\ UNCHANGED fs

(* make_temp_file: rand() gives a name, *)
DrawName_Once(q) ==
  /\ Naming(q)
  /\ ~p[q].pre /\ ~p[q].syntax /\ p[q].link
  /\ p' = [p EXCEPT ![q].phase = "open", ![q].object = RandCycle[p[q].rand]]
  /\ UNCHANGED fs

DrawName(q) ==
  /\ Naming(q)
  /\ ~p[q].pre /\ ~p[q].syntax /\ p[q].link
  /\ p' = [p EXCEPT ![q].phase = "open", ![q].object = RandCycle[p[q].rand],
                    ![q].rand = (@ % Len(RandCycle)) + 1]
  /\ UNCHANGED fs

MakeTempFile_NoExclusive(q) ==
  /\ p[q].phase = "open"
  /\ fs' = Put(p[q].object, <<"empty">>)
  /\ p' = [p EXCEPT ![q].phase = "compile", ![q].temps = Append(@, p[q].object),
                    ![q].inputs = Append(@, p[q].object)]

(* and open(O_CREAT | O_EXCL) makes the file, *)
MakeTempFile(q) ==
  /\ p[q].phase = "open" /\ p[q].object \notin DOMAIN fs
  /\ fs' = Put(p[q].object, <<"empty">>)
  /\ p' = [p EXCEPT ![q].phase = "compile", ![q].temps = Append(@, p[q].object),
                    ![q].inputs = Append(@, p[q].object)]

(* or answers EEXIST, and the loop goes on with the next name, *)
NameTaken(q) ==
  /\ p[q].phase = "open" /\ p[q].object \in DOMAIN fs
  /\ p' = [p EXCEPT ![q].phase = "name"]
  /\ UNCHANGED fs

(* or fails for another reason. *)
TempFileFails(q) ==
  /\ p[q].phase = "open"
  /\ Exit(q, IO_ERROR)
  /\ UNCHANGED fs

(* compile_file: what it writes is the preprocessed text, nothing, or the  *)
(* object.                                                                 *)
CompileOk(q) ==
  LET s == p[q]
  IN  /\ s.phase = "compile"
      /\ fs' = IF s.object = NoFile THEN fs
               ELSE Put(s.object, <<IF s.pre THEN "text" ELSE "object of", Source(q)>>)
      /\ p' = [p EXCEPT ![q].phase = "name", ![q].k = @ + 1]

(* A source that is not accepted, a failed assertion or something that is  *)
(* not implemented, an output file that cannot be opened.                  *)
CompileFails(q) ==
  /\ p[q].phase = "compile"
  /\ \E code \in {INVALID_SOURCE, UNIMPLEMENTED, INTERNAL_COMPILER_ERROR, IO_ERROR} :
       /\ code = IO_ERROR => p[q].object # NoFile
       /\ Exit(q, code)
  /\ UNCHANGED fs

-----------------------------------------------------------------------------
(* Linking *)
Compiled(q) == p[q].phase = "name" /\ p[q].k > Len(p[q].sources)

NothingToLink(q) ==
  /\ Compiled(q)
  /\ p[q].pre \/ p[q].syntax \/ ~p[q].link
  /\ Exit(q, SUCCESS)
  /\ UNCHANGED fs

Executable(s) == IF s.output = NoFile THEN <<"a.out">> ELSE s.output

LinkerInputs(q) == p[q].inputs \o IF p[q].freestanding THEN <<>> ELSE <<<<"libc.a">>>>

(* A path that nobody has written since the start holds its own contents. *)
Contents(path) == IF path \in DOMAIN fs THEN fs[path] ELSE path

LinkOk(q) ==
  /\ Compiled(q)
  /\ ~p[q].pre /\ ~p[q].syntax /\ p[q].link
  /\ LET linked == [x \in 1..Len(LinkerInputs(q)) |-> Contents(LinkerInputs(q)[x])]
     IN  fs' = Put(Executable(p[q]), <<"program", linked, "rw">>)
  /\ p' = [p EXCEPT ![q].phase = "remove", ![q].k = 1]

(* The output is truncated before anything is read.                        *)
LinkFails(q) ==
  /\ Compiled(q)
  /\ ~p[q].pre /\ ~p[q].syntax /\ p[q].link
  /\ \/ fs' = fs /\ Exit(q, IO_ERROR)
     \/ /\ fs' = Put(Executable(p[q]), <<"partial">>)
        /\ \E code \in {IO_ERROR, LINKER_ERROR, UNIMPLEMENTED} : Exit(q, code)

RemoveTemp(q) ==
  /\ p[q].phase = "remove" /\ p[q].k <= Len(p[q].temps)
  /\ fs' = Delete(p[q].temps[p[q].k])
  /\ p' = [p EXCEPT ![q].k = @ + 1]

RemoveFails(q) ==
  /\ p[q].phase = "remove" /\ p[q].k <= Len(p[q].temps)
  /\ p' = [p EXCEPT ![q].k = @ + 1, ![q].result = IO_ERROR]
  /\ UNCHANGED fs

MakeExecutable(q) ==
  /\ p[q].phase = "remove" /\ p[q].k > Len(p[q].temps)
  /\ \/ p[q].result # SUCCESS /\ Exit(q, p[q].result) /\ UNCHANGED fs
     \/ p[q].result = SUCCESS /\ Exit(q, SUCCESS)
          /\ fs' = Put(Executable(p[q]), [fs[Executable(p[q])] EXCEPT ![3] = "rwx"])
     \/ p[q].result = SUCCESS /\ Exit(q, IO_ERROR) /\ UNCHANGED fs

AllExited == (\A q \in Procs : p[q].phase = "exit") /\ UNCHANGED vars

Run(q) ==
  \/ TakeFlag(q) \/ FlagEnds(q) \/ TakeFile(q) \/ MissingInput(q) \/ CheckCommandLine(q)
  \/ NameObject(q) \/ DrawName(q) \/ MakeTempFile(q) \/ NameTaken(q) \/ TempFileFails(q)
  \/ CompileOk(q) \/ CompileFails(q)
  \/ NothingToLink(q) \/ LinkOk(q) \/ LinkFails(q)
  \/ RemoveTemp(q) \/ RemoveFails(q) \/ MakeExecutable(q)

Next == (\E q \in Procs : Run(q)) \/ AllExited

Spec == Init /\ [][Next]_vars /\ \A q \in Procs : WF_vars(Run(q))

-----------------------------------------------------------------------------
(* Of the state of one ncc: exit code 0 of a run asked for a result, and   *)
(* which result that is.                                                   *)
Succeeded(s) == /\ s.phase = "exit" /\ s.code = SUCCESS
                /\ \A a \in ToSet(s.args) : a.t = "flag" => a.name # "--version"
Links(s) == s.link /\ ~s.pre /\ ~s.syntax
NamesObjects(s) == ~s.link /\ ~s.pre /\ ~s.syntax /\ s.output = NoFile

ObjectOf(source) == <<"object of", source>>

(* How many of the first n arguments are of type t. *)
Count(args, t, n) == Cardinality({x \in 1..n : args[x].t = t})

(* Linked together: the objects given, the sources, and the library, each  *)
(* in the order of the command line.                                       *)
IsWanted(s, linked) ==
  LET objects == Count(s.args, "object", Len(s.args))
      files == objects + Count(s.args, "source", Len(s.args))
  IN  /\ Len(linked) = IF s.freestanding THEN files ELSE files + 1
      /\ \A x \in 1..Len(s.args) :
           /\ s.args[x].t = "object" => linked[Count(s.args, "object", x)] = s.args[x].path
           /\ s.args[x].t = "source" =>
                linked[objects + Count(s.args, "source", x)] = ObjectOf(s.args[x])
      /\ ~s.freestanding => linked[files + 1] = <<"libc.a">>

IsProgram(s, file, mode) == file = <<"program", file[2], mode>> /\ IsWanted(s, file[2])

(* Linking: made of its own inputs, each once and the library last. *)
ProgramWritten(s) ==
  Succeeded(s) /\ Links(s) =>
    Executable(s) \in DOMAIN fs /\ IsProgram(s, fs[Executable(s)], "rwx")

SameName(s) == \E x, y \in ToSet(s.sources) : x # y /\ ObjectName(x) = ObjectName(y)

(* With -c every source has its object file in the end, if no two sources  *)
(* have the same file name.                                                *)
ObjectsWritten(s) ==
  Succeeded(s) /\ NamesObjects(s) /\ ~SameName(s) =>
    \A x \in OfType(s.args, "source") :
      ObjectName(x) \in DOMAIN fs /\ fs[ObjectName(x)] = ObjectOf(x)

(* No temporary object of its own is left. *)
Removed(q) == \A t \in ToSet(p[q].temps) \cap DOMAIN fs :
                \E r \in Procs \ {q} : t \in ToSet(p[r].temps)

(***************************************************************************)
(* If ncc reports success, what it was asked for is there, the executable  *)
(* or with -c the objects, and made of its own inputs, although another    *)
(* ncc creates and removes temporary objects in the same directory; and    *)
(* its own temporary objects are gone.                                     *)
(***************************************************************************)
SuccessMeansDone ==
  \A q \in Procs :
    ProgramWritten(p[q]) /\ ObjectsWritten(p[q]) /\ (Succeeded(p[q]) => Removed(q))

(* At the start, more names than the files that were left and those that   *)
(* all the processes may make.                                             *)
RoomForAll ==
  LET Needs(q) == Count(p[q].args, "source", Len(p[q].args))
  IN  Cardinality(DOMAIN fs) + MapThenSumSet(Needs, Procs) < Cardinality(TempNames)

(***************************************************************************)
(* Every ncc ends if there is room for its temporary objects, whatever its *)
(* parts answer, whatever earlier runs left behind and although two ncc of *)
(* the same second draw the same names: the loop of make_temp_file, which  *)
(* goes on while a name is taken, gets past the taken ones.                *)
(***************************************************************************)
EveryoneExits == RoomForAll => <>(\A q \in Procs : p[q].phase = "exit")
=============================================================================
