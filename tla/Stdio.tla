------------------------------- MODULE Stdio --------------------------------
(***************************************************************************)
(* Streams and formatted output of the C library, src/libc: fopen, fread,  *)
(* fwrite, fseek, ftell and fclose over the system calls read, write and   *)
(* lseek, printf_impl with its integer conversions, and the sinks it       *)
(* prints to, a stream (file_sink) or a string (string_sink).              *)
(*                                                                         *)
(* One file and one stream.  A byte is a number; Junk is a byte the program *)
(* has not set.  read and write may transfer less than they are asked for, *)
(* or fail, at every call.  A format is a sequence of items: bytes to print *)
(* ("text"), numbers ("d", "u", "x", "ld", "lu"), an unknown conversion    *)
(* ("other", "l?"), or a % with nothing behind it ("end").                 *)
(***************************************************************************)
EXTENDS Integers, SequencesExt, FiniteSetsExt

CONSTANTS
  FileBytes,        \* what the file holds at first
  ItemSizes, ItemCounts,  \* size and nmemb of fread and fwrite
  Formats,          \* the formats printed
  Rooms,            \* sizes of the strings printed to
  LongBits,         \* the width of long
  MaxCalls          \* bound: calls the program makes

VARIABLES
  disk,   \* the contents of the file
  mode,   \* how the stream is open: "r", "w" or "closed"
  at,     \* the file offset
  flags,  \* the FILE: eof and error
  call,   \* the call being made, or the last one made
  calls   \* how many have been made

streamVars == <<disk, mode, at, flags, call, calls>>

Junk == -1
NoCall == [fn |-> "none", stage |-> "returned"]
Minus == 45

ASSUME WidthAssumption == LongBits \in Nat \ {0}

StreamInit ==
  /\ disk = FileBytes
  /\ mode = "closed" /\ at = 0 /\ flags = [eof |-> FALSE, error |-> FALSE]
  /\ call = NoCall /\ calls = 0

-----------------------------------------------------------------------------
(* A call starts when the one before it has returned. *)
MayCall == call.stage = "returned" /\ calls < MaxCalls

(* A call of one step. *)
AtOnce == MayCall /\ calls' = calls + 1 /\ call' = NoCall

(* A call of several, with where the stream and the file were at its start. *)
Start(fields) ==
  /\ MayCall /\ mode # "closed"
  /\ calls' = calls + 1
  /\ call' = fields @@ [stage |-> "running", at0 |-> at, disk0 |-> disk, failed |-> FALSE]
  /\ UNCHANGED <<disk, mode, at, flags>>

In(fns) == call.stage = "running" /\ call.fn \in fns
Return(ret, fields) == call' = fields @@ [ret |-> ret, stage |-> "returned"] @@ call

(* fopen: "w" truncates; eof and error are what malloc left there. *)
Fopen ==
  /\ AtOnce /\ mode = "closed"
  /\ \E m \in {"r", "w"}, e, f \in BOOLEAN :
       /\ mode' = m /\ at' = 0 /\ flags' = [eof |-> e, error |-> f]
       /\ disk' = IF m = "w" THEN <<>> ELSE disk

FopenFails == AtOnce /\ mode = "closed" /\ UNCHANGED <<disk, mode, at, flags>>

(* malloc found no memory for the FILE, and fd is stored through NULL. *)
FopenCrashes ==
  /\ MayCall /\ mode = "closed"
  /\ calls' = calls + 1 /\ call' = [NoCall EXCEPT !.stage = "aborted"]
  /\ UNCHANGED <<disk, mode, at, flags>>

Fclose ==
  /\ AtOnce /\ mode # "closed"
  /\ mode' = "closed"
  /\ UNCHANGED <<disk, at, flags>>

(* lseek refuses a negative offset and the stream stays where it is. *)
Fseek ==
  \E base \in {0, at, Len(disk)}, offset \in {-1, 0, 2} :
    /\ AtOnce /\ mode # "closed"
    /\ at' = IF base + offset < 0 THEN at ELSE base + offset
    /\ UNCHANGED <<disk, mode, flags>>

-----------------------------------------------------------------------------
Fread == \E size \in ItemSizes, nmemb \in ItemCounts :
           Start([fn |-> "fread", size |-> size, nmemb |-> nmemb, buf |-> <<>>])

ToRead == call.size * call.nmemb - Len(call.buf)

ReadBytes ==
  /\ In({"fread"}) /\ mode = "r" /\ ToRead > 0
  /\ \E k \in 1..Min({ToRead, Len(disk) - at}) :
       /\ call' = [call EXCEPT !.buf = @ \o SubSeq(disk, at + 1, at + k)]
       /\ at' = at + k
  /\ UNCHANGED <<disk, mode, flags, calls>>

ReadNothing_ReturnsBytes == Return(Len(call.buf), [buf |-> call.buf])

ReadNothing == Return(Len(call.buf) \div call.size, [buf |-> call.buf])

ReadEnd ==
  /\ In({"fread"}) /\ mode = "r" /\ ToRead > 0 /\ at >= Len(disk)
  /\ flags' = [eof |-> TRUE, error |-> FALSE]
  /\ ReadNothing
  /\ UNCHANGED <<disk, mode, at, calls>>

ReadFails ==
  /\ In({"fread"}) /\ ToRead > 0
  /\ flags' = [eof |-> FALSE, error |-> TRUE]
  /\ Return(-1, [failed |-> TRUE])
  /\ UNCHANGED <<disk, mode, at, calls>>

ReadAll ==
  /\ In({"fread"}) /\ ToRead = 0
  /\ Return(call.nmemb, [failed |-> FALSE])
  /\ UNCHANGED <<disk, mode, at, flags, calls>>

-----------------------------------------------------------------------------
(* The bytes of the file once these have been written at an offset. *)
Written(file, offset, bytes) ==
  IF bytes = <<>> THEN file
  ELSE [k \in 1..Max({Len(file), offset + Len(bytes)}) |->
     IF k > offset /\ k <= offset + Len(bytes) THEN bytes[k - offset]
     ELSE IF k <= Len(file) THEN file[k] ELSE 0]

Data(n) == [k \in 1..n |-> 200 + k]
Fwrite == \E size \in ItemSizes, nmemb \in ItemCounts :
            Start([fn |-> "fwrite", size |-> size, nmemb |-> nmemb, data |-> Data(size * nmemb), done |-> 0, short |-> FALSE])

(* Every write is asked for the whole length again, from where the last one *)
(* stopped: after a short one it reads what lies behind the data.           *)
WriteBytes ==
  LET total == call.size * call.nmemb
  IN  /\ In({"fwrite"}) /\ mode = "w" /\ call.done # total
      /\ \E k \in 1..total :
           /\ disk' = Written(disk, at, [x \in 1..k |-> IF call.done + x <= total THEN call.data[call.done + x] ELSE Junk])
           /\ at' = at + k
           /\ call' = [call EXCEPT !.done = @ + k, !.short = @ \/ k < total,
                                   !.stage = IF call.done + k > total THEN "overrun" ELSE @]
      /\ UNCHANGED <<mode, flags, calls>>

WriteFails ==
  /\ In({"fwrite"}) /\ call.done # call.size * call.nmemb
  /\ Return(call.done \div call.size, [failed |-> TRUE])
  /\ UNCHANGED <<disk, mode, at, flags, calls>>

WriteAll ==
  /\ In({"fwrite"}) /\ call.done = call.size * call.nmemb
  /\ Return(call.nmemb, [failed |-> FALSE])
  /\ UNCHANGED <<disk, mode, at, flags, calls>>

-----------------------------------------------------------------------------
(* printf_impl *)
Digit(d) == IF d < 10 THEN 48 + d ELSE 87 + d

(* The loop that finds the divisor: one factor for each digit but the last. *)
Factors(radix) ==
  LET f[x \in 0..2^LongBits] == IF x \div radix = 0 THEN 0 ELSE 1 + f[x \div radix]
  IN  f

(* The digits from the divisor down, those that are 0 included. *)
print_unsigned(x, radix) ==
  LET factors == Factors(radix)[x]
  IN  [k \in 1..(factors + 1) |-> Digit((x \div radix^(factors + 1 - k)) % radix)]

(* -x is computed in a long, then read as an unsigned long. *)
print_integer(x) ==
  IF x < 0 THEN <<Minus>> \o print_unsigned((-x) % 2^LongBits, 10) ELSE print_unsigned(x, 10)

Chars(item) ==
  CASE item.k = "text" -> item.bytes
    [] item.k \in {"d", "ld"} -> print_integer(item.n)
    [] item.k \in {"u", "lu"} -> print_unsigned(item.n, 10)
    [] item.k = "x" -> print_unsigned(item.n, 16)
    [] OTHER -> <<>>

Signed(item) == item.k \in {"d", "ld"} /\ item.n < 0

Printing(fn, format, room) ==
  [fn |-> fn, items |-> format, i |-> 0, todo |-> <<>>, count |-> 0, lost |-> FALSE,
   str |-> [k \in 1..room |-> Junk], index |-> 0]

(* fprintf and vfprintf print to the stream. *)
Fprintf == \E format \in Formats : Start(Printing("fprintf", format, 0))

(* sprintf, snprintf, vsprintf and vsnprintf print to a string.  They have  *)
(* no part in the stream, so one such call is all the program makes.        *)
StringCall(fn, format, room) ==
  /\ calls = 0
  /\ calls' = MaxCalls
  /\ call' = Printing(fn, format, room) @@ [stage |-> "running", at0 |-> at, disk0 |-> disk, failed |-> FALSE]
  /\ UNCHANGED <<disk, mode, at, flags>>

Sprintf == \E format \in Formats, fn \in {"sprintf", "vsprintf"} : StringCall(fn, format, Max(Rooms))
Snprintf == \E format \in Formats, fn \in {"snprintf", "vsnprintf"}, room \in Rooms : StringCall(fn, format, room)

PrintFns == {"fprintf", "sprintf", "vsprintf", "snprintf", "vsnprintf"}
InFormat == In(PrintFns) /\ call.todo = <<>> /\ call.i < Len(call.items)

(* A string ends where printf_impl says it does, so after an error it ends  *)
(* before it begins; the va_list functions leave out or keep the end.       *)
Terminated(ret) ==
  LET end == IF call.fn = "snprintf" /\ ret = Len(call.str) THEN ret - 1 ELSE ret
      value == IF call.fn = "snprintf" /\ ret = Len(call.str) THEN ret ELSE ret + 1
  IN  IF call.fn \in {"fprintf", "vsprintf", "vsnprintf"} THEN Return(ret, [i |-> call.i])
      ELSE IF end \notin 0..(Len(call.str) - 1) THEN call' = [call EXCEPT !.stage = "overrun"]
      ELSE Return(value, [str |-> [call.str EXCEPT ![end + 1] = 0]])

NextItem ==
  LET item == call.items[call.i + 1]
  IN  /\ InFormat
      /\ IF item.k = "end" THEN Terminated(-1)
         ELSE IF item.k = "l?" THEN call' = [call EXCEPT !.stage = "aborted"]
         ELSE call' = [call EXCEPT !.i = @ + 1, !.todo = Chars(item), !.count = @ + Len(Chars(item))]
      /\ UNCHANGED <<disk, mode, at, flags, calls>>

InText(fns) == In(fns) /\ call.todo # <<>>

(* file_sink: fputc writes one byte. *)
PutByte ==
  /\ InText({"fprintf"}) /\ mode = "w"
  /\ disk' = Written(disk, at, <<Head(call.todo)>>) /\ at' = at + 1
  /\ call' = [call EXCEPT !.todo = Tail(@)]
  /\ UNCHANGED <<mode, flags, calls>>

(* print_integer adds the error to the sign it has counted, which gives 0:  *)
(* the number is given up and the format goes on.                           *)
PutFails ==
  LET item == call.items[call.i]
      behindSign == Signed(item) /\ Len(call.todo) < Len(Chars(item))
  IN  /\ InText({"fprintf"})
      /\ IF behindSign
           THEN call' = [call EXCEPT !.todo = <<>>, !.count = @ - Len(Chars(item)), !.lost = TRUE, !.failed = TRUE]
         ELSE Return(-1, [failed |-> TRUE])
      /\ UNCHANGED <<disk, mode, at, flags, calls>>

(* string_sink: bytes beyond the limit are counted and dropped. *)
Limited == call.fn \in {"snprintf", "vsnprintf"}
StoreByte ==
  /\ InText(PrintFns \ {"fprintf"})
  /\ IF call.index < Len(call.str)
       THEN call' = [call EXCEPT !.todo = Tail(@), !.str[call.index + 1] = Head(call.todo), !.index = @ + 1]
     ELSE IF Limited THEN call' = [call EXCEPT !.todo = Tail(@)]
     ELSE call' = [call EXCEPT !.stage = "overrun"]
  /\ UNCHANGED <<disk, mode, at, flags, calls>>

PrintAll ==
  /\ In(PrintFns) /\ call.todo = <<>> /\ call.i = Len(call.items)
  /\ Terminated(call.count)
  /\ UNCHANGED <<disk, mode, at, flags, calls>>

-----------------------------------------------------------------------------
(* The program ends, or has come to grief. *)
StreamDone == (call.stage \in {"overrun", "aborted"} \/ (call.stage = "returned" /\ calls = MaxCalls)) /\ UNCHANGED streamVars

StreamNext ==
  \/ Fopen \/ FopenFails \/ FopenCrashes \/ Fclose \/ Fseek
  \/ Fread \/ ReadBytes \/ ReadEnd \/ ReadFails \/ ReadAll
  \/ Fwrite \/ WriteBytes \/ WriteFails \/ WriteAll
  \/ Fprintf \/ Sprintf \/ Snprintf \/ NextItem \/ PutByte \/ PutFails \/ StoreByte \/ PrintAll
  \/ StreamDone

-----------------------------------------------------------------------------
(* What C says of a number (7.19.6.1): its digits, without zeros in front. *)
Numeral(radix) ==
  LET f[n \in 0..2^LongBits] == IF n < radix THEN <<Digit(n)>> ELSE Append(f[n \div radix], Digit(n % radix))
  IN  f

Meant(item) ==
  CASE item.k = "text" -> item.bytes
    [] item.k \in {"d", "ld"} -> IF item.n < 0 THEN <<Minus>> \o Numeral(10)[-item.n] ELSE Numeral(10)[item.n]
    [] item.k \in {"u", "lu"} -> Numeral(10)[item.n]
    [] item.k = "x" -> Numeral(16)[item.n]
    [] OTHER -> <<>>

MeantText == FlattenSeq([k \in DOMAIN call.items |-> Meant(call.items[k])])
WellFormed == \A k \in DOMAIN call.items : call.items[k].k \notin {"end", "l?"}

HasReturned(fns) == call.stage = "returned" /\ call.fn \in fns

(* The stream has moved over the bytes between at0 and at. *)
Moved == at - call.at0

(* The bytes that were there, in order, whatever the sizes of the transfers. *)
ReadsRight ==
  /\ call.fn = "fread" /\ mode = "r" => call.buf = SubSeq(disk, call.at0 + 1, at)
  /\ HasReturned({"fread"}) /\ call.size # 0 =>
       IF call.failed THEN call.ret = -1 /\ flags.error /\ ~flags.eof
       ELSE /\ call.ret = Len(call.buf) \div call.size
            /\ call.ret < call.nmemb => flags.eof /\ at >= Len(disk)

(* Up to the first write that is neither complete nor refused. *)
WritesRight ==
  call.fn = "fwrite" /\ ~call.short =>
    /\ disk = Written(call.disk0, call.at0, SubSeq(call.data, 1, Moved))
    /\ call.stage # "overrun"
    /\ HasReturned({"fwrite"}) =>
         (call.ret = call.nmemb /\ Moved = Len(call.data)) \/ (call.failed /\ call.ret = 0 /\ Moved = 0)

(* Unless the error inside a negative number was lost. *)
PrintsRight ==
  call.fn = "fprintf" /\ ~call.lost =>
    /\ disk = Written(call.disk0, call.at0, SubSeq(MeantText, 1, Moved))
    /\ HasReturned({"fprintf"}) /\ WellFormed =>
         IF call.failed THEN call.ret < 0 ELSE call.ret = Len(MeantText) /\ Moved = call.ret

(* The text has room, the end with it, or snprintf is short of the end only. *)
HasRoom ==
  \/ Len(MeantText) < Len(call.str)
  \/ call.fn = "snprintf" /\ call.str # <<>> /\ Len(MeantText) = Len(call.str)

(* The string holds as much of the text as it can with its end behind it. *)
StringsRight ==
  call.fn \in {"sprintf", "snprintf"} /\ WellFormed /\ HasRoom =>
    LET kept == Min({Len(MeantText), Len(call.str) - 1})
    IN  /\ call.stage # "overrun"
        /\ HasReturned({call.fn}) =>
             call.str = SubSeq(MeantText, 1, kept) \o <<0>> \o [k \in 1..(Len(call.str) - kept - 1) |-> Junk]

(* vsprintf and vsnprintf fill what room there is, without an end, and say *)
(* how much there would have been.                                         *)
MeasuresRight ==
  HasReturned({"vsprintf", "vsnprintf"}) /\ WellFormed =>
    /\ call.ret = Len(MeantText)
    /\ LET kept == Min({Len(MeantText), Len(call.str)})
       IN  call.str = SubSeq(MeantText, 1, kept) \o [k \in 1..(Len(call.str) - kept) |-> Junk]

(***************************************************************************)
(* fread delivers the bytes of the file once and in order through any      *)
(* sequence of short reads, counts whole items, and says end or error when *)
(* it stops early.  fwrite and fprintf leave exactly their data, or a part *)
(* of it and an error, at the offset that opens and seeks before them set. *)
(* Numbers come out as C spells them up to the smallest long, and a string *)
(* is not written outside where the text has room.                         *)
(***************************************************************************)
StreamsRight ==
  call.fn # "none" => ReadsRight /\ WritesRight /\ PrintsRight /\ StringsRight /\ MeasuresRight
=============================================================================
