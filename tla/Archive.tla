------------------------------- MODULE Archive -------------------------------
(***************************************************************************)
(* Archives: nar (src/src/bin/nar.c) writes one, the linker                *)
(* (src/src/backend/elf.c, AR_FILE_TYPE) walks it member by member.  The   *)
(* two agree only through file positions: a header is 60 bytes at an even  *)
(* position, the member follows it, and the decimal size in the header     *)
(* leads to the next one.                                                  *)
(*                                                                         *)
(* A member is [long, size]: whether its name is longer than 16 bytes, and *)
(* its size, or Absent for a file nar cannot open.  The archive is the     *)
(* headers it holds, by position, and its length.                          *)
(***************************************************************************)
EXTENDS Integers, Sequences

CONSTANTS
  Files,     \* the sequences of input files nar may be given
  ChunkSize, \* sizeof read_buf
  Absent

GlobalHeader == 8
HeaderSize == 60
LongName == 20    \* the length of a name in the table of long names, with its '\n'

(* Chunks are not empty, and a file has a size unless it cannot be opened. *)
ASSUME ArchiveAssumption ==
  /\ ChunkSize \in Nat \ {0}
  /\ Files \subseteq Seq([long : BOOLEAN, size : Nat] \cup {Absent})

VARIABLES
  args,     \* the input files
  i,        \* the next one
  pos,      \* the position of nar in ar_file, then of the linker in input_file
  left,     \* bytes_left
  longs,    \* too_long_filenames.size
  headers,  \* position |-> [kind, size, member]
  end,      \* the length of the archive
  stage,    \* "next", "copy", "table", "written", "failed", "read", "seek", "done"
  found,    \* the members handed to process_elf_file
  start     \* file_start + file_size_bytes of the member being read

archiveVars == <<args, i, pos, left, longs, headers, end, stage, found, start>>

ArchiveInitWith(inputs) ==
  /\ args = inputs
  /\ i = 1 /\ pos = GlobalHeader /\ left = 0 /\ longs = 0
  /\ headers = <<>> /\ end = GlobalHeader
  /\ stage = "next" /\ found = <<>> /\ start = 0

ArchiveInit == \E inputs \in Files : ArchiveInitWith(inputs)

Even(p) == IF p % 2 = 1 THEN p + 1 ELSE p

(* nar: file headers are aligned to even byte boundaries. *)
WriterAligned(p) == Even(p)

(* The linker: file headers are aligned to even byte boundaries. *)
ReaderAligned(p) == Even(p)

WriteHeader(p, header) ==
  /\ headers' = [x \in DOMAIN headers \cup {p} |-> IF x = p THEN header ELSE headers[x]]
  /\ pos' = p + HeaderSize /\ end' = p + HeaderSize

-----------------------------------------------------------------------------
(* nar *)
AddMember ==
  /\ stage = "next" /\ i <= Len(args) /\ args[i] # Absent
  /\ WriteHeader(WriterAligned(pos), [kind |-> IF args[i].long THEN "/n" ELSE "name/",
                                size |-> args[i].size, member |-> i])
  /\ longs' = IF args[i].long THEN longs + LongName ELSE longs
  /\ left' = args[i].size
  /\ stage' = "copy"
  /\ UNCHANGED <<args, i, found, start>>

CannotOpen ==
  /\ stage = "next" /\ i <= Len(args) /\ args[i] = Absent
  /\ stage' = "failed"
  /\ UNCHANGED <<args, i, pos, left, longs, headers, end, found, start>>

CopyChunk ==
  LET n == IF left < ChunkSize THEN left ELSE ChunkSize
  IN  /\ stage = "copy" /\ left # 0
      /\ left' = left - n
      /\ pos' = pos + n /\ end' = end + n
      /\ UNCHANGED <<args, i, longs, headers, stage, found, start>>

Copied ==
  /\ stage = "copy" /\ left = 0
  /\ i' = i + 1 /\ stage' = "next"
  /\ UNCHANGED <<args, pos, left, longs, headers, end, found, start>>

(* The table of long names is the last member. *)
WriteNames ==
  /\ stage = "next" /\ i > Len(args) /\ longs # 0
  /\ headers' = [x \in DOMAIN headers \cup {WriterAligned(pos)} |->
                   IF x = WriterAligned(pos) THEN [kind |-> "//", size |-> longs, member |-> 0]
                   ELSE headers[x]]
  /\ pos' = WriterAligned(pos) + HeaderSize + longs /\ end' = pos'
  /\ stage' = "written"
  /\ UNCHANGED <<args, i, left, longs, found, start>>

NoNames ==
  /\ stage = "next" /\ i > Len(args) /\ longs = 0
  /\ stage' = "written"
  /\ UNCHANGED <<args, i, pos, left, longs, headers, end, found, start>>

-----------------------------------------------------------------------------
(* The linker; nar leaves what it has written behind when it fails. *)
OpenArchive ==
  /\ stage \in {"written", "failed"}
  /\ pos' = GlobalHeader /\ stage' = "read"
  /\ UNCHANGED <<args, i, left, longs, headers, end, found, start>>

EndOfArchive ==
  /\ stage = "read" /\ ReaderAligned(pos) + HeaderSize > end
  /\ stage' = "done"
  /\ UNCHANGED <<args, i, pos, left, longs, headers, end, found, start>>

SpecialNames == {"/", "//"}

ReadHeader_AllMembers ==
  LET p == ReaderAligned(pos)
  IN  /\ stage = "read" /\ p + HeaderSize <= end
      /\ p \in DOMAIN headers
      /\ found' = Append(found, headers[p].member)
      /\ start' = p + HeaderSize + headers[p].size
      /\ stage' = "seek"
      /\ UNCHANGED <<args, i, pos, left, longs, headers, end>>

(* Special members are left alone, any other goes through                  *)
(* process_elf_file, which moves the position.                             *)
ReadHeader ==
  LET p == ReaderAligned(pos)
  IN  /\ stage = "read" /\ p + HeaderSize <= end
      /\ p \in DOMAIN headers
      /\ found' = IF headers[p].kind \in SpecialNames THEN found
                  ELSE Append(found, headers[p].member)
      /\ start' = p + HeaderSize + headers[p].size
      /\ stage' = "seek"
      /\ UNCHANGED <<args, i, pos, left, longs, headers, end>>

SkipMember ==
  /\ stage = "seek"
  /\ pos' = start /\ stage' = "read"
  /\ UNCHANGED <<args, i, left, longs, headers, end, found, start>>

AllMembersRead == stage \in {"done"} /\ UNCHANGED archiveVars

ArchiveNext ==
  \/ AddMember \/ CannotOpen \/ CopyChunk \/ Copied \/ WriteNames \/ NoNames
  \/ OpenArchive \/ EndOfArchive \/ ReadHeader \/ SkipMember \/ AllMembersRead

ArchiveSpec == ArchiveInit /\ [][ArchiveNext]_archiveVars

-----------------------------------------------------------------------------
(* The linker's assertion on the magic bytes holds. *)
HeadersFound ==
  stage = "read" /\ ReaderAligned(pos) + HeaderSize <= end => ReaderAligned(pos) \in DOMAIN headers

(* No member runs into the next or past the end. *)
MembersDisjoint ==
  /\ \A p, q \in DOMAIN headers :
       p < q => p + HeaderSize + headers[p].size <= q
  /\ stage = "written" => \A p \in DOMAIN headers : p + HeaderSize + headers[p].size <= end

(***************************************************************************)
(* The linker finds exactly the members nar wrote, in order: all of them,  *)
(* or the ones before the file nar could not open, for every mix of odd    *)
(* and even sizes.                                                         *)
(***************************************************************************)
ReadBack ==
  /\ HeadersFound /\ MembersDisjoint
  /\ stage = "done" => found = [x \in 1..(i - 1) |-> x]
==============================================================================
