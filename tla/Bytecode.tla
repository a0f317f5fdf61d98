------------------------------ MODULE Bytecode ------------------------------
(***************************************************************************)
(* Bytecode files (bwf.h): writer.c puts a module of word-oriented code    *)
(* into a file, in any version of the format up to its own, and reader.c   *)
(* builds a module from it.  A write can come back short, and closing the  *)
(* file can lose what was still buffered: then a prefix is left.           *)
(* Positions count from 0, as ftell does.                                  *)
(***************************************************************************)
EXTENDS Integers, Sequences, FiniteSets, SequencesExt

CONSTANTS
  Modules,          \* modules the type checker may hand over
  Versions,         \* versions of the format that files have
  ReaderVersion,    \* reader_version_number
  InstructionSize,  \* w_instruction_sizes, zero for an instruction without an entry
  JumpOps,          \* the instructions that is_w_jump names
  TableSizes,       \* for each section, the items a new module has room for
  LocalSize,        \* sizeof(struct local)
  MaxString         \* MODULE_REGION_SIZE: no string is longer than an arena

ASSUME BytecodeAssumption ==
  /\ Versions \subseteq Nat \ {0} /\ ReaderVersion \in Nat
  /\ LocalSize \in Nat /\ MaxString \in Nat

VARIABLES
  module,   \* what is written
  version,  \* the version it is written in
  file,     \* the bytes of the file
  done,     \* how many parts have been written
  outcome,  \* "writing", "written" (exit code 0), "error" or "assertion"
  loader,   \* "none", "reading", "loaded", "rejected", "assertion", or "undefined": freed
            \* memory is in use
  pos,      \* ftell of the reader
  counts,   \* the data-info section it has read
  parsed,   \* how many entries it has read
  ip,       \* where recompute_jump_dests is in the last function, NoCode outside it
  loaded    \* the module it builds

writerVars == <<module, version, file, done, outcome>>
readerVars == <<loader, pos, counts, parsed, ip, loaded>>
bytecodeVars == <<module, version, file, done, outcome, loader, pos, counts, parsed, ip, loaded>>

Sections == <<"strings", "functions", "types", "externals", "libraries">>
NoCode == 0 - 1
-----------------------------------------------------------------------------
(* The layout (bwf.c and writer.c) *)

Int32(n) == [k \in 1 .. 4 |-> (n \div (256 ^ (k - 1))) % 256]
Ints(numbers) == FlattenSeq([i \in DOMAIN numbers |-> Int32(numbers[i])])
If(cond, bytes) == IF cond THEN bytes ELSE <<>>

\* get_field_count: a version stores the first so many sections.
FieldCount(v) == IF v <= 3 THEN 2 ELSE IF v = 4 THEN 3 ELSE 5
Stores(v, section) == \E i \in 1 .. FieldCount(v) : Sections[i] = section

\* find_string: the index of the first equal string.
FindString(name) ==
  LET places == {i \in DOMAIN module.strings : module.strings[i] = name}
  IN  IF places = {} THEN 0 - 1 ELSE (CHOOSE i \in places : \A j \in places : i <= j) - 1

\* Mutant: the three counts of version 4 are forgotten.
FunctionEntrySize_CodeAndLocals(f) ==
  4 + Len(f.code) + (IF version >= 4 THEN Len(f.locals) * 4 ELSE 0)
\* get_function_entry_size, from the version on that writes it.
FunctionEntrySize(f) ==
  4 + Len(f.code) + (IF version >= 4 THEN 3 * 4 + Len(f.locals) * 4 ELSE 0)

Magic == <<66, version, 10>>  \* the header, a byte for each of its fields
DataInfo == If(version >= 2, Int32(FieldCount(version)))
              \o Ints([i \in 1 .. FieldCount(version) |-> Len(module[Sections[i]])])
StringEntry(s) == Int32(Len(s)) \o s
FunctionEntry(f) ==
  If(version >= 3, Int32(FunctionEntrySize(f))) \o Int32(Len(f.code)) \o f.code
    \o If(version >= 4, Ints(<<f.loops, f.locals_size, Len(f.locals)>> \o f.locals))
TypeEntry(t) == Ints(<<12 + 4 * Len(t.fields), t.kind, Len(t.fields), t.words>> \o t.fields)
ExternalEntry(e) ==
  Ints(<<8 + 4 * (Len(e.params) + Len(e.rets)) + 8, Len(e.params), Len(e.rets)>>
         \o e.params \o e.rets \o <<FindString(e.name), e.call_conv>>)
LibraryEntry(l) == Ints(<<4 + 4 * Len(l.items) + 4, Len(l.items)>> \o l.items
                          \o <<FindString(l.filename)>>)

\* The entries of a file, in their order.
Entries(sizes) ==
  FlattenSeq([i \in 1 .. FieldCount(version) |->
                [k \in 1 .. sizes[i] |-> [section |-> Sections[i], index |-> k]]])
Written == Entries([i \in 1 .. 5 |-> Len(module[Sections[i]])])
ItemOf(e) == module[e.section][e.index]
Entry(e) ==
  CASE e.section = "strings" -> StringEntry(ItemOf(e))
    [] e.section = "functions" -> FunctionEntry(ItemOf(e))
    [] e.section = "types" -> TypeEntry(ItemOf(e))
    [] e.section = "externals" -> ExternalEntry(ItemOf(e))
    [] e.section = "libraries" -> LibraryEntry(ItemOf(e))
WholeFile == Magic \o DataInfo \o FlattenSeq([i \in DOMAIN Written |-> Entry(Written[i])])
-----------------------------------------------------------------------------
(* The writer *)

\* What is left of the bytes when only the first k are written.
Stops(bytes, k, how) ==
  /\ file' = file \o SubSeq(bytes, 1, k)
  /\ outcome' = how
  /\ UNCHANGED <<module, version, done, readerVars>>
\* A write goes through, or it comes back short and main exits with the error.
Put(bytes) ==
  \/ /\ file' = file \o bytes
     /\ done' = done + 1
     /\ UNCHANGED <<module, version, outcome, readerVars>>
  \/ \E k \in 0 .. Len(bytes) - 1 : Stops(bytes, k, "error")

Writes(section) ==
  /\ outcome = "writing" /\ done \in 2 .. Len(Written) + 1
  /\ Written[done - 1].section = section
Item == ItemOf(Written[done - 1])

\* write_bytecode_ex: the HEADER section.  What fprintf returns is not looked at.
write_header ==
  /\ outcome = "writing" /\ done = 0
  /\ file' = Magic
  /\ done' = 1
  /\ UNCHANGED <<module, version, outcome, readerVars>>

write_data_info == outcome = "writing" /\ done = 1 /\ Put(DataInfo)

\* "%.*s" ends at a character of value zero.  The count then disagrees with the
\* length and errno is returned, which may well be zero: success.
HasNul(s) == \E i \in DOMAIN s : s[i] = 0
write_string_entry ==
  /\ Writes("strings")
  /\ IF HasNul(Item)
     THEN \E k \in {i \in DOMAIN Item : Item[i] = 0}, how \in {"written", "error"} :
            /\ \A i \in 1 .. k - 1 : Item[i] # 0
            /\ Stops(StringEntry(Item), 4 + k - 1, how)
     ELSE Put(StringEntry(Item))

write_function_entry == Writes("functions") /\ Put(FunctionEntry(Item))
write_type_entry == Writes("types") /\ Put(TypeEntry(Item))

\* The assertions name_index > 0 and filename_index > 0: the name must be in
\* the string table, and not the first one there.  What is still buffered is lost.
Aborts ==
  /\ \E k \in 0 .. Len(file) : file' = SubSeq(file, 1, k)
  /\ outcome' = "assertion"
  /\ UNCHANGED <<module, version, done, readerVars>>
write_ext_function_entry ==
  /\ Writes("externals")
  /\ IF FindString(Item.name) > 0 THEN Put(ExternalEntry(Item))
     ELSE Aborts
write_ext_library_entry ==
  /\ Writes("libraries")
  /\ IF FindString(Item.filename) > 0 THEN Put(LibraryEntry(Item))
     ELSE Aborts

\* main closes the file and does not ask whether that went well.
close_file ==
  /\ outcome = "writing" /\ done = Len(Written) + 2
  /\ \E k \in 0 .. Len(file) : file' = SubSeq(file, 1, k)
  /\ outcome' = "written"
  /\ UNCHANGED <<module, version, done, readerVars>>
-----------------------------------------------------------------------------
(* The reader.  A read past the end of the file fails, and so does all of it.  *)

IntAt(p) ==
  IF p + 4 > Len(file) THEN 0
  ELSE LET high == IF file[p + 4] >= 128 THEN file[p + 4] - 256 ELSE file[p + 4]
       IN  file[p + 1] + 256 * file[p + 2] + 65536 * file[p + 3] + 16777216 * high
IntsAt(p, n, stride) == [i \in 1 .. n |-> IntAt(p + stride * (i - 1))]
\* Mutant: fseek takes the position past the end, where fread would have failed.
InFile_Seeks(end) == pos <= Len(file)
InFile(end) == end <= Len(file)

Reject == loader' = "rejected" /\ UNCHANGED <<writerVars, pos, counts, parsed, ip, loaded>>

parse_header ==
  /\ outcome # "writing" /\ loader = "none"
  /\ IF Len(file) < 2 \/ version > ReaderVersion THEN Reject
     ELSE /\ loader' = "reading"
          /\ pos' = 3
          /\ UNCHANGED <<writerVars, counts, parsed, ip, loaded>>

\* parse_data_info, and read_bytecode up to the call of parse_data.  What the field
\* count says there is besides is skipped.  A file of version 1 stores no count, and
\* the place for one is skipped all the same: the first four bytes of the data.
\* Tables that have to be larger are moved, and the module keeps the old address.
parse_data_info ==
  LET counted == version >= 2
      field_count == IF counted THEN IntAt(pos) ELSE 2
      at == IF counted THEN pos + 4 ELSE pos
      fields == IntsAt(at, FieldCount(version), 4)
  IN  /\ loader = "reading" /\ counts = <<>>
      /\ IF field_count < 2 \/ ~ InFile(at + 4 * FieldCount(version)) THEN Reject
         ELSE /\ counts' = fields
              /\ pos' = pos + 4 * (field_count + 1)
              /\ loader' = IF \E i \in DOMAIN fields : fields[i] > TableSizes[Sections[i]]
                           THEN "undefined" ELSE loader
              /\ UNCHANGED <<writerVars, parsed, ip, loaded>>

Reads(section) ==
  /\ loader = "reading" /\ counts # <<>> /\ ip = NoCode
  /\ parsed < Len(Entries(counts)) /\ Entries(counts)[parsed + 1].section = section

\* An entry is complete: the item joins its table, and what the entry's size
\* says it holds besides is skipped.
Take(section, item, end, next) ==
  IF ~ InFile(end) \/ next < end THEN Reject
  ELSE /\ loaded' = [loaded EXCEPT ![section] = Append(@, item)]
       /\ pos' = next
       /\ parsed' = parsed + 1
       /\ ip' = IF section = "functions" THEN 0 ELSE NoCode
       /\ UNCHANGED <<writerVars, loader, counts>>

\* The first loop of parse_data; the size is unsigned, and region_alloc refuses no
\* bytes at all.
parse_string ==
  LET size == IntAt(pos)
      end == pos + 4 + size
  IN  /\ Reads("strings")
      /\ IF size \notin 1 .. MaxString THEN Reject
         ELSE Take("strings", SubSeq(file, pos + 5, end), end, end)

\* The locals are read in the layout of struct local, which is not the file's.
parse_function ==
  LET size_at == IF version >= 3 THEN pos + 4 ELSE pos
      size == IntAt(size_at)
      entry_size == IF version >= 3 /\ IntAt(pos) # 0 THEN IntAt(pos) ELSE size
      tail == size_at + 4 + size
      local_count == IF version >= 4 THEN IntAt(tail + 8) ELSE 0
      end == IF version >= 4 THEN tail + 12 + LocalSize * local_count ELSE tail
      function == [code |-> SubSeq(file, size_at + 5, tail),
                   loops |-> IF version >= 4 THEN IntAt(tail) ELSE 0,
                   locals_size |-> IF version >= 4 THEN IntAt(tail + 4) ELSE 0,
                   locals |-> IntsAt(tail + 12, local_count, LocalSize),
                   jumps |-> {}]
  IN  /\ Reads("functions")
      /\ IF size < 0 \/ local_count < 0 THEN Reject
         ELSE Take("functions", function, end, pos + 4 + entry_size)

\* A pack has room for eight fields.
KIND_PACK == 2
KIND_COMP == 3
KIND_ARRAY == 4
parse_type ==
  LET n == IntAt(pos + 8)
      type == [kind |-> IntAt(pos + 4), words |-> IntAt(pos + 12), fields |-> IntsAt(pos + 16, n, 4)]
  IN  /\ Reads("types")
      /\ IF n < 0 \/ type.words < 0 \/ (type.kind = KIND_PACK /\ n > 8) THEN Reject
         ELSE Take("types", type, pos + 16 + 4 * n, pos + 4 + IntAt(pos))

\* module->strings.items[index], once it is known to be in the table.
StringAt(index) == IF index < Len(loaded.strings) THEN loaded.strings[index + 1] ELSE <<>>

parse_ext_function ==
  LET params == IntAt(pos + 4)
      rets == IntAt(pos + 8)
      at == pos + 12 + 4 * (params + rets)
      external == [params |-> IntsAt(pos + 12, params, 4),
                   rets |-> IntsAt(pos + 12 + 4 * params, rets, 4),
                   name |-> StringAt(IntAt(at)), call_conv |-> IntAt(at + 4)]
  IN  /\ Reads("externals")
      /\ IF params < 0 \/ rets < 0 \/ IntAt(at) \notin 0 .. counts[1] - 1 THEN Reject
         ELSE Take("externals", external, at + 8, pos + 4 + IntAt(pos))

parse_ext_library ==
  LET n == IntAt(pos + 4)
      at == pos + 8 + 4 * n
      library == [items |-> IntsAt(pos + 8, n, 4), filename |-> StringAt(IntAt(at))]
  IN  /\ Reads("libraries")
      /\ IF IntAt(at) \notin 0 .. counts[1] - 1 THEN Reject
         ELSE Take("libraries", library, at + 4, pos + 4 + IntAt(pos))

\* Mutant: read_u16.
Operand_Unsigned(code, i) == code[i + 1] + 256 * code[i + 2]
\* read_s16
Operand(code, i) ==
  LET u == code[i + 1] + 256 * code[i + 2] IN IF u >= 32768 THEN u - 65536 ELSE u

LastFunction == loaded.functions[Len(loaded.functions)]

\* One round of recompute_jump_dests; an instruction of size zero is never left.  The
\* assertion of read_u16 fails when a jump's operand goes past the end of the code.
recompute_jump_dests ==
  LET code == LastFunction.code
      jump == code[ip + 1] \in JumpOps
  IN  /\ loader = "reading" /\ ip # NoCode /\ ip < Len(code)
      /\ IF jump /\ ip + 3 > Len(code)
         THEN loader' = "assertion" /\ UNCHANGED <<ip, loaded>>
         ELSE /\ ip' = ip + InstructionSize[code[ip + 1]]
              /\ loaded' = IF ~ jump THEN loaded
                   ELSE [loaded EXCEPT !.functions[Len(loaded.functions)].jumps =
                           @ \cup {ip + 1 + Operand(code, ip + 1)}]
              /\ UNCHANGED loader
      /\ UNCHANGED <<writerVars, pos, counts, parsed>>

recompute_ends ==
  /\ loader = "reading" /\ ip # NoCode /\ ip >= Len(LastFunction.code)
  /\ ip' = NoCode
  /\ UNCHANGED <<writerVars, loader, pos, counts, parsed, loaded>>

\* read_bytecode returns the module.
read_bytecode ==
  /\ loader = "reading" /\ counts # <<>> /\ ip = NoCode
  /\ parsed = Len(Entries(counts))
  /\ loader' = "loaded"
  /\ UNCHANGED <<writerVars, pos, counts, parsed, ip, loaded>>
-----------------------------------------------------------------------------
BytecodeInit ==
  /\ module \in Modules
  /\ version \in Versions
  /\ file = <<>> /\ done = 0 /\ outcome = "writing"
  /\ loader = "none" /\ pos = 0 /\ counts = <<>> /\ parsed = 0 /\ ip = NoCode
  /\ loaded = [strings |-> <<>>, functions |-> <<>>, types |-> <<>>, externals |-> <<>>,
               libraries |-> <<>>]

Write == write_header \/ write_data_info \/ write_string_entry \/ write_function_entry
           \/ write_type_entry \/ write_ext_function_entry \/ write_ext_library_entry \/ close_file
ReadData == parse_data_info \/ parse_string \/ parse_function \/ parse_type
              \/ parse_ext_function \/ parse_ext_library
              \/ recompute_jump_dests \/ recompute_ends \/ read_bytecode
Read == parse_header \/ ReadData

BytecodeNext == Write \/ Read

BytecodeSpec == BytecodeInit /\ [][BytecodeNext]_bytecodeVars /\ WF_bytecodeVars(ReadData)
-----------------------------------------------------------------------------
(* Properties *)

\* Where the instructions of a piece of code start.
Instructions(code) ==
  LET starts[i \in Nat] ==
        i = 1 \/ \E j \in 1 .. i - 1 : starts[j] /\ j + InstructionSize[code[j]] = i
  IN  {i \in DOMAIN code : starts[i]}

\* What a version keeps of a module.
Kept(f) == [code |-> f.code, jumps |-> f.jumps,
            loops |-> IF version >= 4 THEN f.loops ELSE 0,
            locals_size |-> IF version >= 4 THEN f.locals_size ELSE 0,
            locals |-> IF version >= 4 THEN f.locals ELSE <<>>]
KeptModule ==
  [s \in {Sections[i] : i \in 1 .. 5} |->
     IF ~ Stores(version, s) THEN <<>>
     ELSE IF s = "functions" THEN [i \in DOMAIN module.functions |-> Kept(module.functions[i])]
     ELSE module[s]]

\* A file that loads gives the module that was written, as far as its version
\* stores it: the code, the frame sizes, types, externals and libraries, the names
\* found again through their indices, and the jump tables rebuilt from the code.
\* From version 2 on: the reader misplaces the data of version 1.
RoundTrips == version >= 2 /\ loader = "loaded" => loaded = KeptModule

\* What RoundTrips leaves out, as bwf.h:18-45 describes the format: version 1 has no
\* data-info-field-count, and its data follow the two counts of data-info.  A whole
\* file that loads gives the module that was written.
VersionOneRoundTrips ==
  version = 1 /\ file = WholeFile /\ loader = "loaded" => loaded = KeptModule

\* A file that lost any part of its end, by a failed write, a failed close, or a
\* string the writer could not write, is never taken for a program, from version 2 on.
CutFilesAreRejected == version >= 2 /\ loader = "loaded" => file = WholeFile

\* What the pair can handle: a version that counts its data-info fields, tables of the
\* sizes a new module has, no empty and no long string, no function with local
\* variables in a version that stores them, and no instruction without a size.
Loadable ==
  /\ version >= 2
  /\ \A i \in 1 .. FieldCount(version) : Len(module[Sections[i]]) <= TableSizes[Sections[i]]
  /\ \A i \in DOMAIN module.strings : Len(module.strings[i]) \in 1 .. MaxString
  /\ \A i \in DOMAIN module.functions :
       /\ version >= 4 => module.functions[i].locals = <<>>
       /\ \A j \in Instructions(module.functions[i].code) :
            InstructionSize[module.functions[i].code[j]] > 0

\* A whole file of such a module is read to its end.
WholeFilesLoad ==
  (loader = "reading" /\ file = WholeFile /\ Loadable) ~> loader = "loaded"
=============================================================================
