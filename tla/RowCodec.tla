------------------------------ MODULE RowCodec ------------------------------
(***************************************************************************)
(* The values of a tuple and its disk format for any schema: field_value_t *)
(* (field.h), the offsets of table_row_t::setup() (row.cpp), and format(), *)
(* load(), format_key() and load_key() of table_man_t.  RowFormat is the   *)
(* part of it that the TPC-B tables use.                                   *)
(*                                                                         *)
(* A number takes one cell, a character too, and so does the length of a   *)
(* variable string (offset_t).  A byte of the null flags is the set of its *)
(* bits.  A tuple is used again and again: a field keeps its buffer, which *)
(* only grows, and the buffer keeps what a shorter value does not          *)
(* overwrite, and a null what it was before.                               *)
(*                                                                         *)
(* On disk:  null flags | numbers, fixed strings | lengths | var. strings  *)
(***************************************************************************)
EXTENDS Integers, Sequences, SequencesExt, FiniteSetsExt, FiniteSets

CONSTANTS
  Schemas,  \* sequences of [type, size, nullable, key]
  Chars,    \* what a cell of a string may hold; zero is the terminator
  Numbers   \* the values of a number

RowCodecAssumption ==
  /\ Chars \subseteq Nat \ {0} /\ Numbers \subseteq Nat
  /\ \A s \in Schemas :
       /\ Len(s) \in Nat /\ DOMAIN s = 1 .. Len(s)
       /\ \A i \in DOMAIN s :
            /\ s[i].type \in {"number", "fixchar", "varchar"}
            /\ s[i].size \in Nat /\ (s[i].type # "number" => s[i].size > 0)
            /\ s[i].nullable \in BOOLEAN /\ s[i].key \in BOOLEAN
            /\ ~(s[i].nullable /\ s[i].key)

VARIABLES
  schema,   \* the fields of the table
  fields,   \* _pvalues: [null, data, real]
  disk,     \* the record that was stored
  diskKey,  \* its key
  written,  \* history: what could be read from the fields when it was stored
  loaded    \* what the fields have been loaded with: "nothing", "row", "key" or both

vars == <<schema, fields, disk, diskKey, written, loaded>>

Fields == DOMAIN schema
\* field_desc_t::setup(): the size of a number is that of its type, whatever is given.
DescSize(f) == IF f.type = "number" THEN 1 ELSE f.size
MaxSize(i) == DescSize(schema[i])
Zeros(n) == [k \in 1 .. n |-> 0]
Least(a, b) == IF a < b THEN a ELSE b
\* The cells with others written over them from a position on.
Write(cells, at, new) ==
  [k \in DOMAIN cells |-> IF k - at \in DOMAIN new THEN new[k - at] ELSE cells[k]]

TypeOK ==
  /\ schema \in Schemas
  /\ DOMAIN fields = Fields
  /\ \A i \in Fields :
       /\ fields[i].null \in BOOLEAN
       /\ fields[i].real \in 0 .. MaxSize(i)
       /\ fields[i].real <= Len(fields[i].data)
       /\ schema[i].type # "varchar" => Len(fields[i].data) = MaxSize(i)
  /\ loaded \in {"nothing", "row", "key", "both"}

\* field_value_t::setup().
Setup(f) == [null |-> TRUE, data |-> IF f.type = "varchar" THEN <<>> ELSE Zeros(DescSize(f)),
             real |-> IF f.type = "varchar" THEN 0 ELSE DescSize(f)]

Init ==
  /\ schema \in Schemas
  /\ fields = [i \in Fields |-> Setup(schema[i])]
  /\ disk = <<>> /\ diskKey = <<>> /\ written = <<>> /\ loaded = "nothing"

\* Mutant of SetCells: a shorter value keeps the size of the one before.
SetCellsLonger(i, cells) ==
  LET given == Least(Len(cells), MaxSize(i))
      room == IF schema[i].type = "varchar" /\ Len(fields[i].data) < given
                THEN Zeros(given) ELSE fields[i].data
  IN [null |-> FALSE, real |-> IF given < fields[i].real THEN fields[i].real ELSE given,
      data |-> Write(room, 0, SubSeq(cells, 1, given))]

\* set_value(), set_int_value() and the others of numbers, set_fixed_string_value(), and
\* set_var_string_value() with alloc_space(): as many cells as the field may have.
SetCells(i, cells) ==
  LET real == Least(Len(cells), MaxSize(i))
      room == IF schema[i].type = "varchar" /\ Len(fields[i].data) < real
                THEN Zeros(real) ELSE fields[i].data
  IN [null |-> FALSE, real |-> real, data |-> Write(room, 0, SubSeq(cells, 1, real))]

\* copy_value(): the cells of a value.
Copied(i) == SubSeq(fields[i].data, 1, fields[i].real)

\* get_int_value() and the others of numbers, get_string_value(): up to the string's end.
String(cells) ==
  IF \E k \in DOMAIN cells : cells[k] = 0
    THEN SubSeq(cells, 1, Min({k \in DOMAIN cells : cells[k] = 0}) - 1) ELSE cells
Value(i) == IF schema[i].type = "number" THEN Copied(i) ELSE String(Copied(i))

\* What a field holds: a null keeps the value it had.
Held(i) == [null |-> fields[i].null, value |-> Value(i)]

-----------------------------------------------------------------------------
\* table_row_t::setup(): where the parts of a record begin.
Vars == {i \in Fields : schema[i].type = "varchar"}
Nullable == {i \in Fields : schema[i].nullable}
FlagsSize == IF Nullable = {} THEN 0 ELSE (Cardinality(Nullable) - 1) \div 8 + 1
FixedSize == MapThenSumSet(LAMBDA i : MaxSize(i), Fields \ Vars)
SlotsAt == FlagsSize + FixedSize
VarsAt == SlotsAt + Cardinality(Vars)
Key == {i \in Fields : schema[i].key}

\* Where format() puts a field: it walks over all of them.
Before(i, S) == {j \in S : j < i}
FixedAt(i) == FlagsSize + MapThenSumSet(LAMBDA j : MaxSize(j), Before(i, Fields \ Vars))
VarAt(i) == VarsAt + MapThenSumSet(LAMBDA j : fields[j].real, Before(i, Vars))

\* What format() and size() reckon for the null flags: a byte more, when the last is full.
FlagsRoom == IF Nullable = {} THEN 0 ELSE Cardinality(Nullable) \div 8 + 1

\* The size format() reckons: without the variable strings that are null or in the key.
RecordSize ==
  LET counted == {i \in Vars : ~fields[i].null /\ i \notin Key}
  IN FlagsRoom + FixedSize + MapThenSumSet(LAMBDA i : fields[i].real + 1, counted)

\* table_row_t::size(), which leaves out every null.
Size ==
  LET counted == {i \in Fields : ~(schema[i].nullable /\ fields[i].null)}
  IN FlagsRoom + MapThenSumSet(LAMBDA i : IF i \in Vars THEN fields[i].real + 1 ELSE MaxSize(i), counted)

\* SET_NULL_FLAG and IS_NULL_FLAG.  The first is an "and" with the number of the byte as the
\* bit: a byte that was cleared stays so, and the second finds no flag that is set.
ByteOf(n) == n \div 8 + 1
SetFlag(cells, n) == [cells EXCEPT ![ByteOf(n)] = @ \cap {n \div 8}]
IsFlag(cells, n) == (n \div 8) \in cells[ByteOf(n)]

\* format() with the primary index: every field is written, a null too, and the record is
\* cut off.
Format ==
  LET all == FlagsRoom + FixedSize + Cardinality(Vars) + MapThenSumSet(LAMBDA i : fields[i].real, Vars)
      cleared == [k \in 1 .. all |-> IF k <= FlagsSize THEN {} ELSE 0]
      PutFlag(cells, i) ==
        IF schema[i].nullable /\ fields[i].null
          THEN SetFlag(cells, Cardinality(Before(i, Nullable))) ELSE cells
      PutField(cells, i) ==
        IF i \in Vars
          THEN Write(Write(PutFlag(cells, i), VarAt(i), Copied(i)),
                     SlotsAt + Cardinality(Before(i, Vars)), <<fields[i].real>>)
          ELSE Write(PutFlag(cells, i), FixedAt(i), Copied(i))
  IN SubSeq(FoldLeft(PutField, cleared, [i \in Fields |-> i]), 1, RecordSize)

\* What load() reads at a position: what is behind the record was cleared before.
Read(at, n) == [k \in 1 .. n |-> IF at + k \in DOMAIN disk THEN disk[at + k] ELSE 0]

\* load() with the primary index: a field of the key or a null is passed over and none of
\* the offsets moves on.
LoadField(state, i) ==
  LET null == schema[i].nullable /\ IsFlag(disk, state.flag)
      flag == IF schema[i].nullable THEN state.flag + 1 ELSE state.flag
      length == Read(state.slot, 1)[1]
  IN IF i \in Key THEN state
     ELSE IF null
     THEN [state EXCEPT !.flag = flag, !.fields[i].null = TRUE]
     ELSE IF i \in Vars
     THEN [state EXCEPT !.flag = flag, !.slot = @ + 1, !.var = @ + length,
                        !.fields[i] = SetCells(i, Read(state.var, length))]
     ELSE [state EXCEPT !.flag = flag, !.fixed = @ + MaxSize(i),
                        !.fields[i] = SetCells(i, Read(state.fixed, MaxSize(i)))]

Load ==
  FoldLeft(LoadField,
           [fields |-> fields, flag |-> 0, fixed |-> FlagsSize, slot |-> SlotsAt, var |-> VarsAt],
           [i \in Fields |-> i]).fields

\* format_key(): each field of the key takes its largest size.
KeyAt(i) == MapThenSumSet(LAMBDA j : MaxSize(j), Before(i, Key))
KeySize == MapThenSumSet(LAMBDA j : MaxSize(j), Key)
FormatKey ==
  FoldSet(LAMBDA i, cells : Write(cells, KeyAt(i), Copied(i)), Zeros(KeySize), Key)

\* load_key().
LoadKey ==
  [i \in Fields |-> IF i \in Key THEN SetCells(i, SubSeq(diskKey, KeyAt(i) + 1, KeyAt(i) + MaxSize(i)))
                                 ELSE fields[i]]

-----------------------------------------------------------------------------
Stored == UNCHANGED <<schema, disk, diskKey, written>>

\* table_row_t::set_value(): a string may be longer than its field.
SetValue(i) ==
  /\ \E cells \in IF schema[i].type = "number" THEN {<<n>> : n \in Numbers}
                  ELSE UNION {[1 .. n -> Chars] : n \in 0 .. MaxSize(i) + 1} :
       fields' = [fields EXCEPT ![i] = SetCells(i, cells)]
  /\ loaded' = "nothing"
  /\ Stored

SetNull(i) ==
  /\ schema[i].nullable
  /\ fields' = [fields EXCEPT ![i].null = TRUE]
  /\ loaded' = "nothing"
  /\ Stored

\* table_row_t::reset(): the sizes stay.
Reset ==
  /\ fields' = [i \in Fields |->
       [fields[i] EXCEPT !.null = TRUE, !.data = Zeros(Len(fields[i].data))]]
  /\ loaded' = "nothing"
  /\ Stored

\* MIN_INT and MIN_SMALLINT are 0; MAX_INT and MAX_SMALLINT, 1<<31 and 1<<15, are negative
\* once they are in a field, below all the numbers here.
MinNumber == 0
MaxNumber == -1

\* set_min_value() and set_max_value(): a string keeps its size, and after the terminator
\* or, when it is a variable one, behind its end, what it held.
MinValue(i) ==
  [fields[i] EXCEPT !.null = FALSE,
    !.data = Write(@, 0, IF schema[i].type = "number" THEN <<MinNumber>> ELSE <<0>>)]
MaxValue(i) ==
  [fields[i] EXCEPT !.null = FALSE,
    !.data = IF schema[i].type = "number" THEN <<MaxNumber>> ELSE [k \in DOMAIN @ |-> Max(Chars)]]

\* min_key() and max_key(): the fields of the key get the limits of their types.  A
\* variable string has to have a buffer, which min_key() writes to.
MinKey ==
  /\ \A i \in Key : fields[i].data # <<>>
  /\ fields' = [i \in Fields |-> IF i \in Key THEN MinValue(i) ELSE fields[i]]
  /\ loaded' = "nothing"
  /\ Stored

MaxKey ==
  /\ fields' = [i \in Fields |-> IF i \in Key THEN MaxValue(i) ELSE fields[i]]
  /\ loaded' = "nothing"
  /\ Stored

\* A record is stored under its key.  Only a field that may be null is.  The default build
\* has no assertions: with them copy_value() ends the program on a null.
Store ==
  /\ \A i \in Fields : fields[i].null => schema[i].nullable
  /\ disk' = Format /\ diskKey' = FormatKey
  /\ written' = [i \in Fields |-> Held(i)]
  /\ UNCHANGED <<schema, fields, loaded>>

\* The record, or the key, is read into the tuple.
Probe ==
  /\ written # <<>>
  /\ fields' = Load
  /\ loaded' = IF loaded \in {"key", "both"} THEN "both" ELSE "row"
  /\ Stored

ProbeKey ==
  /\ written # <<>>
  /\ fields' = LoadKey
  /\ loaded' = IF loaded \in {"row", "both"} THEN "both" ELSE "key"
  /\ Stored

Next ==
  \/ \E i \in Fields : SetValue(i) \/ SetNull(i)
  \/ Reset \/ MinKey \/ MaxKey \/ Store \/ Probe \/ ProbeKey

Spec == Init /\ [][Next]_vars

-----------------------------------------------------------------------------
\* The fields whose place in the record both sides reckon alike: none before them is in the
\* key, and for a variable string none is in the key or null, which the size leaves out.
InPlace(i) ==
  /\ \A j \in Fields : j < i => j \notin Key
  /\ i \in Vars => \A j \in Vars : j \notin Key /\ ~written[j].null

\* A row is read back with the values it was stored with, into a tuple that holds anything:
\* every field of the key, and of the others those that are in place.  The nulls among
\* them are not nulls any more, but have the value they had before.  What is stored is as
\* long as size() says, of a row that has neither a variable string in its key nor a null
\* of another type.
FieldsReadBack ==
  /\ Vars \cap Key = {} /\ (\A i \in Fields : fields[i].null => i \in Vars \cap Nullable) =>
       Len(Format) = Size
  /\ loaded \in {"row", "both"} =>
       \A i \in Fields \ Key : ~fields[i].null /\ (InPlace(i) => Value(i) = written[i].value)
  /\ loaded \in {"key", "both"} => \A i \in Key : Held(i) = written[i]

=============================================================================
