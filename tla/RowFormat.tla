------------------------------ MODULE RowFormat ------------------------------
(***************************************************************************)
(* The disk format of a tuple: table_man_t::format, load and format_key    *)
(* (table_man.cpp) with the layout of table_row_t::setup (row.cpp).        *)
(*                                                                         *)
(* A cell stands for four bytes: an SQL_INT takes one, an SQL_FLOAT two.   *)
(* A tuple in memory is a sequence of fields, each a sequence of cells; on *)
(* disk it is one sequence of cells.  Every field of the TPC-B tables has  *)
(* a fixed length and none may be null, so the slots of variable-length    *)
(* fields and the null flags take no room and are left out.                *)
(***************************************************************************)
EXTENDS Integers, SequencesExt, FiniteSetsExt

IntSize == 1
FloatSize == 2

\* A value v of a field that takes n cells.  The cells of zero are zero.
Cells(v, n) == [k \in 1 .. n |-> IF v = 0 THEN <<0, 0>> ELSE <<v, k>>]

\* Whether cells that are read as one number were written as one.
IsNumber(cells) == cells = Cells(cells[1][1], Len(cells))

(***************************************************************************)
(* A table: the sizes of its fields and the fields of its primary index.   *)
(***************************************************************************)
Desc == [
  branch  |-> [sizes |-> <<IntSize, FloatSize>>, key |-> <<1>>],
  teller  |-> [sizes |-> <<IntSize, IntSize, FloatSize>>, key |-> <<1>>],
  account |-> [sizes |-> <<IntSize, IntSize, FloatSize>>, key |-> <<1>>],
  history |-> [sizes |-> <<IntSize, IntSize, IntSize, FloatSize, FloatSize>>,
               key |-> <<1, 2, 3, 4, 5>>]]

\* In the three balance tables the balance is the last field.
BalanceOf(table) == Len(Desc[table].sizes)

\* The tuple on disk: all fields one after the other.  (The index given to format() only
\* leaves out the sizes of variable-length fields.)
Format(table, tuple) == FlattenSeq(tuple)

\* The key on disk: the fields of the index in its order.
FormatKey(table, tuple) ==
  LET key == Desc[table].key
  IN  FlattenSeq([j \in DOMAIN key |-> tuple[key[j]]])

\* Where load() looks for field i: behind the fields that it has read, and with an index
\* it reads no key fields.
LoadOffset(table, i) ==
  LET desc == Desc[table]
      read == {j \in 1 .. i - 1 : j \notin ToSet(desc.key)}
  IN  MapThenSumSet(LAMBDA j : desc.sizes[j], read)

\* load() with the primary index: the fields that are not in the key.
Load(table, tuple, data) ==
  LET desc == Desc[table]
  IN  [i \in DOMAIN tuple |->
         IF i \in ToSet(desc.key)
         THEN tuple[i]
         ELSE SubSeq(data, LoadOffset(table, i) + 1, LoadOffset(table, i) + desc.sizes[i])]
=============================================================================
