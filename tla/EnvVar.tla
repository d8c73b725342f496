------------------------------- MODULE EnvVar -------------------------------
(***************************************************************************)
(* The variables of the environment: envVar over a configuration file that *)
(* ConfigFile has parsed.  A variable that is read is kept in a map, with  *)
(* the value of the file or else the reader's default, and from then on    *)
(* the map answers.  Every operation holds the lock of the map; getSysVar  *)
(* is two reads, of db-config and of the variable its value leads to.      *)
(*                                                                         *)
(* A file is a sequence of lines: a key with a value, which may be empty,  *)
(* a blank line, a comment, text, or the sentry EndConfigFile, which may   *)
(* be anywhere in its line; ended says if the last line has its newline.   *)
(* A value is a sequence: its first line, unless that is empty, and the    *)
(* lines it goes on with.                                                  *)
(***************************************************************************)
EXTENDS Naturals, Sequences, SequencesExt, FiniteSetsExt, FiniteSets

CONSTANTS
  Params,    \* the variables
  Default,   \* Default[p]: what all readers of p give as the default
  Contents,  \* what the configuration file may have
  Others     \* the files that setConfFile() may name, in the same form

Blank == [kind |-> "blank", key |-> "", value |-> <<>>]
Comment == [kind |-> "comment", key |-> "", value |-> <<>>]
Text == [kind |-> "text", key |-> "", value |-> <<"text">>]
Sentry == [kind |-> "sentry", key |-> "", value |-> <<>>]

Lines == [kind : {"blank", "comment", "text", "sentry", "key"}, key : Params \cup {""},
          value : Seq(STRING)]
EnvVarAssumption ==
  \A c \in Contents \cup Others :
    /\ c \in [lines : Seq(Lines), ended : BOOLEAN]
    /\ c.ended \/ Len(c.lines) > 0
    /\ \A i \in DOMAIN c.lines :
         \/ c.lines[i] \in {Blank, Comment, Text, Sentry}
         \/ c.lines[i].kind = "key" /\ c.lines[i].key \in Params

VARIABLES
  file,      \* _cfname: the configuration file
  contents,  \* myContents of _pfparser
  evm,       \* _evm
  reads      \* history, reads[p]: the results of reads of p since it was last written

vars == <<file, contents, evm, reads>>

TypeOK ==
  /\ file \in Contents \cup Others
  /\ DOMAIN contents \subseteq Params /\ DOMAIN evm \subseteq Params
  /\ reads \in [Params -> SUBSET Seq(STRING)]

With(map, p, v) == [q \in DOMAIN map \cup {p} |-> IF q = p THEN v ELSE map[q]]

-----------------------------------------------------------------------------
\* Mutant of ParseLine: a comment ends the value.
ParseLineToComment(state, line) ==
  IF state.over THEN state
  ELSE CASE line.kind = "sentry" -> [state EXCEPT !.at = <<>>, !.over = TRUE]
         [] line.kind = "key" ->
              [state EXCEPT !.at = <<line.key>>, !.map = With(@, line.key, line.value)]
         [] line.kind = "text" /\ state.at # <<>> ->
              [state EXCEPT !.map = With(@, state.at[1], @[state.at[1]] \o line.value)]
         [] line.kind \in {"blank", "comment"} -> [state EXCEPT !.at = <<>>]
         [] OTHER -> state

\* operator>>: the lines are read with the key whose value goes on, if there is one.  A
\* blank line ends the value, a comment does not, a key that is there again overwrites
\* what it had, and the sentry ends it all.
ParseLine(state, line) ==
  IF state.over THEN state
  ELSE CASE line.kind = "sentry" -> [state EXCEPT !.at = <<>>, !.over = TRUE]
         [] line.kind = "key" ->
              [state EXCEPT !.at = <<line.key>>, !.map = With(@, line.key, line.value)]
         [] line.kind = "text" /\ state.at # <<>> ->
              [state EXCEPT !.map = With(@, state.at[1], @[state.at[1]] \o line.value)]
         [] line.kind = "blank" -> [state EXCEPT !.at = <<>>]
         [] OTHER -> state

\* getline() at the end of the file fails.  After a newline it leaves an empty line, which
\* ends the value; after a line without one it leaves nextline as it was, which, when it is
\* text, the value goes on with once more.
LinesRead(f) ==
  IF f.ended \/ Last(f.lines).kind # "text" THEN f.lines ELSE Append(f.lines, Last(f.lines))

Parse(f) == FoldLeft(ParseLine, [at |-> <<>>, map |-> <<>>, over |-> FALSE], LinesRead(f)).map

\* readInto() with a default.
FileValue(p, default) == IF p \in DOMAIN contents THEN contents[p] ELSE default

Init ==
  /\ file \in Contents
  /\ contents = Parse(file)
  /\ evm = <<>>
  /\ reads = [p \in Params |-> {}]

Written(S) == reads' = [p \in Params |-> IF p \in S THEN {} ELSE reads[p]]

\* setVar(), and each pair of parseSetReq(): no empty value is set.
SetVar(p, v) ==
  /\ v # <<>>
  /\ evm' = With(evm, p, v)
  /\ Written({p})
  /\ UNCHANGED <<file, contents>>

\* Mutant of GetVar: what was found in the file is not kept.
GetVarUncached(p) ==
  /\ LET value == IF p \in DOMAIN evm THEN evm[p]
                  ELSE IF Default[p] = <<>> THEN <<>> ELSE FileValue(p, Default[p])
     IN reads' = [reads EXCEPT ![p] = @ \cup {value}]
  /\ UNCHANGED <<file, contents, evm>>

\* getVar() and _readConfVar(): a variable whose default is empty is neither looked up in
\* the file nor kept.
GetVar(p) ==
  /\ LET value == IF p \in DOMAIN evm THEN evm[p]
                  ELSE IF Default[p] = <<>> THEN <<>> ELSE FileValue(p, Default[p])
     IN /\ reads' = [reads EXCEPT ![p] = @ \cup {value}]
        /\ evm' = IF p \in DOMAIN evm \/ Default[p] = <<>> THEN evm ELSE With(evm, p, value)
  /\ UNCHANGED <<file, contents>>

\* refreshVars(): the file wins over what was set; an empty value is taken for no default
\* and stays.
RefreshVars ==
  /\ evm' = [p \in DOMAIN evm |-> IF evm[p] = <<>> THEN evm[p] ELSE FileValue(p, evm[p])]
  /\ Written(DOMAIN evm)
  /\ UNCHANGED <<file, contents>>

\* setConfFile(): another file is parsed and the map stays.  (Nobody in the repository
\* calls it, nor refreshVars() and parseSetReq().)
SetConfFile ==
  /\ \E f \in Others : file' = f
  /\ contents' = Parse(file')
  /\ UNCHANGED <<evm, reads>>

Next ==
  \/ \E p \in Params : GetVar(p) \/ \E v \in {<<>>, <<"3">>} : SetVar(p, v)
  \/ RefreshVars \/ SetConfFile

Spec == Init /\ [][Next]_vars

-----------------------------------------------------------------------------
\* All who read a variable see one value until it is set or refreshed, also when the
\* configuration file is replaced in between.
ReadsAgree == \A p \in Params : Cardinality(reads[p]) <= 1

\* A key has the value of its last line before the sentry, with the text up to the next
\* blank line, key or sentry, of which the last line of a file without a newline at its end
\* counts twice.
KeyLines(k) ==
  {i \in DOMAIN file.lines : /\ file.lines[i].kind = "key" /\ file.lines[i].key = k
                             /\ \A j \in 1 .. i : file.lines[j].kind # "sentry"}
LastValue(k) ==
  LET last == Max(KeyLines(k))
      goesOn == {j \in DOMAIN file.lines :
                   j > last /\ \A i \in last + 1 .. j : file.lines[i].kind \in {"text", "comment"}}
      texts == {j \in goesOn : file.lines[j].kind = "text"}
      again == IF Len(file.lines) \in texts /\ ~file.ended THEN 1 ELSE 0
  IN file.lines[last].value \o [i \in 1 .. Cardinality(texts) + again |-> "text"]

FileIsParsed ==
  /\ DOMAIN contents = {k \in Params : KeyLines(k) # {}}
  /\ \A k \in DOMAIN contents : contents[k] = LastValue(k)

=============================================================================
