------------------------------ MODULE MCParts ------------------------------
(***************************************************************************)
(* The small instances of the parts.                                       *)
(***************************************************************************)
EXTENDS Parts

\* Partitions with what may lie across blocks of three cells, and behind the skip.
MCLogContents == {<<"plain", "wide", "skip", "plain">>, <<"tick", "skip">>,
                <<"wide", "wide", "tick", "skip", "wide">>, <<"skip">>}

\* Files of up to three lines, and longer ones with a value that goes on after a comment,
\* each with a newline at its end and without.
MCEnvDefault == [p \in EnvParams |-> <<"1">>]
EnvLine(kind, key, value) == [kind |-> kind, key |-> key, value |-> value]
EnvFile(lines, ended) == [lines |-> lines, ended |-> ended]
EnvText == EnvLine("text", "", <<"text">>)
EnvLines == {EnvLine("blank", "", <<>>), EnvLine("comment", "", <<>>), EnvText, EnvLine("sentry", "", <<>>),
             EnvLine("key", "a", <<>>), EnvLine("key", "a", <<"2">>), EnvLine("key", "b", <<"1">>)}
EnvLong == <<EnvLine("key", "a", <<"2">>), EnvLine("comment", "", <<>>), EnvText>>
MCEnvContents ==
  {EnvFile(<<>>, TRUE)}
    \cup {EnvFile(ls, e) : ls \in UNION {[1 .. n -> EnvLines] : n \in 1 .. 3}, e \in BOOLEAN}
    \cup {EnvFile(Append(EnvLong, l), e) : l \in EnvLines, e \in BOOLEAN}
MCEnvOthers == {EnvFile(<<EnvLine("key", "b", <<"2">>)>>, TRUE),
                EnvFile(<<EnvLine("key", "a", <<>>), EnvText>>, FALSE)}

\* Options at the limits: no branches, no clients, more clients than the array has, fewer
\* transactions than clients, and a configuration file without db-workers.
MCWorkOptions == [load : BOOLEAN, queried_sf : 0 .. 2, num_threads : {0, 3, 4}, num_trxs : {0, 2, 4},
                duration : {0, 1}, spread : BOOLEAN, dbfile : BOOLEAN, workers : {0, 2}]

\* Variable strings before and after the key and a null, and a key of one.
RowField(type, size, nullable, key) == [type |-> type, size |-> size, nullable |-> nullable, key |-> key]
MCRowSchemas == {
  <<RowField("varchar", 2, FALSE, FALSE), RowField("number", 0, FALSE, TRUE), RowField("varchar", 1, TRUE, FALSE)>>,
  <<RowField("number", 0, TRUE, FALSE), RowField("fixchar", 2, FALSE, FALSE), RowField("varchar", 2, FALSE, TRUE)>>,
  <<RowField("fixchar", 2, FALSE, TRUE), RowField("number", 0, FALSE, FALSE)>>}

=============================================================================
