--------------------------- MODULE MCArchiveJournal ---------------------------
(***************************************************************************)
(* ArchiveJournal on two small archives of one directory and two files,    *)
(* the directory stored or only implied.                                   *)
(***************************************************************************)
EXTENDS ArchiveJournal

Entry(p, kind, implied) == [key |-> p, kind |-> kind, implied |-> implied]

MCIndexes ==
    {{Entry(<<"a">>, "file", FALSE), Entry(<<"d">>, "dir", implied),
      Entry(<<"d", "x">>, "file", FALSE)} : implied \in BOOLEAN}

MCPaths == {<<>>, <<"a">>, <<"d">>, <<"e">>, <<"d", "x">>, <<"d", "a">>, <<"e", "x">>}
=============================================================================
