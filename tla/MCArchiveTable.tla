---------------------------- MODULE MCArchiveTable ----------------------------
(***************************************************************************)
(* ArchiveTable on a small instance: two mounts at most, two archives on   *)
(* disk and one in the first of them, so a third mount evicts one.         *)
(***************************************************************************)
EXTENDS ArchiveTable

MCTopLevel == {"a", "b"}
MCNested == {"n"}
MCOuterOf == [n \in {"n"} |-> "a"]
=============================================================================
