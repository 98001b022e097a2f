------------------------- MODULE MCArchiveWriteback -------------------------
(***************************************************************************)
(* ArchiveWriteback on a small instance: two members, so that a deletion   *)
(* moves the other, and one name to bring a file in under.                 *)
(***************************************************************************)
EXTENDS ArchiveWriteback

MCMembers == {"a", "b"}
MCNewNames == {"x"}
=============================================================================
