--------------------------- MODULE MCScopeRegistry ---------------------------
(***************************************************************************)
(* ScopeRegistry on a small instance: two merging agents on the same paths *)
(* and one that only edits them.                                           *)
(***************************************************************************)
EXTENDS ScopeRegistry

CONSTANTS a, b, e

MCOwners == {a, b, e}
MCEditors == {e}
MCProjects == {{a}, {b, e}}
MCOverlap == {{a, b}, {a, e}, {b, e}}
=============================================================================
