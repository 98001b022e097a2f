------------------------------ MODULE MCPtyInput ------------------------------
(***************************************************************************)
(* PtyInput on a small instance: a limit of 4 bytes, room for 2 batches,   *)
(* payloads of 1 byte and over the limit, and 4 accepted batches, so that  *)
(* both limits are met while the worker is held up by the child.           *)
(***************************************************************************)
EXTENDS PtyInput
=============================================================================
