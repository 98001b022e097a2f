--------------------------- MODULE MCPagerStreams ---------------------------
(* Instances of PagerStreams.                                              *)
EXTENDS PagerStreams
=============================================================================
