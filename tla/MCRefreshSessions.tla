------------------------- MODULE MCRefreshSessions -------------------------
(***************************************************************************)
(* RefreshSessions with interchangeable handlers (safety properties only). *)
(***************************************************************************)
EXTENDS RefreshSessions, TLC

HandlerSymmetry == Permutations(Handler)
=============================================================================
