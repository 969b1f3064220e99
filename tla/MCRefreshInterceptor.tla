------------------------- MODULE MCRefreshInterceptor -------------------------
(***************************************************************************)
(* RefreshInterceptor with a screen, a logout, a restart and its check of  *)
(* the session: one call refreshes, another queues, a third ends the       *)
(* session while the refresh is on the wire.  Three pairs are a login and  *)
(* two refreshes, or a second login that meets an earlier refresh.         *)
(***************************************************************************)
EXTENDS RefreshInterceptor
=============================================================================
