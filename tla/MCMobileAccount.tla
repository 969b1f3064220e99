--------------------------- MODULE MCMobileAccount ---------------------------
(***************************************************************************)
(* MobileAccount with two users of one phone.                              *)
(***************************************************************************)
EXTENDS MobileAccount
=============================================================================
