---------------------------- MODULE MCAuditService ----------------------------
(***************************************************************************)
(* AuditService with two audited requests, two workers and a channel of    *)
(* one slot, so that the channel fills up, the workers compete for an      *)
(* entry and a request can still be running when the other is done.        *)
(***************************************************************************)
EXTENDS AuditService
=============================================================================
