----------------------------- MODULE MCSdkLink -----------------------------
(* TLC instance of SdkLink. *)
EXTENDS SdkLink
=============================================================================
