------------------------------ MODULE MCSdCard ------------------------------
(***************************************************************************)
(* SdCard with two settings, one ordinary value and one too long.           *)
(****************************************************************************)
EXTENDS SdCard
=============================================================================
