------------------------------- MODULE MCPigz -------------------------------
(***************************************************************************)
(* Streams for model checking Pigz: an empty one after a long one.          *)
(****************************************************************************)
EXTENDS Pigz

MCInputs == <<5, 0, 3>>
=============================================================================
