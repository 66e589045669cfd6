---------------------------- MODULE MCMtdBlocks -----------------------------
(***************************************************************************)
(* A partition of three blocks of two units for model checking MtdBlocks.   *)
(****************************************************************************)
EXTENDS MtdStream

MCUnit == {"a", "b", "c", "00", "FF", "??"}
\* Less than a block, a block and a half, and a partition's worth.
MCImages == {<<"a">>, <<"a", "b", "c">>, <<"c", "b", "a", "a", "b">>}
MCJunk == <<"??", "??">>
=============================================================================
