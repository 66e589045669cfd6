------------------------- MODULE SequentialCompress -------------------------
(***************************************************************************)
(* What pigz promises of its parallel compression: one stream after the     *)
(* other, its blocks in order, each with the one before as dictionary, and  *)
(* the check values combined in the same order.                             *)
(****************************************************************************)
EXTENDS Naturals, Sequences

CONSTANT Inputs                            \* blocks of each stream
VARIABLES stream, output, check, phase

state == <<stream, output, check, phase>>

\* An empty stream is compressed to one empty block.
Count == IF Inputs[stream] = 0 THEN 1 ELSE Inputs[stream]
Number(k) == IF Inputs[stream] = 0 THEN 0 ELSE k
Block(k) == <<stream, Number(k)>>
Dictionary(k) == IF k = 1 THEN <<0, 0>> ELSE Block(k - 1)

Init == stream = 1 /\ output = <<>> /\ check = <<>> /\ phase = "idle"

Begin ==
  /\ phase = "idle" /\ stream <= Len(Inputs)
  /\ phase' = "running" /\ output' = <<>> /\ check' = <<>>
  /\ UNCHANGED stream

Write ==
  LET k == Len(output) + 1 IN
  /\ phase = "running" /\ k <= Count
  /\ output' = Append(output, [data |-> Block(k), from |-> Dictionary(k)])
  /\ UNCHANGED <<stream, check, phase>>

Sum ==
  LET k == Len(check) + 1 IN
  /\ phase = "running" /\ k <= Len(output)
  /\ check' = Append(check, Block(k))
  /\ UNCHANGED <<stream, output, phase>>

End ==
  /\ phase = "running" /\ Len(check) = Count
  /\ phase' = "idle" /\ stream' = stream + 1
  /\ UNCHANGED <<output, check>>

Spec == Init /\ [][Begin \/ Write \/ Sum \/ End]_state
=============================================================================
