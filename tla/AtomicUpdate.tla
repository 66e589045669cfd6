---------------------------- MODULE AtomicUpdate ----------------------------
(***************************************************************************)
(* What an update of N files promises its user: every file is at its old   *)
(* version or at its new one, the files change over one after the other in *)
(* the order of the script, none ever changes back, and the update is      *)
(* finished only when all of them are new.  There are no crashes here: a   *)
(* power failure must be invisible.                                        *)
(***************************************************************************)
EXTENDS Naturals

CONSTANT N      \* how many files the update changes

VARIABLES
  version,      \* "old" or "new", for each file
  phase         \* "running" or "finished"

Init ==
  /\ version \in [1..N -> {"old", "new"}]
  /\ phase = "running"

Update(i) ==
  /\ phase = "running"
  /\ version[i] = "old"
  /\ \A j \in 1..N : j < i => version[j] = "new"
  /\ version' = [version EXCEPT ![i] = "new"]
  /\ UNCHANGED phase

Finish ==
  /\ phase = "running"
  /\ \A i \in 1..N : version[i] = "new"
  /\ phase' = "finished"
  /\ UNCHANGED version

Next == Finish \/ \E i \in 1..N : Update(i)

Spec == Init /\ [][Next]_<<version, phase>>
=============================================================================
