----------------------------- MODULE MCNandroid -----------------------------
EXTENDS Nandroid, TLC

CONSTANTS sys, data, boot, ext, v1, v2

NoSubs == [p \in Part |-> <<>>]
\* A partition with a sub-partition, as some devices have.
ExtOfSys == [p \in Part |-> IF p = sys THEN <<ext>> ELSE <<>>]
KindOf == [p \in Part |-> CASE p = boot -> "flash" [] OTHER -> "tar"]
SplitExt == [p \in Part |-> CASE p = boot -> "flash" [] p = ext -> "split" [] OTHER -> "tar"]
ClassOf == [p \in Part |-> CASE p = boot -> "boot" [] p = ext -> "ext" [] OTHER -> "main"]
SubClass == [p \in Part |-> CASE p = boot -> "boot" [] p = ext -> "other" [] OTHER -> "main"]
OnePiece == [p \in Part |-> 1]
TwoOfExt == [p \in Part |-> IF p = ext THEN 2 ELSE 1]

SysData == <<sys, data>>
SysDataBoot == <<sys, data, boot>>
AllThree == <<data, boot, ext>>

\* In the last one the request of /data may replace that of /system, and /boot makes
\* the restore go on when nothing grows.
MainOrders == {<<sys, ext>>, <<sys, data, boot>>}
BootExtOrders == {<<boot, ext>>, <<ext>>}
SysDataOrders == {<<sys, data>>}

AllFit == [Part -> {"fits"}]
SmallOrNot == [Part -> {"small", "fits"}]
\* /system and /data compare in every way, the sub-partition is large enough.
MainFits ==
  {f \in [Part -> {"small", "exact", "fits"}] : f[boot] # "exact" /\ f[ext] = "fits"}

VersionsAlike == Permutations(Versions)
=============================================================================
