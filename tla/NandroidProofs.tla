--------------------------- MODULE NandroidProofs ---------------------------
(***************************************************************************)
(* Backup and restore, for any partitions, archives, settings and faults:  *)
(* the variables keep their types, the loops stay inside their lists, what *)
(* the checks of Run_Restore, of digests and of sizes, achieve, and that   *)
(* backup and restore, whatever happens in between, give the partitions    *)
(* back what they held.                                                    *)
(***************************************************************************)
EXTENDS Nandroid, TLAPS

\* The partition at hand is one of the device, and its archive files are slots.
LEMMA UnitIsPart ==
  ASSUME TypeOK, pc # "idle"
  PROVE  Unit \in Part /\ list[i] \in Part /\ Subs[list[i]] \in Seq(Part)
<1>1. list \in Seq(Part) /\ i \in 1..Len(list)
  BY DEF TypeOK, ControlTypes
<1>2. list[i] \in Part
  BY <1>1
<1>3. Subs[list[i]] \in Seq(Part)
  BY <1>2, ConstantsAssumption, Zenon DEF ConstantsAssumption
<1>4. j \in Nat /\ j <= Len(Subs[list[i]])
  BY Zenon DEF TypeOK, ControlTypes
<1>5. j # 0 => Subs[list[i]][j] \in Part
  BY <1>3, <1>4
<1> QED BY <1>2, <1>3, <1>5, Zenon DEF Unit

LEMMA SlotOf ==
  ASSUME NEW p \in Part, NEW n \in 1..Pieces[p]
  PROVE  <<p, n>> \in Slots /\ <<p, n>>[1] = p
BY DEF Slots

LEMMA SlotParts ==
  ASSUME NEW s \in Slots
  PROVE  s[1] \in Part /\ s[2] \in 1..Pieces[s[1]] /\ s = <<s[1], s[2]>>
BY DEF Slots

LEMMA PiecesNat ==
  ASSUME NEW p \in Part
  PROVE  Pieces[p] \in Nat \ {0} /\ 1 \in 1..Pieces[p]
BY ConstantsAssumption DEF ConstantsAssumption

LEMMA HereIsSlot ==
  ASSUME TypeOK, pc \in {"save", "digest", "extract"}
  PROVE  Here \in Slots /\ Here[1] = Unit
<1>1. Unit \in Part
  BY UnitIsPart, Zenon
<1>2. k \in 1..Pieces[Unit]
  BY <1>1, PiecesNat DEF TypeOK, ControlTypes
<1> QED BY <1>1, <1>2, SlotOf, Zenon DEF Here

LEMMA FirstPiece ==
  ASSUME TypeOK, pc # "idle"
  PROVE  1 <= Pieces[Unit] /\ 1 <= Pieces[list[i]] /\ Pieces[Unit] \in Nat
<1>1. Unit \in Part /\ list[i] \in Part
  BY UnitIsPart, Zenon
<1> QED BY <1>1, PiecesNat
-----------------------------------------------------------------------------
\* Each way an operation goes on keeps the control state well typed.

Results == {"none", "backed_up", "restored", "failed", "crashed", "rebooted"}

LEMMA ReturnTypes ==
  ASSUME ControlTypes, NEW r \in Results, Return(r)
  PROVE  ControlTypes'
BY Zenon DEF ControlTypes, Return, local, Results

LEMMA NextToSaveTypes ==
  ASSUME TypeOK, pc # "idle", NextToSave
  PROVE  ControlTypes'
<1>1. CASE i < Len(list)
  <2>1. /\ pc' = "save" /\ i' = i + 1 /\ j' = 0 /\ k' = 1
        /\ UNCHANGED <<list, skip, resize, data_size, count, hse, free, result>>
    BY <1>1, Zenon DEF NextToSave
  <2>2. i + 1 \in 1..Len(list) /\ list[i + 1] \in Part
    BY <1>1 DEF TypeOK, ControlTypes
  <2>3. Unit' = list[i + 1]
    BY <2>1, Zenon DEF Unit
  <2>4. Subs[list[i + 1]] \in Seq(Part) /\ 1 <= Pieces[list[i + 1]]
    BY <2>2, ConstantsAssumption, PiecesNat DEF ConstantsAssumption
  <2>5. 0 <= Len(Subs[list[i + 1]])
    BY <2>4
  <2> QED BY <2>1, <2>2, <2>3, <2>4, <2>5 DEF TypeOK, ControlTypes
<1>2. CASE ~(i < Len(list))
  BY <1>2, ReturnTypes, Zenon DEF NextToSave, TypeOK, Results
<1> QED BY <1>1, <1>2, Zenon

LEMMA SavedTypes ==
  ASSUME TypeOK, pc # "idle", Saved
  PROVE  ControlTypes'
<1>1. list[i] \in Part /\ Unit \in Part /\ Subs[list[i]] \in Seq(Part)
  BY UnitIsPart, Zenon
<1>2. /\ pc' \in {"save", "digest"} /\ j' \in {j, 1} /\ (j' # j => Len(Subs[list[i]]) >= 1)
      /\ k' = 1 /\ UNCHANGED <<list, i, skip, resize, data_size, count, hse, free, result>>
  BY <1>1 DEF Saved
<1>3. j' \in Nat /\ j' <= Len(Subs[list[i]])
  BY <1>1, <1>2 DEF TypeOK, ControlTypes
<1>4. Unit' \in Part
  BY <1>1, <1>2, <1>3 DEF Unit
<1> QED BY <1>2, <1>3, <1>4, PiecesNat DEF TypeOK, ControlTypes

LEMMA DigestedTypes ==
  ASSUME TypeOK, pc # "idle", Digested
  PROVE  ControlTypes'
<1>1. list[i] \in Part /\ Unit \in Part /\ Subs[list[i]] \in Seq(Part)
  BY UnitIsPart, Zenon
<1>2. CASE j = 0
  BY <1>2, NextToSaveTypes, Zenon DEF Digested
<1>3. CASE j # 0
  <2>1. /\ pc' \in {"save", "digest"} /\ j' \in {j + 1, 0} /\ (j' # 0 => j < Len(Subs[list[i]]))
        /\ k' = 1 /\ UNCHANGED <<list, i, skip, resize, data_size, count, hse, free, result>>
    BY <1>3, Zenon DEF Digested, TypeOK, ControlTypes
  <2>2. j' \in Nat /\ j' <= Len(Subs[list[i]])
    BY <1>1, <2>1 DEF TypeOK, ControlTypes
  <2>3. Unit' \in Part
    BY <1>1, <2>1, <2>2 DEF Unit
  <2> QED BY <2>1, <2>2, <2>3, PiecesNat DEF TypeOK, ControlTypes
<1> QED BY <1>2, <1>3, Zenon

LEMMA StartRestoringTypes ==
  ASSUME TypeOK, pc = "clk", StartRestoring
  PROVE  ControlTypes'
<1>1. CASE count = 0
  BY <1>1, ReturnTypes, Zenon DEF StartRestoring, TypeOK, Results
<1>2. CASE count # 0
  <2>1. 1 \in 1..Len(list) /\ list[1] \in Part
    BY DEF TypeOK, ControlTypes
  <2>2. Subs[list[1]] \in Seq(Part) /\ 0 <= Len(Subs[list[1]])
    BY <2>1, ConstantsAssumption DEF ConstantsAssumption
  <2> QED BY <1>2, <2>1, <2>2 DEF StartRestoring, TypeOK, ControlTypes
<1> QED BY <1>1, <1>2, Zenon

LEMMA NextToRestoreTypes ==
  ASSUME TypeOK, pc # "idle", NextToRestore
  PROVE  ControlTypes' /\ handle' \in -1..1
<1>1. CASE i < Len(list)
  <2>1. /\ pc' = "wipe" /\ i' = i + 1 /\ j' = 0 /\ k' = 1
        /\ UNCHANGED <<list, skip, resize, data_size, count, hse, free, result, handle>>
    BY <1>1, Zenon DEF NextToRestore
  <2>2. i + 1 \in 1..Len(list) /\ list[i + 1] \in Part
    BY <1>1 DEF TypeOK, ControlTypes
  <2>3. Subs[list[i + 1]] \in Seq(Part) /\ 0 <= Len(Subs[list[i + 1]])
    BY <2>2, ConstantsAssumption DEF ConstantsAssumption
  <2> QED BY <2>1, <2>2, <2>3 DEF TypeOK, ControlTypes, DiskTypes
<1>2. CASE ~(i < Len(list))
  <2>1. Return("restored") /\ handle' \in {1, handle}
    BY <1>2, Zenon DEF NextToRestore
  <2> QED BY <2>1, ReturnTypes DEF TypeOK, DiskTypes, Results
<1> QED BY <1>1, <1>2, Zenon

LEMMA RestoredTypes ==
  ASSUME TypeOK, pc # "idle", Restored
  PROVE  ControlTypes' /\ handle' \in -1..1
<1>1. CASE j < Len(Subs[list[i]])
  <2>1. /\ pc' = "wipe" /\ j' = j + 1 /\ k' = 1
        /\ UNCHANGED <<list, i, skip, resize, data_size, count, hse, free, result, handle>>
    BY <1>1, Zenon DEF Restored
  <2>2. Subs[list[i]] \in Seq(Part)
    BY UnitIsPart, Zenon
  <2> QED BY <1>1, <2>1, <2>2 DEF TypeOK, ControlTypes, DiskTypes
<1>2. CASE ~(j < Len(Subs[list[i]]))
  BY <1>2, NextToRestoreTypes, Zenon DEF Restored
<1> QED BY <1>1, <1>2, Zenon

LEMMA NothingSavedTypes ==
  ASSUME TypeOK, pc # "idle", NothingSaved
  PROVE  ControlTypes'
BY NextToSaveTypes, SavedTypes, Zenon DEF NothingSaved

LEMMA NextPieceTypes ==
  ASSUME TypeOK, pc \in {"save", "digest", "extract"}, ~LastPiece, k' = k + 1,
         UNCHANGED <<pc, list, i, j, skip, resize, data_size, count, hse, free, result>>
  PROVE  ControlTypes'
<1>1. Unit' = Unit
  BY Zenon DEF Unit
<1>2. Unit \in Part
  BY UnitIsPart, Zenon
<1>3. k + 1 <= Pieces[Unit]
  BY <1>2, PiecesNat DEF TypeOK, ControlTypes, LastPiece
<1> QED BY <1>1, <1>3 DEF TypeOK, ControlTypes

LEMMA InitTypes == Init => TypeOK
<1> SUFFICES ASSUME Init PROVE TypeOK
  BY Zenon
<1>1. DiskTypes
  <2>1. dev \in [Slots -> Data]
    BY Zenon DEF Init, Data
  <2>2. file \in [Slots -> Data \cup {None}] /\ md5 = file /\ saved = file
    BY Zenon DEF Init
  <2>3. fit \in [Part -> {"small", "exact", "fits"}]
    BY ConstantsAssumption, Zenon DEF Init, ConstantsAssumption
  <2>4. bldr \in 0..2 /\ options \subseteq {"skip_md5_check", "skip_md5_gen", "skip_free_check",
                  "handle_restore_size"}
    BY ConstantsAssumption, Zenon DEF Init, ConstantsAssumption
  <2>5. handle \in -1..1 /\ ops \in 0..MaxOps
    BY ConstantsAssumption DEF Init, Handle, ConstantsAssumption
  <2> QED BY <2>1, <2>2, <2>3, <2>4, <2>5, Zenon DEF DiskTypes
<1>2. ControlTypes
  BY DEF Init, ControlTypes
<1> QED BY <1>1, <1>2, Zenon DEF TypeOK

\* A file or a partition's piece is replaced.
LEMMA ReplacedTypes ==
  ASSUME NEW S, NEW f \in [Slots -> S], NEW s \in Slots, NEW v \in S
  PROVE  [f EXCEPT ![s] = v] \in [Slots -> S]
BY Zenon

\* What is left as it is stays well typed.
LEMMA SameDisk ==
  ASSUME DiskTypes, UNCHANGED <<bldr, options, disk, saved, ops>>
  PROVE  DiskTypes'
BY Zenon DEF DiskTypes, disk

LEMMA BackupTypes ==
  ASSUME TypeOK, Backup, UNCHANGED <<bldr, options>>
  PROVE  TypeOK'
<1> USE DEF TypeOK
<1>1. CASE StartBackup
  <2>1. PICK f \in 0..MaxFree :
          /\ free' = f
          /\ IF EnoughSpace(f)
             THEN /\ file' = [s \in Slots |-> None] /\ md5' = file' /\ saved' = file'
                  /\ pc' = "save" /\ list' = List /\ i' = 1 /\ j' = 0 /\ k' = 1
                  /\ result' = "none"
             ELSE /\ result' = "failed"
                  /\ UNCHANGED <<file, md5, saved, pc, list, i, j, k>>
    BY <1>1, Zenon DEF StartBackup
  <2>2. /\ pc = "idle" /\ ops' \in 0..MaxOps
        /\ UNCHANGED <<dev, fit, handle, skip, resize, data_size, count, hse>>
    BY <1>1, ConstantsAssumption DEF StartBackup, DiskTypes, ConstantsAssumption
  <2>3. free' \in Nat
    BY <2>1, ConstantsAssumption DEF ConstantsAssumption
  <2>4. CASE EnoughSpace(f)
    <3>1. /\ file' = [s \in Slots |-> None] /\ md5' = file' /\ saved' = file'
          /\ pc' = "save" /\ list' = List /\ i' = 1 /\ j' = 0 /\ k' = 1 /\ result' = "none"
      BY <2>1, <2>4, Zenon
    <3>2. file' \in [Slots -> Data \cup {None}]
      BY <3>1, Zenon
    <3>3. 1 \in 1..Len(List) /\ List[1] \in Part /\ List \in Seq(Part)
      BY ConstantsAssumption DEF ConstantsAssumption
    <3>4. Subs[List[1]] \in Seq(Part) /\ 0 <= Len(Subs[List[1]]) /\ 1 <= Pieces[List[1]]
      BY <3>3, ConstantsAssumption, PiecesNat DEF ConstantsAssumption
    <3>5. Unit' = List[1]
      BY <3>1, Zenon DEF Unit
    <3>6. DiskTypes'
      BY <2>2, <3>1, <3>2, Zenon DEF DiskTypes
    <3>7. ControlTypes'
      BY <2>2, <2>3, <3>1, <3>3, <3>4, <3>5 DEF ControlTypes
    <3> QED BY <3>6, <3>7, Zenon
  <2>5. CASE ~EnoughSpace(f)
    <3>1. result' = "failed" /\ UNCHANGED <<file, md5, saved, pc, list, i, j, k>>
      BY <2>1, <2>5, Zenon
    <3>2. DiskTypes'
      BY <2>2, <3>1, Zenon DEF DiskTypes
    <3>3. ControlTypes'
      BY <2>2, <2>3, <3>1, Zenon DEF ControlTypes
    <3> QED BY <3>2, <3>3, Zenon
  <2> QED BY <2>4, <2>5, Zenon
<1>2. CASE SaveNothing
  BY <1>2, NothingSavedTypes, SameDisk, Zenon DEF SaveNothing
<1>3. CASE SavePiece
  <2>1. pc = "save"
    BY <1>3, Zenon DEF SavePiece, Saving
  <2>2. Here \in Slots
    BY <2>1, HereIsSlot, Zenon
  <2>3. dev[Here] \in Data \cup {None}
    BY <2>2, Zenon DEF DiskTypes
  <2>4. file' \in [Slots -> Data \cup {None}]
    BY <1>3, <2>2, <2>3, ReplacedTypes, Zenon DEF SavePiece, DiskTypes
  <2>5. saved' \in [Slots -> Data \cup {None}]
    BY <1>3, <2>2, <2>3, ReplacedTypes, Zenon DEF SavePiece, DiskTypes
  <2>6. DiskTypes'
    BY <1>3, <2>4, <2>5, Zenon DEF SavePiece, DiskTypes
  <2>7. ControlTypes'
    BY <1>3, <2>1, SavedTypes, NextPieceTypes, Zenon DEF SavePiece
  <2> QED BY <2>6, <2>7, Zenon
<1>4. CASE SaveChildFails
  <2>1. PICK v \in {Torn, None} :
          file' = [file EXCEPT ![Here] = v] /\ (Saved \/ NothingSaved)
    BY <1>4, Zenon DEF SaveChildFails
  <2>2. pc = "save"
    BY <1>4, Zenon DEF SaveChildFails, Saving
  <2>3. Here \in Slots
    BY <2>2, HereIsSlot, Zenon
  <2>4. file' \in [Slots -> Data \cup {None}]
    <3>1. v \in Data \cup {None}
      BY Zenon DEF Data, Damage
    <3> QED BY <2>1, <2>3, <3>1, ReplacedTypes, Zenon DEF DiskTypes
  <2>5. saved' \in [Slots -> Data \cup {None}]
    <3>1. dev[Here] \in Data \cup {None}
      BY <2>3, Zenon DEF DiskTypes
    <3> QED BY <1>4, <2>3, <3>1, ReplacedTypes, Zenon DEF SaveChildFails, DiskTypes
  <2>6. DiskTypes'
    BY <1>4, <2>4, <2>5, Zenon DEF SaveChildFails, DiskTypes
  <2>7. ControlTypes'
    BY <2>1, <2>2, NothingSavedTypes, SavedTypes, Zenon
  <2> QED BY <2>6, <2>7, Zenon
<1>5. CASE SaveForkFails
  BY <1>5, NothingSavedTypes, ReturnTypes, SameDisk, Zenon DEF SaveForkFails, Saving, Results
<1>6. CASE SaveMountFails
  BY <1>6, ReturnTypes, SameDisk, Zenon DEF SaveMountFails, Results
<1>7. CASE MakeMD5
  <2>1. pc = "digest"
    BY <1>7, Zenon DEF MakeMD5
  <2>2. Here \in Slots
    BY <2>1, HereIsSlot, Zenon
  <2>3. md5' \in [Slots -> Data \cup {None}]
    <3>1. file[Here] \in Data \cup {None}
      BY <2>2, Zenon DEF DiskTypes
    <3>2. md5' = [md5 EXCEPT ![Here] = file[Here]] \/ md5' = md5
      BY <1>7, Zenon DEF MakeMD5
    <3> QED BY <2>2, <3>1, <3>2, ReplacedTypes, Zenon DEF DiskTypes
  <2>4. DiskTypes'
    BY <1>7, <2>3, Zenon DEF MakeMD5, DiskTypes
  <2>5. ControlTypes'
    BY <1>7, <2>1, DigestedTypes, NextPieceTypes, Zenon DEF MakeMD5
  <2> QED BY <2>4, <2>5, Zenon
<1>8. CASE ComputeMD5Fails
  BY <1>8, DigestedTypes, SameDisk, Zenon DEF ComputeMD5Fails
<1>9. CASE MakeMD5Ends
  BY <1>9, DigestedTypes, ReturnTypes, SameDisk, Zenon DEF MakeMD5Ends, Results
<1> QED BY <1>1, <1>2, <1>3, <1>4, <1>5, <1>6, <1>7, <1>8, <1>9, Zenon DEF Backup

LEMMA CheckPartitionTypes ==
  ASSUME TypeOK, CheckPartition, UNCHANGED <<bldr, options>>
  PROVE  TypeOK'
<1> USE DEF TypeOK
<1> DEFINE p == list[i]
           skipped == TooSmall(p) /\ SkipSmall(p)
<1>1. pc = "check" /\ j = 0
  BY Zenon DEF CheckPartition, ControlTypes
<1>2. p \in Part
  BY <1>1, UnitIsPart, Zenon
<1>3. md5' \in [Slots -> Data \cup {None}]
  <2>1. <<p, 1>> \in Slots
    BY <1>2, PiecesNat, SlotOf, Zenon
  <2>2. file[<<p, 1>>] \in Data \cup {None}
    BY <2>1, Zenon DEF DiskTypes
  <2>3. md5' = md5 \/ md5' = [md5 EXCEPT ![<<p, 1>>] = file[<<p, 1>>]]
    BY SMTT(30) DEF CheckPartition, DigestsAfterConversion
  <2> QED BY <2>1, <2>2, <2>3, ReplacedTypes, SMTT(30) DEF DiskTypes
<1>4. DiskTypes'
  BY <1>3, Zenon DEF CheckPartition, DiskTypes
<1>5. skip' \subseteq Part
  BY <1>2, Zenon DEF CheckPartition, ControlTypes
<1>6. CASE skipped \/ \A q \in Units(p) : Check_MD5(q, md5')
  <2>1. /\ count' \in {count, count + 1} /\ data_size' \in {data_size, {p}}
        /\ resize' \in {resize, resize \cup {p}}
        /\ UNCHANGED <<list, j, k, hse, free, result>>
    BY <1>6, Zenon DEF CheckPartition
  <2>2. /\ pc' = IF i < Len(list) THEN "check" ELSE "clk"
        /\ i' = IF i < Len(list) THEN i + 1 ELSE 1
    BY <1>6, Zenon DEF CheckPartition
  <2>3. pc' \in {"check", "clk"} /\ i' \in 1..Len(list)
    BY <1>1, <2>2 DEF ControlTypes
  <2>4. list[i'] \in Part
    BY <2>3 DEF ControlTypes
  <2>5. Subs[list[i']] \in Seq(Part) /\ 0 <= Len(Subs[list[i']])
    BY <2>4, ConstantsAssumption DEF ConstantsAssumption
  <2>6. count' \in Nat /\ data_size' \subseteq Part /\ resize' \subseteq Part
    BY <1>2, <2>1 DEF ControlTypes
  <2>7. ControlTypes'
    BY <1>1, <1>5, <2>1, <2>3, <2>5, <2>6 DEF ControlTypes
  <2> QED BY <1>4, <2>7, Zenon
<1>7. CASE ~(skipped \/ \A q \in Units(p) : Check_MD5(q, md5'))
  <2>1. pc' = "idle" /\ result' = "failed"
        /\ UNCHANGED <<list, i, j, k, resize, data_size, count, hse, free>>
    BY <1>7, Zenon DEF CheckPartition
  <2>2. ControlTypes'
    BY <1>5, <2>1, Zenon DEF ControlTypes
  <2> QED BY <1>4, <2>2, Zenon
<1> QED BY <1>6, <1>7, Zenon

LEMMA StartRestoreTypes ==
  ASSUME TypeOK, StartRestore, UNCHANGED <<bldr, options>>
  PROVE  TypeOK'
<1>1. list' \in Seq(Part) /\ list' # <<>>
  BY ConstantsAssumption, Zenon DEF StartRestore, ConstantsAssumption
<1>2. 1 \in 1..Len(list') /\ list'[1] \in Part
  BY <1>1
<1>3. Subs[list'[1]] \in Seq(Part) /\ 0 <= Len(Subs[list'[1]])
  BY <1>2, ConstantsAssumption DEF ConstantsAssumption
<1>4. ControlTypes'
  BY <1>1, <1>2, <1>3 DEF StartRestore, TypeOK, ControlTypes, DiskTypes
<1>5. DiskTypes'
  BY ConstantsAssumption DEF StartRestore, TypeOK, DiskTypes, disk, ConstantsAssumption
<1> QED BY <1>4, <1>5, Zenon DEF TypeOK

\* Restoring goes on with the archive files of the partition at hand.
LEMMA ToExtractTypes ==
  ASSUME TypeOK, pc # "idle", pc' = "extract", k' = 1, skip' = skip \ {Unit},
         UNCHANGED <<list, i, j, resize, data_size, count, hse, free, result>>
  PROVE  ControlTypes'
<1>1. Unit' = Unit
  BY Zenon DEF Unit
<1>2. 1 <= Pieces[Unit]
  BY FirstPiece, Zenon
<1> QED BY <1>1, <1>2 DEF TypeOK, ControlTypes

LEMMA ErasedTypes ==
  ASSUME DiskTypes, NEW u
  PROVE  Erased(u) \in [Slots -> Data]
BY Zenon DEF DiskTypes, Erased, Data, Damage

LEMMA PlacedTypes ==
  ASSUME DiskTypes, NEW u, NEW n, <<u, n>> \in Slots, file[<<u, n>>] # None
  PROVE  Placed(u, n) \in Data
<1>1. file[<<u, n>>] \in Data /\ Torn \in Data /\ Nested \in Data
  BY Zenon DEF DiskTypes, Data, Damage
<1>2. Placed(u, n) \in {file[<<u, n>>], Torn, Nested}
  BY Zenon DEF Placed
<1> QED BY <1>1, <1>2, Zenon

LEMMA RestoreTypes ==
  ASSUME TypeOK, Restore, UNCHANGED <<bldr, options>>
  PROVE  TypeOK'
<1> USE DEF TypeOK
<1>1. CASE StartRestore
  BY <1>1, StartRestoreTypes, Zenon
<1>2. CASE CheckPartition
  BY <1>2, CheckPartitionTypes, Zenon
<1>3. CASE NoClkPartMgr
  BY <1>3, StartRestoringTypes, SameDisk, Zenon DEF NoClkPartMgr
<1>4. CASE NothingToResize
  BY <1>4, ReturnTypes, SameDisk, Zenon DEF NothingToResize, Results
<1>5. CASE ClkPartMgrReboots
  <2>1. fit' \in [Part -> {"small", "exact", "fits"}]
    BY <1>5, Zenon DEF ClkPartMgrReboots, DiskTypes
  <2>2. DiskTypes'
    BY <1>5, <2>1 DEF ClkPartMgrReboots, DiskTypes
  <2>3. ControlTypes'
    BY <1>5, ReturnTypes, Zenon DEF ClkPartMgrReboots, Results
  <2> QED BY <2>2, <2>3, Zenon
<1>6. CASE ClkPartMgrReturns
  <2>1. DiskTypes'
    BY <1>6 DEF ClkPartMgrReturns, DiskTypes
  <2> QED BY <1>6, <2>1, StartRestoringTypes, Zenon DEF ClkPartMgrReturns
<1>7. CASE SkipPartition
  <2>1. ControlTypes' /\ handle' \in -1..1
    BY <1>7, NextToRestoreTypes, Zenon DEF SkipPartition
  <2>2. DiskTypes'
    BY <1>7, <2>1, Zenon DEF SkipPartition, DiskTypes
  <2> QED BY <2>1, <2>2, Zenon
<1>8. CASE Wipe
  <2>1. ControlTypes'
    BY <1>8, ToExtractTypes, Zenon DEF Wipe, Restoring
  <2>2. dev' \in [Slots -> Data]
    BY <1>8, ErasedTypes, Zenon DEF Wipe, DiskTypes
  <2>3. DiskTypes'
    BY <1>8, <2>2, Zenon DEF Wipe, DiskTypes
  <2> QED BY <2>1, <2>3, Zenon
<1>9. CASE RefuseImage
  BY <1>9, ReturnTypes, SameDisk, Zenon DEF RefuseImage, Results
<1>10. CASE WipeFails
  <2>1. pc # "idle"
    BY <1>10, Zenon DEF WipeFails, Restoring
  <2>2. CASE Class[Unit] = "ext"
    BY <1>10, <2>1, <2>2, ToExtractTypes, SameDisk, Zenon DEF WipeFails
  <2>3. CASE Class[Unit] # "ext"
    BY <1>10, <2>3, ReturnTypes, SameDisk, Zenon DEF WipeFails, Results
  <2> QED BY <2>2, <2>3, SMTT(30)
<1>11. CASE RestoreMountFails
  <2>1. dev' \in [Slots -> Data]
    BY <1>11, ErasedTypes, Zenon DEF RestoreMountFails
  <2>2. DiskTypes'
    BY <1>11, <2>1, Zenon DEF RestoreMountFails, DiskTypes
  <2> QED BY <1>11, <2>2, ReturnTypes, Zenon DEF RestoreMountFails, Results
<1>12. CASE ExtractPiece
  <2>1. pc = "extract" /\ file[Here] # None
    BY <1>12, Zenon DEF ExtractPiece
  <2>2. Here \in Slots
    BY <2>1, HereIsSlot, Zenon
  <2>3. Placed(Unit, k) \in Data /\ Torn \in Data
    BY <2>1, <2>2, PlacedTypes, Zenon DEF Here, Data, Damage
  <2>4. dev' \in [Slots -> Data]
    BY <1>12, <2>2, <2>3, ReplacedTypes DEF ExtractPiece, DiskTypes
  <2>5. ControlTypes' /\ handle' \in -1..1
    <3>1. CASE LastPiece
      BY <1>12, <2>1, <3>1, RestoredTypes, Zenon DEF ExtractPiece
    <3>2. CASE ~LastPiece
      BY <1>12, <2>1, <3>2, NextPieceTypes, Zenon DEF ExtractPiece, DiskTypes
    <3> QED BY <3>1, <3>2, Zenon
  <2>6. DiskTypes'
    BY <1>12, <2>4, <2>5, Zenon DEF ExtractPiece, DiskTypes
  <2> QED BY <2>5, <2>6, Zenon
<1>13. CASE NoMorePieces
  <2>1. ControlTypes' /\ handle' \in -1..1
    BY <1>13, RestoredTypes, ReturnTypes, Zenon DEF NoMorePieces, Results, DiskTypes
  <2>2. DiskTypes'
    BY <1>13, <2>1, Zenon DEF NoMorePieces, DiskTypes
  <2> QED BY <2>1, <2>2, Zenon
<1>14. CASE ExtractForkFails
  <2>1. ControlTypes' /\ handle' \in -1..1
    BY <1>14, RestoredTypes, ReturnTypes, Zenon DEF ExtractForkFails, Results, DiskTypes
  <2>2. DiskTypes'
    BY <1>14, <2>1, Zenon DEF ExtractForkFails, DiskTypes
  <2> QED BY <2>1, <2>2, Zenon
<1> QED BY <1>1, <1>2, <1>3, <1>4, <1>5, <1>6, <1>7, <1>8, <1>9, <1>10, <1>11,
           <1>12, <1>13, <1>14, Zenon DEF Restore

LEMMA NextTypes ==
  ASSUME TypeOK, [Next]_vars
  PROVE  TypeOK'
<1> USE DEF TypeOK
<1>1. CASE Backup /\ UNCHANGED <<bldr, options>>
  BY <1>1, BackupTypes, Zenon
<1>2. CASE Restore /\ UNCHANGED <<bldr, options>>
  BY <1>2, RestoreTypes, Zenon
<1>3. CASE UsePartition /\ UNCHANGED <<bldr, options>>
  <2>1. dev' \in [Slots -> Data]
    BY <1>3, Zenon DEF UsePartition, DiskTypes, Data
  <2>2. ops' \in 0..MaxOps
    BY <1>3, ConstantsAssumption DEF UsePartition, DiskTypes, ConstantsAssumption
  <2>3. DiskTypes'
    BY <1>3, <2>1, <2>2, Zenon DEF UsePartition, DiskTypes
  <2>4. ControlTypes'
    BY <1>3, Zenon DEF UsePartition, ControlTypes, local
  <2> QED BY <2>3, <2>4, Zenon
<1>4. CASE Decay /\ UNCHANGED <<bldr, options>>
  <2>1. PICK s \in Slots : file' \in {[file EXCEPT ![s] = Rotten], [file EXCEPT ![s] = None]}
    BY <1>4, Zenon DEF Decay
  <2>2. Rotten \in Data \cup {None}
    BY Zenon DEF Data, Damage
  <2>3. file' \in [Slots -> Data \cup {None}]
    BY <2>1, <2>2, ReplacedTypes, Zenon DEF DiskTypes
  <2>4. ops' \in 0..MaxOps
    BY <1>4, ConstantsAssumption DEF Decay, DiskTypes, ConstantsAssumption
  <2>5. DiskTypes'
    BY <1>4, <2>3, <2>4, Zenon DEF Decay, DiskTypes
  <2>6. ControlTypes'
    BY <1>4, Zenon DEF Decay, ControlTypes, local
  <2> QED BY <2>5, <2>6, Zenon
<1>5. CASE Crash /\ UNCHANGED <<bldr, options>>
  <2>1. Torn \in Data
    BY Zenon DEF Data, Damage
  <2>2. file' \in [Slots -> Data \cup {None}]
    BY <1>5, <2>1, HereIsSlot, ReplacedTypes, Zenon DEF Crash, DiskTypes
  <2>3. dev' \in [Slots -> Data]
    BY <1>5, <2>1, HereIsSlot, ReplacedTypes DEF Crash, DiskTypes
  <2>4. ops' \in 0..MaxOps
    BY <1>5, ConstantsAssumption DEF Crash, DiskTypes, ConstantsAssumption
  <2>5. DiskTypes'
    BY <1>5, <2>2, <2>3, <2>4, Zenon DEF Crash, DiskTypes
  <2>6. ControlTypes'
    BY <1>5, ReturnTypes, Zenon DEF Crash, Results
  <2> QED BY <2>5, <2>6, Zenon
<1>6. CASE UNCHANGED vars
  <2>1. DiskTypes'
    BY <1>6, Zenon DEF vars, disk, DiskTypes
  <2>2. ControlTypes'
    BY <1>6, Zenon DEF vars, local, ControlTypes, Unit
  <2> QED BY <2>1, <2>2, Zenon
<1> QED BY <1>1, <1>2, <1>3, <1>4, <1>5, <1>6, Zenon DEF Next

\* In every reachable state the variables have their types and the loops of
\* Run_Backup and Run_Restore stay inside their lists.
THEOREM TypeCorrect == Spec => []TypeOK
<1>1. TypeOK /\ [Next]_vars => TypeOK'
  BY NextTypes, Zenon
<1> QED BY <1>1, InitTypes, PTL DEF Spec

-----------------------------------------------------------------------------

\* The digests.  The first pass of Run_Restore leaves behind that what is not
\* skipped was verified, and the second pass un-skips only what it just verified
\* as a sub-partition.

Verified(p) == \A q \in Units(p) : Check_MD5(q, md5)
SkippedOrVerified(n) == \A m \in 1..n : list[m] \in skip \/ Verified(list[m])

VerifiedInv ==
  /\ pc = "check" => SkippedOrVerified(i - 1)
  /\ pc \in {"clk", "wipe", "extract"} => SkippedOrVerified(Len(list))
  /\ pc = "wipe" /\ j # 0 => list[i] \notin skip
  /\ pc = "extract" => list[i] \notin skip

NoRotInv ==
  "skip_md5_check" \notin options =>
    /\ \A s \in Slots : dev[s] # Rotten /\ md5[s] # Rotten
    /\ pc \in {"save", "digest"} => \A s \in Slots : file[s] # Rotten
    /\ pc = "extract" => \A l \in 1..(k - 1) : file[<<Unit, l>>] # None

\* Where a step may lead.
LEMMA BackupStays ==
  ASSUME Backup
  PROVE  pc' \in {"idle", "save", "digest"}
<1>1. NextToSave => pc' \in {"idle", "save"}
  BY Zenon DEF NextToSave, Return
<1>2. Saved => pc' \in {"save", "digest"}
  BY Zenon DEF Saved
<1>3. NothingSaved => pc' \in {"idle", "save", "digest"}
  BY <1>1, <1>2, Zenon DEF NothingSaved
<1>4. Digested => pc' \in {"idle", "save", "digest"}
  BY <1>1, Zenon DEF Digested
<1>5. StartBackup \/ SaveNothing \/ SavePiece \/ SaveChildFails => pc' \in {"idle", "save", "digest"}
  BY <1>2, <1>3, Zenon DEF StartBackup, SaveNothing, SavePiece, SaveChildFails, Saving
<1>6. SaveForkFails \/ SaveMountFails => pc' \in {"idle", "save", "digest"}
  BY <1>3, Zenon DEF SaveForkFails, SaveMountFails, Return
<1>7. MakeMD5 \/ ComputeMD5Fails \/ MakeMD5Ends => pc' \in {"idle", "save", "digest"}
  BY <1>4, Zenon DEF MakeMD5, ComputeMD5Fails, MakeMD5Ends, Return
<1> QED BY <1>5, <1>6, <1>7, Zenon DEF Backup

LEMMA StillVerified ==
  ASSUME NEW p, UNCHANGED <<file, md5, options>>
  PROVE  Verified(p)' <=> Verified(p)
BY Zenon DEF Verified, Check_MD5

LEMMA StillSkippedOrVerified ==
  ASSUME SkippedOrVerified(Len(list)), UNCHANGED <<file, md5, options, list, skip>>
  PROVE  SkippedOrVerified(Len(list))'
BY StillVerified, Zenon DEF SkippedOrVerified

\* Converting an archive of /boot spoils no digest that matched.
LEMMA ConversionVerifies ==
  ASSUME TypeOK, NEW p \in Part, md5' \in DigestsAfterConversion(p),
         UNCHANGED <<file, options>>, NEW q \in Part, Check_MD5(q, md5)
  PROVE  Check_MD5(q, md5')
<1>1. CASE md5' = md5 \/ q # p
  <2>1. md5' = md5 \/ md5' = [md5 EXCEPT ![<<p, 1>>] = file[<<p, 1>>]]
    BY Zenon DEF DigestsAfterConversion
  <2>2. \A n \in 1..Pieces[q] : md5'[<<q, n>>] = md5[<<q, n>>]
    <3>1. ASSUME NEW n \in 1..Pieces[q] PROVE md5'[<<q, n>>] = md5[<<q, n>>]
      <4>1. <<q, n>> \in Slots /\ <<p, 1>> \in Slots
        BY SlotOf, PiecesNat, Zenon
      <4>2. q # p => <<q, n>> # <<p, 1>>
        BY Zenon
      <4> QED BY <1>1, <2>1, <4>1, <4>2, Zenon DEF TypeOK, DiskTypes
    <3> QED BY <3>1, Zenon
  <2>3. 1 \in 1..Pieces[q]
    BY PiecesNat, Zenon
  <2> QED BY <2>2, <2>3, Zenon DEF Check_MD5
<1>2. CASE md5' # md5 /\ q = p
  <2>1. p \in Converted /\ md5' = [md5 EXCEPT ![<<p, 1>>] = file[<<p, 1>>]]
    BY <1>2, Zenon DEF DigestsAfterConversion
  <2>2. Kind[p] # "split" /\ Pieces[p] = 1
    BY <2>1, ConstantsAssumption, Zenon DEF ConstantsAssumption
  <2>3. <<p, 1>> \in Slots
    BY SlotOf, PiecesNat, Zenon
  <2>4. md5'[<<p, 1>>] = file[<<p, 1>>]
    BY <2>1, <2>3, Zenon DEF TypeOK, DiskTypes
  <2>5. "skip_md5_check" \in options \/ file[<<p, 1>>] # None
    BY <1>2, <2>2, Zenon DEF Check_MD5
  <2> QED BY <1>2, <2>2, <2>4, <2>5 DEF Check_MD5
<1> QED BY <1>1, <1>2, Zenon

LEMMA UnitsArePart ==
  ASSUME NEW p \in Part
  PROVE  Units(p) \subseteq Part
<1>1. Subs[p] \in Seq(Part)
  BY ConstantsAssumption, Zenon DEF ConstantsAssumption
<1> QED BY <1>1 DEF Units

LEMMA UnitIsUnit ==
  ASSUME TypeOK, pc # "idle"
  PROVE  /\ Unit \in Units(list[i])
         /\ j # 0 => Units(Unit) = {Unit}
<1>1. list[i] \in Part /\ j \in Nat /\ j <= Len(Subs[list[i]]) /\ Subs[list[i]] \in Seq(Part)
  BY UnitIsPart, Zenon DEF TypeOK, ControlTypes
<1>2. j # 0 => j \in 1..Len(Subs[list[i]])
  BY <1>1
<1>3. j # 0 => Subs[Unit] = <<>>
  BY <1>1, <1>2, ConstantsAssumption, SMTT(30) DEF ConstantsAssumption, Unit
<1>4. j # 0 => Units(Unit) = {Unit}
  BY <1>3 DEF Units
<1> QED BY <1>2, <1>4, Zenon DEF Unit, Units

LEMMA CheckPartitionVerifies ==
  ASSUME TypeOK, VerifiedInv, CheckPartition, UNCHANGED <<bldr, options>>
  PROVE  VerifiedInv'
<1> DEFINE p == list[i]
           skipped == TooSmall(p) /\ SkipSmall(p)
           passed == skipped \/ \A q \in Units(p) : Check_MD5(q, md5')
<1>1. /\ pc = "check" /\ j = 0 /\ i \in 1..Len(list) /\ p \in Part
      /\ UNCHANGED <<file, options>> /\ list \in Seq(Part)
  <2>1. pc = "check" /\ UNCHANGED <<file, options>>
    BY Zenon DEF CheckPartition
  <2> QED BY <2>1, UnitIsPart DEF TypeOK, ControlTypes
<1>2. md5' \in DigestsAfterConversion(p)
  BY Zenon DEF CheckPartition
<1>3. CASE passed
  <2>1. /\ UNCHANGED <<list, j>>
        /\ pc' = IF i < Len(list) THEN "check" ELSE "clk"
        /\ i' = IF i < Len(list) THEN i + 1 ELSE 1
    BY <1>3, Zenon DEF CheckPartition
  <2>2. skip' = IF skipped THEN skip \cup {p} ELSE skip \ {p}
    BY Zenon DEF CheckPartition
  <2>3. p \in skip' \/ \A q \in Units(p) : Check_MD5(q, md5')
    BY <1>3, <2>2, Zenon
  <2>4. ASSUME NEW m \in 1..i
        PROVE  list[m] \in skip' \/ Verified(list[m])'
    <3>0. list[m] \in Part
      BY <1>1
    <3>1. CASE list[m] = p
      <4>1. list[m] \in skip' \/ \A q \in Units(list[m]) : Check_MD5(q, md5')
        BY <2>3, <3>1, Zenon
      <4>2. (\A q \in Units(list[m]) : Check_MD5(q, md5')) => Verified(list[m])'
        BY <1>1, <2>1, Zenon DEF Verified, Check_MD5
      <4> QED BY <4>1, <4>2, Zenon
    <3>2. CASE list[m] # p
      <4>1. m \in 1..(i - 1)
        BY <1>1, <3>2
      <4>2. list[m] \in skip \/ Verified(list[m])
        BY <1>1, <4>1, Zenon DEF VerifiedInv, SkippedOrVerified
      <4>3. list[m] \in skip => list[m] \in skip'
        BY <2>2, <3>2, Zenon
      <4>4. Verified(list[m]) => \A q \in Units(list[m]) : Check_MD5(q, md5')
        BY <1>1, <1>2, <3>0, UnitsArePart, ConversionVerifies, Zenon DEF Verified
      <4>5. (\A q \in Units(list[m]) : Check_MD5(q, md5')) => Verified(list[m])'
        BY <1>1, <2>1, Zenon DEF Verified, Check_MD5
      <4> QED BY <4>2, <4>3, <4>4, <4>5, Zenon
    <3> QED BY <3>1, <3>2, Zenon
  <2>5. CASE i < Len(list)
    <3>1. pc' = "check" /\ i' - 1 = i
      BY <1>1, <2>1, <2>5
    <3> QED BY <2>1, <2>4, <3>1, Zenon DEF VerifiedInv, SkippedOrVerified
  <2>6. CASE ~(i < Len(list))
    <3>1. pc' = "clk" /\ Len(list) = i
      BY <1>1, <2>1, <2>6
    <3> QED BY <2>1, <2>4, <3>1, Zenon DEF VerifiedInv, SkippedOrVerified
  <2> QED BY <2>5, <2>6, Zenon
<1>4. CASE ~passed
  <2>1. pc' = "idle"
    BY <1>4, Zenon DEF CheckPartition
  <2> QED BY <2>1, Zenon DEF VerifiedInv
<1> QED BY <1>3, <1>4, Zenon

\* Un-skipping the unit that Restore starts with.
LEMMA UnskippedIsVerified ==
  ASSUME TypeOK, VerifiedInv, Restoring, pc' = "extract", skip' = skip \ {Unit},
         UNCHANGED <<file, md5, options, list, i, j>>
  PROVE  VerifiedInv'
<1>1. pc = "wipe" /\ list[i] \notin skip /\ i \in 1..Len(list)
  BY DEF Restoring, VerifiedInv, TypeOK, ControlTypes
<1>2. Verified(list[i])
  BY <1>1, Zenon DEF VerifiedInv, SkippedOrVerified
<1>3. j # 0 => Verified(Unit)
  BY <1>1, <1>2, UnitIsUnit DEF Verified
<1>4. j = 0 => Unit \notin skip
  BY <1>1, Zenon DEF Unit
<1>5. ASSUME NEW m \in 1..Len(list)
      PROVE  list[m] \in skip' \/ Verified(list[m])
  BY <1>1, <1>3, <1>4, Zenon DEF VerifiedInv, SkippedOrVerified
<1>6. SkippedOrVerified(Len(list))'
  BY <1>5, StillVerified, Zenon DEF SkippedOrVerified
<1> QED BY <1>1, <1>6, Zenon DEF VerifiedInv

LEMMA RestoredKeepsVerified ==
  ASSUME TypeOK, VerifiedInv, pc = "extract", Restored, UNCHANGED <<file, md5, options>>
  PROVE  VerifiedInv'
<1>1. SkippedOrVerified(Len(list)) /\ list[i] \notin skip
  BY Zenon DEF VerifiedInv
<1>2. CASE j < Len(Subs[list[i]])
  <2>1. pc' = "wipe" /\ UNCHANGED <<list, i, skip>>
    BY <1>2, Zenon DEF Restored
  <2> QED BY <1>1, <2>1, StillSkippedOrVerified, Zenon DEF VerifiedInv
<1>3. CASE ~(j < Len(Subs[list[i]]))
  <2>1. ((pc' = "wipe" /\ j' = 0) \/ pc' = "idle") /\ UNCHANGED <<list, skip>>
    BY <1>3, Zenon DEF Restored, NextToRestore, Return, local
  <2> QED BY <1>1, <2>1, StillSkippedOrVerified, Zenon DEF VerifiedInv
<1> QED BY <1>2, <1>3, Zenon

LEMMA StartRestoringVerified ==
  ASSUME VerifiedInv, pc = "clk", StartRestoring, UNCHANGED <<file, md5, options>>
  PROVE  VerifiedInv'
<1>1. SkippedOrVerified(Len(list))
  BY Zenon DEF VerifiedInv
<1>2. (pc' = "idle" \/ (pc' = "wipe" /\ j' = 0)) /\ UNCHANGED <<list, skip>>
  BY Zenon DEF StartRestoring, Return, local
<1> QED BY <1>1, <1>2, StillSkippedOrVerified, Zenon DEF VerifiedInv

LEMMA RestoreVerifies ==
  ASSUME TypeOK, VerifiedInv, Restore, UNCHANGED <<bldr, options>>
  PROVE  VerifiedInv'
<1>1. CASE StartRestore
  <2>1. pc' = "check" /\ i' = 1
    BY <1>1, Zenon DEF StartRestore
  <2> QED BY <2>1 DEF VerifiedInv, SkippedOrVerified
<1>2. CASE CheckPartition
  BY <1>2, CheckPartitionVerifies, Zenon
<1>3. CASE NoClkPartMgr \/ ClkPartMgrReturns
  BY <1>3, StartRestoringVerified, Zenon DEF NoClkPartMgr, ClkPartMgrReturns, disk
<1>4. CASE NothingToResize \/ ClkPartMgrReboots \/ RefuseImage \/ RestoreMountFails
  BY <1>4, Zenon DEF NothingToResize, ClkPartMgrReboots, RefuseImage, RestoreMountFails, Return, VerifiedInv
<1>5. CASE SkipPartition
  <2>1. pc = "wipe" /\ UNCHANGED <<file, md5, options>>
    BY <1>5, Zenon DEF SkipPartition
  <2>2. ((pc' = "wipe" /\ j' = 0) \/ pc' = "idle") /\ UNCHANGED <<list, skip>>
    BY <1>5, Zenon DEF SkipPartition, NextToRestore, Return, local
  <2>3. SkippedOrVerified(Len(list))
    BY <2>1, Zenon DEF VerifiedInv
  <2> QED BY <2>1, <2>2, <2>3, StillSkippedOrVerified, Zenon DEF VerifiedInv
<1>6. CASE Wipe
  BY <1>6, UnskippedIsVerified, Zenon DEF Wipe
<1>7. CASE WipeFails
  <2>1. CASE Class[Unit] = "ext"
    BY <1>7, <2>1, UnskippedIsVerified, Zenon DEF WipeFails, disk
  <2>2. CASE Class[Unit] # "ext"
    BY <1>7, <2>2, Zenon DEF WipeFails, Return, VerifiedInv
  <2> QED BY <2>1, <2>2, Zenon
<1>8. CASE ExtractPiece
  <2>1. pc = "extract" /\ UNCHANGED <<file, md5, options>>
    BY <1>8, Zenon DEF ExtractPiece
  <2>2. CASE LastPiece
    BY <1>8, <2>1, <2>2, RestoredKeepsVerified, Zenon DEF ExtractPiece
  <2>3. CASE ~LastPiece
    <3>1. UNCHANGED <<pc, list, i, j, skip>>
      BY <1>8, <2>3, Zenon DEF ExtractPiece
    <3>2. SkippedOrVerified(Len(list))
      BY <2>1, Zenon DEF VerifiedInv
    <3> QED BY <2>1, <3>1, <3>2, StillSkippedOrVerified, Zenon DEF VerifiedInv
  <2> QED BY <2>2, <2>3, Zenon
<1>9. CASE NoMorePieces
  BY <1>9, RestoredKeepsVerified, Zenon DEF NoMorePieces, Return, VerifiedInv
<1>10. CASE ExtractForkFails
  BY <1>10, RestoredKeepsVerified, Zenon DEF ExtractForkFails, Return, VerifiedInv
<1> QED BY <1>1, <1>2, <1>3, <1>4, <1>5, <1>6, <1>7, <1>8, <1>9, <1>10, Zenon DEF Restore

LEMMA NextVerifies ==
  ASSUME TypeOK, VerifiedInv, [Next]_vars
  PROVE  VerifiedInv'
<1>1. CASE Backup
  BY <1>1, BackupStays, Zenon DEF VerifiedInv
<1>2. CASE Restore /\ UNCHANGED <<bldr, options>>
  BY <1>2, RestoreVerifies, Zenon
<1>3. CASE UsePartition \/ Decay \/ Crash
  BY <1>3, Zenon DEF UsePartition, Decay, Crash, Return, VerifiedInv
<1>4. CASE UNCHANGED vars
  <2>1. UNCHANGED <<file, md5, options, list, skip, pc, i, j>>
    BY <1>4, Zenon DEF vars, disk, local
  <2>2. pc = "check" => SkippedOrVerified(i - 1)'
    <3> SUFFICES ASSUME pc = "check" PROVE SkippedOrVerified(i - 1)'
      BY Zenon
    <3>1. \A m \in 1..(i - 1) : list[m] \in skip \/ Verified(list[m])
      BY Zenon DEF VerifiedInv, SkippedOrVerified
    <3> QED BY <2>1, <3>1, StillVerified, Zenon DEF SkippedOrVerified
  <2> QED BY <2>1, <2>2, StillSkippedOrVerified, Zenon DEF VerifiedInv
<1> QED BY <1>1, <1>2, <1>3, <1>4, Zenon DEF Next

LEMMA VerifiedAlways == Spec => [](TypeOK /\ VerifiedInv)
<1>1. Init => TypeOK /\ VerifiedInv
  BY InitTypes, Zenon DEF Init, VerifiedInv
<1>2. TypeOK /\ VerifiedInv /\ [Next]_vars => (TypeOK /\ VerifiedInv)'
  BY NextTypes, NextVerifies, Zenon
<1> QED BY <1>1, <1>2, PTL DEF Spec

\* Before a restore touches the first partition, every file it will extract
\* matches its .md5 file, if no archive is split (the loop of Check_MD5 over a split
\* archive ends at the first file that is missing).
THEOREM MatchBeforeWipe ==
  ASSUME \A p \in Part : Kind[p] # "split"
  PROVE  Spec => []AllMatchBeforeWipe
<1>1. TypeOK /\ VerifiedInv => AllMatchBeforeWipe
  <2> SUFFICES ASSUME TypeOK, VerifiedInv, pc \in {"wipe", "extract"},
                      "skip_md5_check" \notin options,
                      NEW s \in Slots, s[1] \in RestoredUnits
               PROVE  file[s] = md5[s]
    BY Zenon DEF AllMatchBeforeWipe
  <2>1. PICK m \in 1..Len(list) : list[m] \notin skip /\ s[1] \in Units(list[m])
    BY Zenon DEF RestoredUnits
  <2>2. Check_MD5(s[1], md5)
    BY <2>1, Zenon DEF VerifiedInv, SkippedOrVerified, Verified
  <2>3. s[1] \in Part /\ s[2] \in 1..Pieces[s[1]] /\ s = <<s[1], s[2]>> /\ Pieces[s[1]] = 1
    BY SlotParts, ConstantsAssumption, Zenon DEF ConstantsAssumption
  <2>4. s = <<s[1], 1>>
    BY <2>3
  <2> QED BY <2>2, <2>3, <2>4 DEF Check_MD5
<1> QED BY <1>1, VerifiedAlways, PTL

-----------------------------------------------------------------------------
\* What decayed never reaches a partition.

LEMMA RottenIsNot ==
  /\ Rotten \notin {Wiped, Torn, Nested, None} /\ Rotten \notin Versions
BY ConstantsAssumption, Zenon DEF ConstantsAssumption, Damage

\* Every file that is extracted was compared: none before it is missing.
LEMMA VerifiedPiece ==
  ASSUME TypeOK, VerifiedInv, pc = "extract", "skip_md5_check" \notin options,
         file[Here] # None, \A l \in 1..(k - 1) : file[<<Unit, l>>] # None
  PROVE  md5[Here] = file[Here]
<1>1. list[i] \notin skip /\ i \in 1..Len(list)
  BY DEF VerifiedInv, TypeOK, ControlTypes
<1>2. Check_MD5(Unit, md5)
  BY <1>1, UnitIsUnit, Zenon DEF VerifiedInv, SkippedOrVerified, Verified
<1>3. k \in 1..Pieces[Unit] /\ k \in Nat \ {0}
  BY UnitIsPart, PiecesNat DEF TypeOK, ControlTypes
<1>4. \A l \in 1..k : file[<<Unit, l>>] # None
  <2>1. ASSUME NEW l \in 1..k PROVE l \in 1..(k - 1) \/ l = k
    BY <1>3
  <2> QED BY <2>1, Zenon DEF Here
<1> QED BY <1>2, <1>3, <1>4, Zenon DEF Check_MD5, Here

LEMMA BackupNoRot ==
  ASSUME TypeOK, NoRotInv, Backup, UNCHANGED <<bldr, options>>
  PROVE  NoRotInv'
<1> SUFFICES ASSUME "skip_md5_check" \notin options
             PROVE  NoRotInv'
  BY Zenon DEF NoRotInv
<1>0. /\ \A s \in Slots : dev[s] # Rotten /\ md5[s] # Rotten
      /\ pc \in {"save", "digest"} => \A s \in Slots : file[s] # Rotten
  BY Zenon DEF NoRotInv
<1>1. SUFFICES /\ dev' = dev
               /\ \A s \in Slots : md5'[s] # Rotten
               /\ pc' # "idle" => \A s \in Slots : file'[s] # Rotten
  BY <1>0, <1>1, BackupStays, Zenon DEF NoRotInv
<1>2. CASE StartBackup
  BY <1>0, <1>2, RottenIsNot, Zenon DEF StartBackup
<1>3. CASE SaveNothing \/ SaveForkFails \/ SaveMountFails \/ ComputeMD5Fails \/ MakeMD5Ends
  BY <1>0, <1>3, Zenon DEF SaveNothing, SaveForkFails, SaveMountFails, ComputeMD5Fails,
                    MakeMD5Ends, Saving, disk
<1>4. CASE SavePiece
  <2>1. pc = "save" /\ Here \in Slots
    BY <1>4, HereIsSlot, Zenon DEF SavePiece, Saving
  <2> QED BY <1>0, <1>4, <2>1, Zenon DEF SavePiece, TypeOK, DiskTypes
<1>5. CASE SaveChildFails
  <2>1. pc = "save" /\ Here \in Slots
    BY <1>5, HereIsSlot, Zenon DEF SaveChildFails, Saving
  <2>2. PICK v \in {Torn, None} : file' = [file EXCEPT ![Here] = v]
    BY <1>5, Zenon DEF SaveChildFails
  <2> QED BY <1>0, <1>5, <2>1, <2>2, RottenIsNot, Zenon DEF SaveChildFails, TypeOK, DiskTypes
<1>6. CASE MakeMD5
  <2>1. pc = "digest" /\ Here \in Slots
    BY <1>6, HereIsSlot, Zenon DEF MakeMD5
  <2>2. file[Here] # Rotten
    BY <1>0, <2>1, Zenon
  <2>3. md5' = [md5 EXCEPT ![Here] = file[Here]] \/ md5' = md5
    BY <1>6, Zenon DEF MakeMD5
  <2> QED BY <1>0, <1>6, <2>1, <2>2, <2>3, Zenon DEF MakeMD5, TypeOK, DiskTypes
<1> QED BY <1>2, <1>3, <1>4, <1>5, <1>6, Zenon DEF Backup

LEMMA PlacedNoRot ==
  ASSUME NEW u, NEW n, file[<<u, n>>] # Rotten
  PROVE  Placed(u, n) # Rotten
<1>1. Placed(u, n) \in {file[<<u, n>>], Torn, Nested}
  BY Zenon DEF Placed
<1> QED BY <1>1, RottenIsNot, Zenon

LEMMA RestoreNoRot ==
  ASSUME Converted = {}, TypeOK, VerifiedInv, NoRotInv, Restore, UNCHANGED <<bldr, options>>
  PROVE  NoRotInv'
<1> SUFFICES ASSUME "skip_md5_check" \notin options
             PROVE  NoRotInv'
  BY Zenon DEF NoRotInv
<1>0. \A s \in Slots : dev[s] # Rotten /\ md5[s] # Rotten
  BY Zenon DEF NoRotInv
<1>1. ASSUME UNCHANGED md5, \A s \in Slots : dev'[s] # Rotten,
             pc' \in {"idle", "check", "clk", "wipe"}
      PROVE  NoRotInv'
  BY <1>0, <1>1, Zenon DEF NoRotInv
<1>2. Restored => pc' \in {"wipe", "idle"}
  BY Zenon DEF Restored, NextToRestore, Return
<1>3. CASE StartRestore
  BY <1>0, <1>1, <1>3, Zenon DEF StartRestore, disk
<1>4. CASE CheckPartition
  <2>1. md5' = md5
    BY <1>4, Zenon DEF CheckPartition, DigestsAfterConversion
  <2>2. pc' \in {"idle", "check", "clk"} /\ dev' = dev
    BY <1>4, Zenon DEF CheckPartition
  <2> QED BY <1>0, <1>1, <2>1, <2>2, Zenon
<1>5. CASE NoClkPartMgr \/ ClkPartMgrReturns
  BY <1>0, <1>1, <1>5, Zenon DEF NoClkPartMgr, ClkPartMgrReturns, StartRestoring, Return, disk
<1>6. CASE NothingToResize \/ ClkPartMgrReboots \/ RefuseImage
  BY <1>0, <1>1, <1>6, Zenon DEF NothingToResize, ClkPartMgrReboots, RefuseImage, Return, disk
<1>7. CASE SkipPartition
  BY <1>0, <1>1, <1>7, Zenon DEF SkipPartition, NextToRestore, Return
<1>8. \A s \in Slots : Erased(Unit)[s] # Rotten
  BY <1>0, RottenIsNot, Zenon DEF Erased
<1>9. CASE RestoreMountFails
  BY <1>1, <1>8, <1>9, Zenon DEF RestoreMountFails, Return
<1>10. CASE Wipe
  <2>1. \A s \in Slots : dev'[s] # Rotten
    BY <1>0, <1>8, <1>10, Zenon DEF Wipe
  <2>2. UNCHANGED md5 /\ pc' = "extract" /\ k' = 1
    BY <1>10, Zenon DEF Wipe
  <2> QED BY <1>0, <2>1, <2>2 DEF NoRotInv
<1>11. CASE WipeFails
  <2>1. UNCHANGED <<dev, md5>> /\ (pc' = "idle" \/ (pc' = "extract" /\ k' = 1))
    BY <1>11, Zenon DEF WipeFails, Return, disk
  <2> QED BY <1>0, <2>1 DEF NoRotInv
<1>12. CASE ExtractPiece
  <2>1. /\ pc = "extract" /\ Here \in Slots /\ file[Here] # None
        /\ UNCHANGED <<md5, file>>
    BY <1>12, HereIsSlot, Zenon DEF ExtractPiece
  <2>2. \A l \in 1..(k - 1) : file[<<Unit, l>>] # None
    BY <2>1, Zenon DEF NoRotInv
  <2>3. file[Here] # Rotten
    BY <1>0, <2>1, <2>2, VerifiedPiece, Zenon
  <2>4. Placed(Unit, k) # Rotten
    BY <2>3, PlacedNoRot, Zenon DEF Here
  <2>5. \A s \in Slots : dev'[s] # Rotten
    BY <1>0, <1>12, <2>1, <2>4, RottenIsNot, Zenon DEF ExtractPiece, TypeOK, DiskTypes
  <2>6. CASE LastPiece
    BY <1>1, <1>2, <1>12, <2>1, <2>5, <2>6, Zenon DEF ExtractPiece
  <2>7. CASE ~LastPiece
    <3>1. UNCHANGED <<pc, list, i, j>> /\ k' = k + 1
      BY <1>12, <2>7, Zenon DEF ExtractPiece
    <3>2. Unit' = Unit
      BY <3>1, Zenon DEF Unit
    <3>3. \A l \in 1..k : file[<<Unit, l>>] # None
      BY <2>1, <2>2 DEF Here, TypeOK, ControlTypes
    <3>4. k' - 1 = k
      BY <3>1 DEF TypeOK, ControlTypes
    <3> QED BY <1>0, <2>1, <2>5, <3>1, <3>2, <3>3, <3>4, Zenon DEF NoRotInv
  <2> QED BY <2>6, <2>7, Zenon
<1>13. CASE NoMorePieces
  BY <1>0, <1>1, <1>2, <1>13, Zenon DEF NoMorePieces, Return
<1>14. CASE ExtractForkFails
  BY <1>0, <1>1, <1>2, <1>14, Zenon DEF ExtractForkFails, Return
<1> QED BY <1>3, <1>4, <1>5, <1>6, <1>7, <1>9, <1>10, <1>11, <1>12, <1>13, <1>14
, Zenon        DEF Restore

LEMMA NextNoRot ==
  ASSUME Converted = {}, TypeOK, VerifiedInv, NoRotInv, [Next]_vars
  PROVE  NoRotInv'
<1>1. CASE Backup /\ UNCHANGED <<bldr, options>>
  BY <1>1, BackupNoRot, Zenon
<1>2. CASE Restore /\ UNCHANGED <<bldr, options>>
  BY <1>2, RestoreNoRot, Zenon
<1>3. CASE UsePartition /\ UNCHANGED <<bldr, options>>
  BY <1>3, RottenIsNot, Zenon DEF UsePartition, NoRotInv
<1>4. CASE Decay /\ UNCHANGED <<bldr, options>>
  BY <1>4, Zenon DEF Decay, NoRotInv
<1>5. CASE Crash /\ UNCHANGED <<bldr, options>>
  <2>1. pc' = "idle" /\ md5' = md5
    BY <1>5, Zenon DEF Crash, Return
  <2>2. ASSUME \A s \in Slots : dev[s] # Rotten
        PROVE  \A s \in Slots : dev'[s] # Rotten
    BY <1>5, <2>2, RottenIsNot, HereIsSlot, Zenon DEF Crash, TypeOK, DiskTypes
  <2> QED BY <1>5, <2>1, <2>2, Zenon DEF NoRotInv
<1>6. CASE UNCHANGED vars
  BY <1>6, Zenon DEF vars, disk, local, NoRotInv, Unit
<1> QED BY <1>1, <1>2, <1>3, <1>4, <1>5, <1>6, Zenon DEF Next

\* An archive that changed on the storage after its digest was made is never
\* extracted while the MD5 check is on, through any number of backups, restores,
\* lost files, failing children and crashes, unless it is an archive of /boot
\* that Run_Restore converts and digests anew.
THEOREM RotIsNotRestored ==
  ASSUME Converted = {}
  PROVE  Spec => []NoRotRestored
<1>1. Init => NoRotInv
  BY RottenIsNot DEF Init, NoRotInv
<1>2. TypeOK /\ VerifiedInv /\ NoRotInv /\ [Next]_vars => NoRotInv'
  BY NextNoRot, Zenon
<1>3. NoRotInv => NoRotRestored
  BY Zenon DEF NoRotInv, NoRotRestored
<1> QED BY <1>1, <1>2, <1>3, VerifiedAlways, PTL DEF Spec

-----------------------------------------------------------------------------
\* Restores that compare sizes, when the message for cLK can be left and no
\* sub-partition is of a class that is compared.
FittingSetting ==
  /\ "bcb" \notin Faults
  /\ \A p \in Part : \A n \in 1..Len(Subs[p]) : ~CheckedForSize(Subs[p][n])

Compared(p) == hse > 0 /\ bldr # 0 /\ CheckedForSize(p)

\* After the first pass a partition fits, is skipped, is to grow, or its request was
\* replaced by that of another; in the second one those that are not skipped are large
\* enough or their request was replaced.
Spared(p) ==
  Compared(p) => \/ fit[p] = "fits" \/ p \in skip \/ (bldr = 1 /\ p \in resize \cup data_size)
                 \/ RequestReplaced(p)
Fitting(p) == Compared(p) => fit[p] # "small" \/ p \in skip \/ RequestReplaced(p)

FitInv ==
  /\ \A p \in data_size : p \in Part /\ Class[p] = "main"
  /\ pc = "check" => \A n \in 1..(i - 1) : Spared(list[n])
  /\ pc = "clk" => \A n \in 1..Len(list) : Spared(list[n])
  /\ pc \in {"wipe", "extract"} => \A n \in 1..Len(list) : Fitting(list[n])
  /\ pc = "extract" /\ j = 0 => list[i] \notin skip

\* What the second pass puts somewhere fits there.
LEMMA UnitFits ==
  ASSUME FittingSetting, TypeOK, FitInv, Restoring \/ pc = "extract"
  PROVE  Compared(Unit) => fit[Unit] # "small" \/ RequestReplaced(Unit)
<1>1. /\ pc \in {"wipe", "extract"} /\ i \in Nat \ {0} /\ i <= Len(list)
      /\ j \in Nat /\ j <= Len(Subs[list[i]])
  BY Zenon DEF Restoring, TypeOK, ControlTypes
<1>2. list[i] \in Part /\ Subs[list[i]] \in Seq(Part)
  BY <1>1, UnitIsPart, Zenon
<1>3. CASE j = 0
  <2>1. Unit = list[i] /\ list[i] \notin skip
    BY <1>1, <1>3, Zenon DEF Unit, Restoring, FitInv
  <2>2. Fitting(list[i])
    BY <1>1 DEF FitInv
  <2> QED BY <2>1, <2>2, Zenon DEF Fitting
<1>4. CASE j # 0
  <2>1. ~CheckedForSize(Unit)
    BY <1>1, <1>2, <1>4 DEF FittingSetting, Unit
  <2> QED BY <2>1, Zenon DEF Compared
<1> QED BY <1>3, <1>4, Zenon

LEMMA ToExtractFits ==
  ASSUME FittingSetting, TypeOK, FitInv, Restoring, pc' = "extract", skip' = skip \ {Unit},
         UNCHANGED <<list, i, j, fit, hse, bldr, data_size>>
  PROVE  FitInv'
<1>1. ASSUME NEW n \in 1..Len(list) PROVE Fitting(list[n])'
  <2>1. Fitting(list[n])
    BY Zenon DEF FitInv, Restoring
  <2>2. list[n] = Unit => (Compared(list[n]) => fit[list[n]] # "small" \/ RequestReplaced(list[n]))
    BY UnitFits, Zenon
  <2> QED BY <2>1, <2>2, Zenon DEF Fitting, Compared, RequestReplaced
<1>2. j = 0 => list[i] \notin skip'
  BY Zenon DEF Unit
<1> QED BY <1>1, <1>2, Zenon DEF FitInv

LEMMA CheckPartitionFits ==
  ASSUME FittingSetting, TypeOK, FitInv, CheckPartition, UNCHANGED <<bldr, options>>
  PROVE  FitInv'
<1>0. PICK p : p = list[i]
  BY Zenon
<1>1. /\ pc = "check" /\ UNCHANGED <<list, fit, hse>>
      /\ i \in Nat \ {0} /\ i <= Len(list) /\ Len(list) \in Nat /\ bldr \in 0..2
  BY DEF CheckPartition, TypeOK, ControlTypes, DiskTypes
<1>2. p \in Part /\ \A n \in 1..Len(list) : list[n] \in Part
  BY <1>0, <1>1, UnitIsPart DEF TypeOK, ControlTypes
<1>3. CASE pc' = "idle"
  BY <1>3, <1>1, Zenon DEF CheckPartition, FitInv
<1>4. CASE pc' # "idle"
  <2>1. /\ skip' = IF TooSmall(p) /\ SkipSmall(p) THEN skip \cup {p} ELSE skip \ {p}
        /\ data_size' = IF TooSmall(p) /\ bldr = 1 /\ Class[p] = "main" THEN {p} ELSE data_size
        /\ resize' = IF TooSmall(p) /\ bldr = 1 /\ Class[p] \in {"boot", "extraboot"}
                     THEN resize \cup {p} ELSE resize
        /\ pc' = IF i < Len(list) THEN "check" ELSE "clk"
        /\ i' = IF i < Len(list) THEN i + 1 ELSE 1
    BY <1>0, <1>4, Zenon DEF CheckPartition
  <2>2. \A q \in data_size' : q \in Part /\ Class[q] = "main"
    BY <2>1, <1>2, Zenon DEF FitInv
  <2>3. \A q : bldr = 1 /\ (q \in data_size \/ RequestReplaced(q))
          => q \in data_size' \/ RequestReplaced(q)'
    <3>1. ASSUME NEW q, bldr = 1, q \in data_size \/ RequestReplaced(q)
          PROVE  q \in data_size' \/ RequestReplaced(q)'
      <4>1. Class[q] = "main"
        BY <3>1, Zenon DEF FitInv, RequestReplaced
      <4>2. CASE data_size' = data_size
        BY <3>1, <4>2, Zenon DEF RequestReplaced
      <4>3. CASE data_size' = {p}
        BY <3>1, <4>1, <4>3, Zenon DEF RequestReplaced
      <4> QED BY <2>1, <4>2, <4>3, Zenon
    <3> QED BY <3>1, Zenon
  <2>4. Spared(p)'
    <3> SUFFICES ASSUME Compared(p), fit[p] # "fits"
                 PROVE  p \in skip' \/ (bldr = 1 /\ p \in resize' \cup data_size')
      BY <1>1, Zenon DEF Spared, Compared
    <3>1. TooSmall(p) /\ bldr \in {1, 2}
      BY <1>1 DEF TooSmall, Compared
    <3>2. CASE SkipSmall(p)
      BY <2>1, <3>1, <3>2, Zenon
    <3>3. CASE ~SkipSmall(p)
      <4>1. bldr = 1 /\ Class[p] \in {"main", "boot", "extraboot"}
        BY <3>1, <3>3, Zenon DEF SkipSmall, Compared, CheckedForSize
      <4> QED BY <2>1, <3>1, <4>1, Zenon
    <3> QED BY <3>2, <3>3, Zenon
  <2>5. ASSUME NEW n \in 1..i, NEW q, q = list[n] PROVE Spared(q)'
    <3>1. CASE q = p
      BY <2>4, <3>1, <1>1, Zenon
    <3>2. CASE q # p
      <4>1. n \in 1..(i - 1)
        BY <1>0, <1>1, <2>5, <3>2
      <4>2. Spared(q)
        BY <1>1, <2>5, <4>1, Zenon DEF FitInv
      <4> SUFFICES ASSUME Compared(q)
                   PROVE  \/ fit[q] = "fits" \/ q \in skip'
                          \/ (bldr = 1 /\ q \in resize' \cup data_size') \/ RequestReplaced(q)'
        BY <1>1, Zenon DEF Spared, Compared
      <4>3. q \in skip => q \in skip'
        BY <2>1, <3>2, Zenon
      <4>4. q \in resize => q \in resize'
        BY <2>1, Zenon
      <4>5. RequestReplaced(q) => bldr = 1
        BY Zenon DEF RequestReplaced
      <4> QED BY <4>2, <4>3, <4>4, <4>5, <2>3, Zenon DEF Spared
    <3> QED BY <3>1, <3>2, Zenon
  <2>6. \A n \in 1..i : Spared(list[n])'
    BY <2>5, <1>1, Zenon
  <2>7. CASE i < Len(list)
    <3>1. i' - 1 = i /\ pc' = "check"
      BY <2>1, <2>7, <1>1
    <3> QED BY <2>2, <2>6, <3>1, <1>1, Zenon DEF FitInv
  <2>8. CASE ~(i < Len(list))
    <3>1. Len(list) = i /\ pc' = "clk"
      BY <2>1, <2>8, <1>1
    <3> QED BY <2>2, <2>6, <3>1, <1>1, Zenon DEF FitInv
  <2> QED BY <2>7, <2>8, Zenon
<1> QED BY <1>3, <1>4, Zenon

\* The second pass starts with partitions that fit, or are skipped.
LEMMA StartRestoringFits ==
  ASSUME FittingSetting, TypeOK, FitInv, pc = "clk", StartRestoring, UNCHANGED <<bldr, fit>>,
         hse > 0 /\ bldr = 1 => Growing = {}
  PROVE  FitInv'
<1>1. pc' \in {"idle", "wipe"} /\ UNCHANGED <<list, skip, hse, data_size>>
  BY Zenon DEF StartRestoring, Return, local
<1>2. ASSUME NEW n \in 1..Len(list) PROVE Fitting(list[n])'
  <2>1. Spared(list[n])
    BY Zenon DEF FitInv
  <2>2. hse > 0 /\ bldr = 1 /\ list[n] \in resize \cup data_size => fit[list[n]] # "small"
    BY Zenon DEF Growing
  <2> QED BY <2>1, <2>2, <1>1, Zenon DEF Spared, Fitting, Compared, RequestReplaced
<1> QED BY <1>1, <1>2, Zenon DEF FitInv

LEMMA RestoreFits ==
  ASSUME FittingSetting, TypeOK, FitInv, Restore, UNCHANGED <<bldr, options>>
  PROVE  FitInv'
<1>1. CASE StartRestore
  <2>1. pc' = "check" /\ 1..(i' - 1) = {} /\ data_size' = {}
    BY <1>1 DEF StartRestore
  <2> QED BY <2>1, Zenon DEF FitInv
<1>2. CASE CheckPartition
  BY <1>2, CheckPartitionFits, Zenon
<1>3. CASE NoClkPartMgr \/ ClkPartMgrReturns
  BY <1>3, StartRestoringFits, Zenon DEF NoClkPartMgr, ClkPartMgrReturns, disk, FittingSetting
<1>4. CASE NothingToResize \/ ClkPartMgrReboots \/ RefuseImage \/ RestoreMountFails
  BY <1>4, Zenon DEF NothingToResize, ClkPartMgrReboots, RefuseImage, RestoreMountFails, Return, local,
     FitInv
<1>5. ASSUME pc \in {"wipe", "extract"}, NextToRestore \/ Restored, fit' = fit
      PROVE  FitInv'
  <2>1. pc' \in {"wipe", "idle"} /\ UNCHANGED <<list, skip, hse, data_size>>
    BY <1>5, Zenon DEF NextToRestore, Restored, Return, local
  <2>2. \A n \in 1..Len(list) : Fitting(list[n])'
    BY <2>1, <1>5, Zenon DEF FitInv, Fitting, Compared, RequestReplaced
  <2> QED BY <2>1, <2>2, Zenon DEF FitInv
<1>6. CASE SkipPartition
  BY <1>5, <1>6, Zenon DEF SkipPartition
<1>7. CASE Wipe
  BY <1>7, ToExtractFits, Zenon DEF Wipe
<1>8. CASE WipeFails
  <2>1. CASE Class[Unit] = "ext"
    BY <1>8, <2>1, ToExtractFits, Zenon DEF WipeFails, disk
  <2>2. CASE Class[Unit] # "ext"
    BY <1>8, <2>2, Zenon DEF WipeFails, Return, local, FitInv
  <2> QED BY <2>1, <2>2, Zenon
<1>9. CASE ExtractPiece
  <2>1. pc = "extract" /\ fit' = fit
    BY <1>9, Zenon DEF ExtractPiece
  <2>2. CASE LastPiece
    BY <1>5, <1>9, <2>1, <2>2, Zenon DEF ExtractPiece
  <2>3. CASE ~LastPiece
    <3>1. UNCHANGED <<pc, list, i, j, skip, hse, data_size>>
      BY <1>9, <2>3, Zenon DEF ExtractPiece
    <3>2. \A n \in 1..Len(list) : Fitting(list[n])'
      BY <2>1, <3>1, Zenon DEF FitInv, Fitting, Compared, RequestReplaced
    <3> QED BY <2>1, <3>1, <3>2, Zenon DEF FitInv
  <2> QED BY <2>2, <2>3, Zenon
<1>10. CASE NoMorePieces \/ ExtractForkFails
  <2>1. pc = "extract" /\ fit' = fit /\ (Restored \/ Return("failed"))
    BY <1>10, Zenon DEF NoMorePieces, ExtractForkFails
  <2>2. CASE Return("failed")
    BY <2>2, Zenon DEF Return, local, FitInv
  <2> QED BY <1>5, <2>1, <2>2, Zenon
<1> QED BY <1>1, <1>2, <1>3, <1>4, <1>6, <1>7, <1>8, <1>9, <1>10, Zenon DEF Restore

LEMMA NextFits ==
  ASSUME FittingSetting, TypeOK, FitInv, [Next]_vars
  PROVE  FitInv'
<1>1. CASE Backup /\ UNCHANGED <<bldr, options>>
  <2>1. UNCHANGED data_size
    <3>1. NextToSave \/ Saved \/ Digested \/ NothingSaved => UNCHANGED data_size
      BY Zenon DEF NextToSave, Saved, Digested, NothingSaved, Return, local
    <3>2. CASE StartBackup \/ SaveNothing \/ SavePiece \/ SaveChildFails \/ SaveForkFails
      BY <3>1, <3>2, Zenon DEF StartBackup, SaveNothing, SavePiece, SaveChildFails, SaveForkFails, Return,
         local
    <3>3. CASE SaveMountFails \/ MakeMD5 \/ ComputeMD5Fails \/ MakeMD5Ends
      BY <3>1, <3>3, Zenon DEF SaveMountFails, MakeMD5, ComputeMD5Fails, MakeMD5Ends, Return, local
    <3> QED BY <1>1, <3>2, <3>3, Zenon DEF Backup
  <2> QED BY <1>1, <2>1, BackupStays, Zenon DEF FitInv
<1>2. CASE Restore /\ UNCHANGED <<bldr, options>>
  BY <1>2, RestoreFits, Zenon
<1>3. CASE (UsePartition \/ Decay \/ Crash) /\ UNCHANGED <<bldr, options>>
  <2>1. pc' = "idle" /\ UNCHANGED data_size
    BY <1>3, Zenon DEF UsePartition, Decay, Crash, Return, local
  <2> QED BY <1>3, <2>1, Zenon DEF FitInv
<1>4. CASE UNCHANGED vars
  <2>1. UNCHANGED <<bldr, fit, pc, list, i, j, skip, resize, data_size, hse>>
    BY <1>4, Zenon DEF vars, disk, local
  <2>2. \A p : (Spared(p)' <=> Spared(p)) /\ (Fitting(p)' <=> Fitting(p))
    BY <2>1, Zenon DEF Spared, Fitting, Compared, RequestReplaced
  <2> QED BY <2>1, <2>2, Zenon DEF FitInv
<1> QED BY <1>1, <1>2, <1>3, <1>4, Zenon DEF Next

\* The restore writes to the partition at hand only.
LEMMA OnlyUnitChanges ==
  ASSUME TypeOK, pc \in {"wipe", "extract"}, Next, NEW s \in Slots, dev'[s] # dev[s]
  PROVE  s[1] = Unit /\ (Restoring \/ pc = "extract")
<1>1. CASE Backup
  BY <1>1, Zenon DEF Backup, StartBackup, SaveNothing, SavePiece, SaveChildFails, SaveForkFails,
     SaveMountFails, MakeMD5, ComputeMD5Fails, MakeMD5Ends, Saving
<1>2. CASE StartRestore \/ CheckPartition \/ UsePartition \/ Decay
  BY <1>2, Zenon DEF StartRestore, CheckPartition, UsePartition, Decay
<1>3. CASE NoClkPartMgr \/ NothingToResize \/ ClkPartMgrReboots \/ ClkPartMgrReturns
  BY <1>3, Zenon DEF NoClkPartMgr, NothingToResize, ClkPartMgrReboots, ClkPartMgrReturns
<1>4. CASE SkipPartition \/ RefuseImage \/ WipeFails \/ NoMorePieces \/ ExtractForkFails
  BY <1>4, Zenon DEF SkipPartition, RefuseImage, WipeFails, NoMorePieces, ExtractForkFails, disk
<1>5. CASE Wipe \/ RestoreMountFails
  BY <1>5, Zenon DEF Wipe, RestoreMountFails, Erased
<1>6. ASSUME pc = "extract", NEW v, dev' = [dev EXCEPT ![Here] = v]
      PROVE  s[1] = Unit
  <2>1. s = Here
    BY <1>6, Zenon DEF TypeOK, DiskTypes
  <2> QED BY <1>6, <2>1, HereIsSlot, Zenon
<1>7. CASE ExtractPiece
  BY <1>6, <1>7, Zenon DEF ExtractPiece
<1>8. CASE Crash
  BY <1>6, <1>8, Zenon DEF Crash
<1> QED BY <1>1, <1>2, <1>3, <1>4, <1>5, <1>7, <1>8, Zenon DEF Next, Restore

\* OnlyFittingRestored: a restore that compares sizes changes only partitions for which
\* their archive is not too large, whichever are selected, skipped or enlarged, and
\* wherever it is cut short; with cLK there is one exception, /system or /data whose
\* request for room was replaced by that of the other (Run_Restore's data_size).
THEOREM OnlyFittingIsRestored ==
  ASSUME FittingSetting
  PROVE  Spec => OnlyFittingRestored
<1>1. Init => FitInv
  BY Zenon DEF Init, FitInv
<1>2. TypeOK /\ FitInv /\ [Next]_vars => FitInv'
  BY NextFits, Zenon
<1>3. TypeOK /\ FitInv /\ [Next]_vars =>
        [\A s \in Slots :
           /\ pc \in {"wipe", "extract"} /\ hse > 0 /\ bldr # 0 /\ CheckedForSize(s[1])
           /\ dev'[s] # dev[s]
           => fit[s[1]] # "small" \/ RequestReplaced(s[1])]_vars
  <2>1. ASSUME TypeOK, FitInv, Next, NEW s \in Slots, pc \in {"wipe", "extract"},
               hse > 0, bldr # 0, CheckedForSize(s[1]), dev'[s] # dev[s]
        PROVE  fit[s[1]] # "small" \/ RequestReplaced(s[1])
    BY <2>1, OnlyUnitChanges, UnitFits, Zenon DEF Compared
  <2> QED BY <2>1, Zenon
<1> QED BY <1>1, <1>2, <1>3, TypeCorrect, PTL DEF Spec, OnlyFittingRestored
-----------------------------------------------------------------------------
\* The round trip, when no child process fails (which its parent would not see),
\* no archive is split or converted, the MD5 check is on, and there is no /sd-ext
\* (whose failing wipe Restore_Tar ignores).
SoundSetting ==
  /\ {"child", "fork"} \cap Faults = {}
  /\ \A p \in Part : Kind[p] # "split" /\ Class[p] # "ext"
  /\ Converted = {}
  /\ \A o \in Settings : "skip_md5_check" \notin o

\* What the digests in the folder say of the last backup.
SavedInv ==
  /\ \A s \in Slots : md5[s] # None => md5[s] = saved[s]
  /\ pc \in {"save", "digest"} =>
       \A s \in Slots : /\ saved[s] # None => saved[s] = dev[s]
                        /\ file[s] # None => file[s] = saved[s]

\* The units that the second pass has restored so far.
DoneUnits ==
  {u \in Part :
     \/ \E n \in 1..(i - 1) : list[n] \notin skip /\ u \in Units(list[n])
     \/ j # 0 /\ u = list[i]
     \/ \E m \in 1..(j - 1) : u = Subs[list[i]][m]}

HoldSaved(units) ==
  \A s \in Slots : s[1] \in units /\ fit[s[1]] # "small" => dev[s] = saved[s]

DoneInv ==
  /\ pc = "wipe" => HoldSaved(DoneUnits)
  /\ pc = "extract" => /\ HoldSaved(DoneUnits \ {Unit})
                       /\ IsTar(Unit) => dev[<<Unit, 1>>] = Wiped
  /\ result = "restored" => pc = "idle" /\ HoldSaved(RestoredUnits)

RoundTripInv == "skip_md5_check" \notin options /\ SavedInv /\ DoneInv

LEMMA OnePiece ==
  ASSUME SoundSetting
  PROVE  /\ \A p \in Part : Pieces[p] = 1
         /\ \A s \in Slots : s = <<s[1], 1>>
<1>1. \A p \in Part : Pieces[p] = 1
  BY ConstantsAssumption, Zenon DEF ConstantsAssumption, SoundSetting
<1> QED BY <1>1, SlotParts

LEMMA BackupRoundTrip ==
  ASSUME SoundSetting, TypeOK, RoundTripInv, Backup, UNCHANGED <<bldr, options>>
  PROVE  RoundTripInv'
<1>1. SavedInv'
  <2>1. CASE StartBackup
    BY <2>1, Zenon DEF StartBackup, SavedInv, RoundTripInv
  <2>2. CASE SaveNothing \/ SaveMountFails \/ ComputeMD5Fails \/ MakeMD5Ends
    BY <2>2, Zenon DEF SaveNothing, SaveMountFails, ComputeMD5Fails, MakeMD5Ends, disk,
                SavedInv, RoundTripInv
  <2>3. CASE SavePiece
    <3>1. pc = "save" /\ Here \in Slots
      BY <2>3, HereIsSlot, Zenon DEF SavePiece, Saving
    <3>2. /\ file' = [file EXCEPT ![Here] = dev[Here]]
          /\ saved' = [saved EXCEPT ![Here] = dev[Here]]
          /\ UNCHANGED <<dev, md5>>
      BY <2>3, Zenon DEF SavePiece
    <3>3. ASSUME NEW s \in Slots
          PROVE  /\ md5'[s] # None => md5'[s] = saved'[s]
                 /\ saved'[s] # None => saved'[s] = dev'[s]
                 /\ file'[s] # None => file'[s] = saved'[s]
      <4>1. CASE s = Here
        BY <3>1, <3>2, <4>1, Zenon DEF RoundTripInv, SavedInv, TypeOK, DiskTypes
      <4>2. CASE s # Here
        BY <3>1, <3>2, <4>2, Zenon DEF RoundTripInv, SavedInv, TypeOK, DiskTypes
      <4> QED BY <4>1, <4>2, Zenon
    <3> QED BY <3>3, Zenon DEF SavedInv
  <2>4. CASE MakeMD5
    <3>1. pc = "digest" /\ Here \in Slots /\ file[Here] # None /\ UNCHANGED <<dev, file, saved>>
      BY <2>4, HereIsSlot, Zenon DEF MakeMD5
    <3>2. file[Here] = saved[Here]
      BY <3>1, Zenon DEF RoundTripInv, SavedInv
    <3>3. md5' = [md5 EXCEPT ![Here] = file[Here]] \/ md5' = md5
      BY <2>4, Zenon DEF MakeMD5
    <3> QED BY <3>1, <3>2, <3>3, Zenon DEF RoundTripInv, SavedInv, TypeOK, DiskTypes
  <2> QED BY <2>1, <2>2, <2>3, <2>4, Zenon DEF Backup, SoundSetting, SaveChildFails, SaveForkFails
<1>2. result' # "restored"
  <2>1. NextToSave \/ Saved \/ Digested \/ NothingSaved => result' \in {result, "backed_up"}
    BY Zenon DEF NextToSave, Saved, Digested, NothingSaved, Return
  <2>2. pc # "idle" => result # "restored"
    BY Zenon DEF RoundTripInv, DoneInv
  <2>3. CASE StartBackup
    BY <2>3, Zenon DEF StartBackup
  <2>4. CASE SaveNothing \/ SavePiece \/ SaveChildFails \/ SaveForkFails \/ SaveMountFails
    BY <2>1, <2>2, <2>4, Zenon DEF SaveNothing, SavePiece, SaveChildFails, SaveForkFails,
                            SaveMountFails, Saving, Return
  <2>5. CASE MakeMD5 \/ ComputeMD5Fails \/ MakeMD5Ends
    BY <2>1, <2>2, <2>5, Zenon DEF MakeMD5, ComputeMD5Fails, MakeMD5Ends, Return
  <2> QED BY <2>3, <2>4, <2>5, Zenon DEF Backup
<1> QED BY <1>1, <1>2, BackupStays, Zenon DEF RoundTripInv, DoneInv

\* A subset of what holds what was saved does so, too.
LEMMA HoldSavedSubset ==
  ASSUME NEW D, HoldSaved(D), NEW E, E \subseteq D
  PROVE  HoldSaved(E)
BY Zenon DEF HoldSaved

\* Units(list[i]) is what the second pass has restored when it goes on.
LEMMA NextToRestoreCovers ==
  ASSUME TypeOK, pc # "idle", NextToRestore, NEW D, DoneUnits \subseteq D,
         list[i] \in skip \/ Units(list[i]) \subseteq D
  PROVE  \/ pc' = "wipe" /\ result' = result /\ DoneUnits' \subseteq D
         \/ pc' = "idle" /\ result' = "restored" /\ RestoredUnits' \subseteq D
<1>1. i \in Nat \ {0} /\ i <= Len(list) /\ list \in Seq(Part)
  BY Zenon DEF TypeOK, ControlTypes
<1>2. ASSUME NEW m \in 1..i, list[m] \notin skip
      PROVE  Units(list[m]) \subseteq D
  <2>1. CASE m = i
    BY <1>2, <2>1, Zenon
  <2>2. CASE m # i
    <3>1. m \in 1..(i - 1)
      BY <1>1, <2>2
    <3>2. list[m] \in Part
      BY <1>1
    <3>3. Units(list[m]) \subseteq DoneUnits
      BY <1>2, <3>1, <3>2, UnitsArePart, Zenon DEF DoneUnits
    <3> QED BY <3>3, Zenon
  <2> QED BY <2>1, <2>2, Zenon
<1>3. CASE i < Len(list)
  <2>1. pc' = "wipe" /\ i' = i + 1 /\ j' = 0 /\ UNCHANGED <<list, skip, result>>
    BY <1>3, Zenon DEF NextToRestore
  <2>2. i' - 1 = i /\ 1..(j' - 1) = {}
    BY <1>1, <2>1
  <2>3. ASSUME NEW u \in DoneUnits' PROVE u \in D
    <3>1. PICK n \in 1..i : list[n] \notin skip /\ u \in Units(list[n])
      BY <2>1, <2>2 DEF DoneUnits, Units
    <3> QED BY <1>2, <3>1, Zenon
  <2> QED BY <2>1, <2>3, Zenon
<1>4. CASE ~(i < Len(list))
  <2>1. pc' = "idle" /\ result' = "restored" /\ UNCHANGED <<list, skip>>
    BY <1>4, Zenon DEF NextToRestore, Return, local
  <2>2. Len(list) = i
    BY <1>1, <1>4
  <2>3. RestoredUnits' = UNION {Units(list[n]) : n \in {m \in 1..i : list[m] \notin skip}}
    BY <2>1, <2>2 DEF RestoredUnits, Units
  <2> QED BY <1>2, <2>1, <2>3, Zenon
<1> QED BY <1>3, <1>4, Zenon

LEMMA RestoredCovers ==
  ASSUME TypeOK, pc = "extract", Restored, NEW D, DoneUnits \subseteq D, Unit \in D
  PROVE  \/ pc' = "wipe" /\ result' = result /\ DoneUnits' \subseteq D
         \/ pc' = "idle" /\ result' = "restored" /\ RestoredUnits' \subseteq D
<1>1. /\ j \in Nat /\ j <= Len(Subs[list[i]]) /\ Subs[list[i]] \in Seq(Part)
  BY UnitIsPart, Zenon DEF TypeOK, ControlTypes
<1>2. list[i] \in D
  BY UnitIsPart, Zenon DEF DoneUnits, Unit
<1>3. ASSUME NEW m \in 1..j PROVE Subs[list[i]][m] \in D
  <2>1. CASE m = j
    BY <1>1, <2>1 DEF Unit
  <2>2. CASE m # j
    <3>1. m \in 1..(j - 1)
      BY <1>1, <2>2
    <3>2. Subs[list[i]][m] \in Part
      BY <1>1
    <3> QED BY <3>1, <3>2, Zenon DEF DoneUnits
  <2> QED BY <2>1, <2>2, Zenon
<1>4. CASE j < Len(Subs[list[i]])
  <2>1. pc' = "wipe" /\ j' = j + 1 /\ UNCHANGED <<list, i, skip, result>>
    BY <1>4, Zenon DEF Restored
  <2>2. j' - 1 = j /\ j' # 0
    BY <1>1, <2>1
  <2>3. ASSUME NEW u \in DoneUnits' PROVE u \in D
    <3>1. \/ \E n \in 1..(i - 1) : list[n] \notin skip /\ u \in Units(list[n])
          \/ u = list[i]
          \/ \E m \in 1..j : u = Subs[list[i]][m]
      BY <2>1, <2>2 DEF DoneUnits, Units
    <3>2. u \in Part
      BY Zenon DEF DoneUnits
    <3> QED BY <1>2, <1>3, <3>1, <3>2, Zenon DEF DoneUnits
  <2> QED BY <2>1, <2>3, Zenon
<1>5. CASE ~(j < Len(Subs[list[i]]))
  <2>1. Len(Subs[list[i]]) = j
    BY <1>1, <1>5
  <2>2. Units(list[i]) \subseteq D
    BY <1>2, <1>3, <2>1, Zenon DEF Units
  <2>3. NextToRestore
    BY <1>5, Zenon DEF Restored
  <2> QED BY <2>2, <2>3, NextToRestoreCovers, Zenon
<1> QED BY <1>4, <1>5, Zenon

\* What the extraction of the one file of an archive leaves on the partition.
LEMMA ExtractedIsSaved ==
  ASSUME SoundSetting, TypeOK, VerifiedInv, RoundTripInv, ExtractPiece
  PROVE  \A s \in Slots : s[1] \in DoneUnits \cup {Unit} /\ fit[s[1]] # "small" =>
                            dev'[s] = saved[s]
<1>1. pc = "extract" /\ file[Here] # None /\ Here \in Slots /\ Unit \in Part
  BY HereIsSlot, UnitIsPart, Zenon DEF ExtractPiece
<1>2. k = 1 /\ Pieces[Unit] = 1 /\ Here = <<Unit, 1>>
  BY <1>1, OnePiece, Zenon DEF TypeOK, ControlTypes, Here
<1>3. file[Here] = saved[Here]
  <2>1. md5[Here] = file[Here]
    BY <1>1, <1>2, VerifiedPiece DEF RoundTripInv
  <2> QED BY <1>1, <2>1, Zenon DEF RoundTripInv, SavedInv
<1>4. dev' = [dev EXCEPT ![Here] = Placed(Unit, k)]
  BY Zenon DEF ExtractPiece, SoundSetting
<1>5. fit[Unit] # "small" => Placed(Unit, k) = saved[Here]
  <2>1. Kind[Unit] # "split"
    BY <1>1, Zenon DEF SoundSetting
  <2>2. IsTar(Unit) => dev[<<Unit, k>>] = Wiped
    BY <1>1, <1>2, Zenon DEF RoundTripInv, DoneInv
  <2>3. fit[Unit] # "small" => Placed(Unit, k) = file[<<Unit, k>>]
    BY <2>1, <2>2, Zenon DEF Placed
  <2> QED BY <1>3, <2>3, Zenon DEF Here
<1>6. ASSUME NEW s \in Slots, s[1] \in DoneUnits \cup {Unit}, fit[s[1]] # "small"
      PROVE  dev'[s] = saved[s]
  <2>1. CASE s[1] = Unit
    <3>1. s = Here
      BY <1>2, <2>1, OnePiece, Zenon
    <3> QED BY <1>1, <1>4, <1>5, <1>6, <2>1, <3>1, Zenon DEF TypeOK, DiskTypes
  <2>2. CASE s[1] # Unit
    <3>1. s # Here
      BY <1>1, <2>2, HereIsSlot, Zenon
    <3>2. dev[s] = saved[s]
      BY <1>1, <1>6, <2>2, Zenon DEF RoundTripInv, DoneInv, HoldSaved
    <3> QED BY <1>1, <1>4, <3>1, <3>2, Zenon DEF TypeOK, DiskTypes
  <2> QED BY <2>1, <2>2, Zenon
<1> QED BY <1>6, Zenon

\* Un-skipping a unit does not count anything as restored but that unit.
LEMMA WipeDone ==
  ASSUME TypeOK, Restoring, skip' = skip \ {Unit}, UNCHANGED <<list, i, j>>
  PROVE  DoneUnits' \ {Unit} \subseteq DoneUnits
<1>1. pc # "idle" /\ (j = 0 => Unit \notin skip)
  BY Zenon DEF Restoring, Unit
<1>2. ASSUME NEW u \in DoneUnits', u # Unit PROVE u \in DoneUnits
  <2>1. /\ u \in Part
        /\ \/ \E n \in 1..(i - 1) : list[n] \notin skip' /\ u \in Units(list[n])
           \/ j # 0 /\ u = list[i]
           \/ \E m \in 1..(j - 1) : u = Subs[list[i]][m]
    BY DEF DoneUnits, Units
  <2>2. ASSUME NEW n \in 1..(i - 1), list[n] \notin skip', u \in Units(list[n])
        PROVE  list[n] \notin skip
    BY <1>1, <1>2, <2>2, UnitIsUnit
  <2> QED BY <2>1, <2>2, Zenon DEF DoneUnits
<1> QED BY <1>2, Zenon

LEMMA RestoreRoundTrip ==
  ASSUME SoundSetting, TypeOK, VerifiedInv, RoundTripInv, Restore, UNCHANGED <<bldr, options>>
  PROVE  RoundTripInv'
<1>0. /\ \A s \in Slots : md5[s] # None => md5[s] = saved[s]
      /\ "skip_md5_check" \notin options
      /\ pc # "idle" => result # "restored"
  BY Zenon DEF RoundTripInv, SavedInv, DoneInv
<1>1. ASSUME UNCHANGED <<md5, saved>>, pc' \notin {"save", "digest"}, DoneInv'
      PROVE  RoundTripInv'
  BY <1>0, <1>1, Zenon DEF RoundTripInv, SavedInv
<1>2. ASSUME pc' \in {"idle", "check", "clk"}, result' # "restored" PROVE DoneInv'
  BY <1>2, Zenon DEF DoneInv
<1>3. CASE StartRestore
  BY <1>1, <1>2, <1>3, Zenon DEF StartRestore, disk
<1>4. CASE CheckPartition
  <2>1. md5' = md5
    BY <1>4, Zenon DEF CheckPartition, DigestsAfterConversion, SoundSetting
  <2>2. pc' \in {"idle", "check", "clk"} /\ saved' = saved /\ result' \in {result, "failed"}
    BY <1>4, Zenon DEF CheckPartition
  <2>3. result' # "restored"
    BY <1>0, <1>4, <2>2, Zenon DEF CheckPartition
  <2> QED BY <1>1, <1>2, <2>1, <2>2, <2>3, Zenon
<1>5. CASE NoClkPartMgr \/ ClkPartMgrReturns
  <2>1. pc = "clk" /\ StartRestoring /\ UNCHANGED <<md5, saved, dev>>
    BY <1>5, Zenon DEF NoClkPartMgr, ClkPartMgrReturns, disk
  <2>2. CASE count = 0
    BY <1>1, <1>2, <2>1, <2>2, Zenon DEF StartRestoring, Return
  <2>3. CASE count # 0
    <3>1. pc' = "wipe" /\ i' = 1 /\ j' = 0 /\ result' # "restored"
      BY <1>0, <2>1, <2>3, Zenon DEF StartRestoring
    <3>2. DoneUnits' = {}
      BY <3>1 DEF DoneUnits
    <3>3. DoneInv'
      BY <3>1, <3>2, Zenon DEF DoneInv, HoldSaved
    <3> QED BY <1>1, <2>1, <3>1, <3>3, Zenon
  <2> QED BY <2>2, <2>3, Zenon
<1>6. CASE NothingToResize \/ ClkPartMgrReboots \/ RefuseImage \/ RestoreMountFails
  <2>1. pc' = "idle" /\ result' # "restored" /\ UNCHANGED <<md5, saved>>
    BY <1>6, Zenon DEF NothingToResize, ClkPartMgrReboots, RefuseImage, RestoreMountFails, Return, disk
  <2> QED BY <1>1, <1>2, <2>1, Zenon
<1>7. CASE SkipPartition
  <2>1. pc = "wipe" /\ list[i] \in skip /\ NextToRestore /\ UNCHANGED <<md5, saved, dev, fit>>
    BY <1>7, Zenon DEF SkipPartition
  <2>2. \/ pc' = "wipe" /\ result' = result /\ DoneUnits' \subseteq DoneUnits
        \/ pc' = "idle" /\ result' = "restored" /\ RestoredUnits' \subseteq DoneUnits
    BY <2>1, NextToRestoreCovers, Zenon
  <2>3. HoldSaved(DoneUnits)
    BY <2>1, Zenon DEF RoundTripInv, DoneInv
  <2>4. DoneInv'
    BY <1>0, <2>1, <2>2, <2>3, Zenon DEF DoneInv, HoldSaved
  <2> QED BY <1>1, <2>1, <2>2, <2>4, Zenon
<1>8. CASE Wipe
  <2>1. /\ pc = "wipe" /\ pc' = "extract" /\ dev' = Erased(Unit)
        /\ UNCHANGED <<md5, saved, fit, list, i, j, result>> /\ skip' = skip \ {Unit}
    BY <1>8, Zenon DEF Wipe, Restoring, SoundSetting
  <2>2. Unit' = Unit /\ Unit \in Part
    BY <2>1, UnitIsPart, Zenon DEF Unit
  <2>3. DoneUnits' \ {Unit} \subseteq DoneUnits
    BY <1>8, <2>1, WipeDone, Zenon DEF Wipe
  <2>4. HoldSaved(DoneUnits)
    BY <2>1, Zenon DEF RoundTripInv, DoneInv
  <2>5. ASSUME NEW s \in Slots, s[1] \in (DoneUnits \ {Unit})', fit'[s[1]] # "small"
        PROVE  dev'[s] = saved'[s]
    <3>1. s[1] \in DoneUnits /\ s[1] # Unit
      BY <2>2, <2>3, <2>5, Zenon
    <3> QED BY <2>1, <2>4, <2>5, <3>1, Zenon DEF HoldSaved, Erased
  <2>6. HoldSaved(DoneUnits \ {Unit})'
    BY <2>5, Zenon DEF HoldSaved
  <2>7. IsTar(Unit) => dev'[<<Unit, 1>>] = Wiped
    <3>1. <<Unit, 1>> \in Slots /\ <<Unit, 1>>[1] = Unit
      BY <2>2, SlotOf, PiecesNat, Zenon
    <3> QED BY <2>1, <3>1, Zenon DEF Erased, IsTar
  <2>8. DoneInv'
    BY <1>0, <2>1, <2>2, <2>6, <2>7, Zenon DEF DoneInv, IsTar
  <2> QED BY <1>1, <2>1, <2>8, Zenon
<1>9. CASE WipeFails
  <2>1. Class[Unit] # "ext"
    BY <1>9, UnitIsPart, Zenon DEF WipeFails, Restoring, SoundSetting
  <2>2. pc' = "idle" /\ result' = "failed" /\ UNCHANGED <<md5, saved>>
    BY <1>9, <2>1, Zenon DEF WipeFails, Return, disk
  <2> QED BY <1>1, <1>2, <2>2, Zenon
<1>10. CASE ExtractPiece
  <2>1. pc = "extract" /\ UNCHANGED <<md5, saved, fit>> /\ Unit \in Part
    BY <1>10, UnitIsPart, Zenon DEF ExtractPiece
  <2>2. LastPiece
    BY <2>1, OnePiece DEF LastPiece, TypeOK, ControlTypes
  <2>3. Restored
    BY <1>10, <2>2, Zenon DEF ExtractPiece
  <2>4. \/ pc' = "wipe" /\ result' = result /\ DoneUnits' \subseteq DoneUnits \cup {Unit}
        \/ pc' = "idle" /\ result' = "restored" /\ RestoredUnits' \subseteq DoneUnits \cup {Unit}
    BY <2>1, <2>3, RestoredCovers, Zenon
  <2>5. \A s \in Slots : s[1] \in DoneUnits \cup {Unit} /\ fit[s[1]] # "small" =>
                           dev'[s] = saved[s]
    BY <1>10, ExtractedIsSaved, Zenon
  <2>6. DoneInv'
    BY <1>0, <2>1, <2>4, <2>5, Zenon DEF DoneInv, HoldSaved
  <2> QED BY <1>1, <2>1, <2>4, <2>6, Zenon
<1>11. CASE NoMorePieces
  <2>1. pc = "extract" /\ file[Here] = None /\ Unit \in Part /\ Kind[Unit] # "split"
    BY <1>11, UnitIsPart, Zenon DEF NoMorePieces, SoundSetting
  <2>2. Here = <<Unit, 1>>
    BY <2>1, OnePiece DEF TypeOK, ControlTypes, Here
  <2>3. list[i] \notin skip /\ SkippedOrVerified(Len(list))
    BY <2>1, Zenon DEF VerifiedInv
  <2>4. i \in 1..Len(list)
    BY <2>1 DEF TypeOK, ControlTypes
  <2>5. Check_MD5(Unit, md5)
    BY <2>1, <2>3, <2>4, UnitIsUnit, Zenon DEF SkippedOrVerified, Verified
  <2> QED BY <1>0, <2>1, <2>2, <2>5, Zenon DEF Check_MD5
<1> QED BY <1>3, <1>4, <1>5, <1>6, <1>7, <1>8, <1>9, <1>10, <1>11
, Zenon        DEF Restore, ExtractForkFails, SoundSetting

LEMMA NextRoundTrip ==
  ASSUME SoundSetting, TypeOK, VerifiedInv, RoundTripInv, [Next]_vars
  PROVE  RoundTripInv'
<1>1. CASE Backup /\ UNCHANGED <<bldr, options>>
  BY <1>1, BackupRoundTrip, Zenon
<1>2. CASE Restore /\ UNCHANGED <<bldr, options>>
  BY <1>2, RestoreRoundTrip, Zenon
<1>3. CASE (UsePartition \/ Decay \/ Crash) /\ UNCHANGED <<bldr, options>>
  <2>1. pc' = "idle" /\ result' # "restored" /\ UNCHANGED <<md5, saved>>
    BY <1>3, Zenon DEF UsePartition, Decay, Crash, Return
  <2> QED BY <1>3, <2>1, Zenon DEF RoundTripInv, SavedInv, DoneInv
<1>4. CASE UNCHANGED vars
  <2>1. UNCHANGED <<options, dev, file, md5, fit, saved, pc, list, i, j, skip, result>>
    BY <1>4, Zenon DEF vars, disk, local
  <2>2. UNCHANGED <<Unit, DoneUnits, RestoredUnits>>
    <3>1. UNCHANGED Unit
      BY <2>1, Zenon DEF Unit
    <3>2. UNCHANGED DoneUnits
      <4> DEFINE Done(l, a, b, s) ==
            {u \in Part :
               \/ \E n \in 1..(a - 1) : l[n] \notin s /\ u \in Units(l[n])
               \/ b # 0 /\ u = l[a]
               \/ \E m \in 1..(b - 1) : u = Subs[l[a]][m]}
      <4>1. DoneUnits = Done(list, i, j, skip) /\ DoneUnits' = Done(list', i', j', skip')
        BY Zenon DEF DoneUnits
      <4> HIDE DEF Done
      <4> QED BY <2>1, <4>1, Zenon
    <3>3. UNCHANGED RestoredUnits
      <4> DEFINE UnitsKept(l, s) ==
            UNION {Units(l[n]) : n \in {m \in 1..Len(l) : l[m] \notin s}}
      <4>1. RestoredUnits = UnitsKept(list, skip) /\ RestoredUnits' = UnitsKept(list', skip')
        BY Zenon DEF RestoredUnits
      <4> HIDE DEF UnitsKept
      <4> QED BY <2>1, <4>1, Zenon
    <3> QED BY <3>1, <3>2, <3>3, Zenon
  <2>3. SavedInv'
    BY <2>1, Zenon DEF RoundTripInv, SavedInv
  <2>4. DoneInv'
    BY <2>1, <2>2, Zenon DEF RoundTripInv, DoneInv, HoldSaved, IsTar
  <2> QED BY <2>1, <2>3, <2>4, Zenon DEF RoundTripInv
<1> QED BY <1>1, <1>2, <1>3, <1>4, Zenon DEF Next

\* When Run_Restore returns true, every partition it did not skip, and that is
\* large enough, holds again what the last backup found there: whatever Android did
\* to it, whichever files of the folder decayed or got lost, and however often a
\* backup or restore was cut short in between.
THEOREM RoundTrip ==
  ASSUME SoundSetting
  PROVE  Spec => []RestoredIsWhatWasSaved
<1>1. Init => RoundTripInv
  BY Zenon DEF Init, RoundTripInv, SavedInv, DoneInv, SoundSetting
<1>2. TypeOK /\ VerifiedInv /\ RoundTripInv /\ [Next]_vars => RoundTripInv'
  BY NextRoundTrip, Zenon
<1>3. RoundTripInv => RestoredIsWhatWasSaved
  BY Zenon DEF RoundTripInv, DoneInv, HoldSaved, RestoredIsWhatWasSaved
<1> QED BY <1>1, <1>2, <1>3, VerifiedAlways, PTL DEF Spec

-----------------------------------------------------------------------------
\* Backup is complete, when no child process fails and every digest can be made,
\* and when a listed partition that is found empty has no sub-partitions (Run_Backup
\* does not archive those).
CompleteSetting ==
  /\ {"child", "fork", "md5"} \cap Faults = {}
  /\ \A n \in 1..Len(List) : IsTar(List[n]) /\ List[n] \in Empty => Subs[List[n]] = <<>>

Kept(s) == file[s] = dev[s] /\ ("skip_md5_gen" \notin options => md5[s] = dev[s])
Archived(u) == \A s \in Slots : s[1] = u => u \in Empty \/ file[s] = dev[s]
Whole(u) == \A s \in Slots : s[1] = u => u \in Empty \/ Kept(s)

\* Run_Backup's loop: the partitions before the current one are whole, of the current
\* one the sub-partitions before the one at hand are, it is archived itself before they
\* are, and of the unit at hand the files before piece k are archived or digested.
LoopInv ==
  /\ list = List
  /\ \A n \in 1..(i - 1) : \A u \in Units(list[n]) : Whole(u)
  /\ \A m \in 1..Len(Subs[list[i]]) :
       m < j \/ (pc = "digest" /\ j = 0) => Whole(Subs[list[i]][m])
  /\ j # 0 => Archived(list[i])
  /\ pc = "digest" => Archived(Unit)
  /\ Unit \notin Empty => \A l \in 1..(k - 1) :
       /\ file[<<Unit, l>>] = dev[<<Unit, l>>]
       /\ pc = "digest" => Kept(<<Unit, l>>)

BackedUp == \A n \in 1..Len(list) : \A u \in Units(list[n]) : Whole(u)

CompleteInv ==
  /\ pc \in {"save", "digest"} => LoopInv
  /\ result = "backed_up" => pc = "idle" /\ BackedUp

\* While the folder is being filled no file in it and no digest gets worse.
Grows ==
  /\ UNCHANGED <<dev, options>>
  /\ \A s \in Slots : file'[s] \in {file[s], dev[s]} /\ md5'[s] \in {md5[s], file[s]}

LEMMA GrowingKeeps ==
  ASSUME Grows
  PROVE  /\ \A s \in Slots : Kept(s) => Kept(s)'
         /\ \A u : Whole(u) => Whole(u)'
         /\ \A u : Archived(u) => Archived(u)'
<1>1. \A s \in Slots : Kept(s) => Kept(s)'
  BY Zenon DEF Grows, Kept
<1>2. \A u : Whole(u) => Whole(u)'
  BY <1>1, Zenon DEF Whole
<1>3. \A u : Archived(u) => Archived(u)'
  BY Zenon DEF Grows, Archived
<1> QED BY <1>1, <1>2, <1>3, Zenon

LEMMA ToNextPartition ==
  ASSUME TypeOK, CompleteInv, pc \in {"save", "digest"}, NextToSave,
         \A n \in 1..i : \A u \in Units(list[n]) : Whole(u)'
  PROVE  CompleteInv'
<1>1. list = List /\ result # "backed_up" /\ i \in Nat /\ i <= Len(list) /\ Len(list) \in Nat
  BY DEF CompleteInv, LoopInv, TypeOK, ControlTypes
<1>2. CASE i < Len(list)
  <2>1. /\ pc' = "save" /\ i' = i + 1 /\ j' = 0 /\ k' = 1 /\ list' = list /\ result' = result
    BY <1>2, Zenon DEF NextToSave
  <2>2. i' - 1 = i /\ k' - 1 = 0 /\ 1..0 = {}
    BY <1>1, <2>1
  <2>3. LoopInv'
    <3>1. \A n \in 1..(i' - 1) : \A u \in Units(list'[n]) : Whole(u)'
      BY <2>1, <2>2, Zenon
    <3>2. \A m \in 1..Len(Subs[list'[i']]) : ~(m < j')
      BY <2>1
    <3>3. list' = List /\ pc' # "digest" /\ j' = 0 /\ 1..(k' - 1) = {}
      BY <1>1, <2>1, <2>2, Zenon
    <3> QED BY <3>1, <3>2, <3>3, Zenon DEF LoopInv
  <2> QED BY <1>1, <2>1, <2>3, Zenon DEF CompleteInv
<1>3. CASE ~(i < Len(list))
  <2>1. pc' = "idle" /\ list' = list
    BY <1>3, Zenon DEF NextToSave, Return, local
  <2>2. i = Len(list)
    BY <1>1, <1>3
  <2>3. BackedUp'
    BY <2>1, <2>2, Zenon DEF BackedUp
  <2> QED BY <2>1, <2>3, Zenon DEF CompleteInv
<1> QED BY <1>2, <1>3, Zenon

LEMMA AfterSaved ==
  ASSUME TypeOK, CompleteInv, pc = "save", Saved, Grows,
         NEW w, w = Unit, Archived(w)'
  PROVE  CompleteInv'
<1>1. /\ LoopInv /\ result # "backed_up" /\ j \in Nat
      /\ list[i] \in Part /\ Subs[list[i]] \in Seq(Part)
  BY UnitIsPart, Zenon DEF CompleteInv, TypeOK, ControlTypes
<1>2. /\ list' = list /\ i' = i /\ result' = result /\ k' = 1 /\ pc' \in {"save", "digest"}
      /\ \/ pc' = "save" /\ j = 0 /\ j' = 1
         \/ pc' = "digest" /\ j' = j /\ (j = 0 => Subs[list[i]] = <<>>)
  BY Zenon DEF Saved
<1>3. \A n \in 1..(i' - 1) : \A u \in Units(list'[n]) : Whole(u)'
  BY <1>1, <1>2, GrowingKeeps, Zenon DEF LoopInv
<1>4. ASSUME NEW m \in 1..Len(Subs[list[i]]), m < j' \/ (pc' = "digest" /\ j' = 0), NEW v,
             v = Subs[list[i]][m]
      PROVE  Whole(v)'
  <2>1. m \in Nat \ {0} /\ (Subs[list[i]] = <<>> => FALSE)
    BY <1>1
  <2>2. m < j
    BY <1>1, <1>2, <1>4, <2>1
  <2>3. Whole(v)
    BY <1>1, <1>4, <2>2, Zenon DEF LoopInv
  <2> QED BY <2>3, GrowingKeeps, Zenon
<1>5. ASSUME j' # 0, NEW v, v = list[i] PROVE Archived(v)'
  <2>1. CASE j = 0
    BY <1>5, <2>1, Zenon DEF Unit
  <2>2. CASE j # 0
    <3>1. Archived(v)
      BY <1>1, <1>5, <2>2, Zenon DEF LoopInv
    <3> QED BY <3>1, GrowingKeeps, Zenon
  <2> QED BY <2>1, <2>2, Zenon
<1>6. pc' = "digest" => Unit' = w
  BY <1>2, Zenon DEF Unit
<1>7. 1..(k' - 1) = {}
  BY <1>2
<1>8. LoopInv'
  <2>1. \A m \in 1..Len(Subs[list'[i']]) :
          m < j' \/ (pc' = "digest" /\ j' = 0) => Whole(Subs[list[i]][m])'
    BY <1>2, <1>4, Zenon
  <2>2. j' # 0 => Archived(list[i])'
    BY <1>2, <1>5, Zenon
  <2>3. pc' = "digest" => Archived(Unit)'
    BY <1>6, Zenon
  <2>4. list' = List
    BY <1>1, <1>2, Zenon DEF LoopInv
  <2> QED BY <1>3, <1>7, <2>1, <2>2, <2>3, <2>4, Zenon DEF LoopInv
<1> QED BY <1>1, <1>2, <1>8, Zenon DEF CompleteInv

LEMMA AfterDigested ==
  ASSUME TypeOK, CompleteInv, pc = "digest", Digested, Grows,
         NEW w, w = Unit, Whole(w)'
  PROVE  CompleteInv'
<1>1. /\ LoopInv /\ result # "backed_up" /\ j \in Nat /\ j <= Len(Subs[list[i]])
      /\ list[i] \in Part /\ Subs[list[i]] \in Seq(Part) /\ i \in Nat \ {0}
  BY UnitIsPart, Zenon DEF CompleteInv, TypeOK, ControlTypes
<1>2. CASE j = 0
  <2>1. ASSUME NEW n \in 1..i, NEW u \in Units(list[n]) PROVE Whole(u)'
    <3>1. CASE n = i
      <4>1. u = w \/ \E m \in 1..Len(Subs[list[i]]) : u = Subs[list[i]][m]
        BY <1>2, <2>1, <3>1, Zenon DEF Units, Unit
      <4>2. u = w \/ Whole(u)
        BY <1>1, <1>2, <4>1, Zenon DEF LoopInv
      <4> QED BY <4>2, GrowingKeeps, Zenon
    <3>2. CASE n # i
      <4>1. n \in 1..(i - 1)
        BY <1>1, <3>2
      <4>2. Whole(u)
        BY <1>1, <4>1, Zenon DEF LoopInv
      <4> QED BY <4>2, GrowingKeeps, Zenon
    <3> QED BY <3>1, <3>2, Zenon
  <2> QED BY <1>2, <2>1, ToNextPartition, Zenon DEF Digested
<1>3. CASE j # 0
  <2>1. /\ list' = list /\ i' = i /\ result' = result /\ k' = 1 /\ pc' \in {"save", "digest"}
        /\ \/ pc' = "save" /\ j' = j + 1
           \/ pc' = "digest" /\ j' = 0 /\ ~(j < Len(Subs[list[i]]))
    BY <1>3, Zenon DEF Digested
  <2>2. \A n \in 1..(i' - 1) : \A u \in Units(list'[n]) : Whole(u)'
    BY <1>1, <2>1, GrowingKeeps, Zenon DEF LoopInv
  <2>3. ASSUME NEW m \in 1..Len(Subs[list[i]]), m < j' \/ (pc' = "digest" /\ j' = 0), NEW v,
               v = Subs[list[i]][m]
        PROVE  Whole(v)'
    <3>1. m = j \/ m < j
      BY <1>1, <2>1, <2>3
    <3>2. m = j => v = w
      BY <1>3, <2>3, Zenon DEF Unit
    <3>3. m < j => Whole(v)
      BY <1>1, <2>3, Zenon DEF LoopInv
    <3> QED BY <3>1, <3>2, <3>3, GrowingKeeps, Zenon
  <2>4. ASSUME NEW v, v = list[i] PROVE Archived(v)'
    BY <1>1, <1>3, <2>4, GrowingKeeps, Zenon DEF LoopInv
  <2>5. pc' = "digest" => Unit' = list[i]
    BY <2>1, Zenon DEF Unit
  <2>6. LoopInv'
    <3>1. \A m \in 1..Len(Subs[list'[i']]) :
            m < j' \/ (pc' = "digest" /\ j' = 0) => Whole(Subs[list[i]][m])'
      BY <2>1, <2>3, Zenon
    <3>2. Archived(list[i])'
      BY <2>1, <2>4, Zenon
    <3>3. pc' = "digest" => Archived(Unit)'
      BY <2>4, <2>5, Zenon
    <3>4. list' = List /\ 1..(k' - 1) = {}
      BY <1>1, <2>1 DEF LoopInv
    <3> QED BY <2>2, <3>1, <3>2, <3>3, <3>4, Zenon DEF LoopInv
  <2> QED BY <1>1, <2>1, <2>6, Zenon DEF CompleteInv
<1> QED BY <1>2, <1>3, Zenon

LEMMA AfterPiece ==
  ASSUME TypeOK, CompleteInv, pc \in {"save", "digest"}, Grows, k' = k + 1,
         UNCHANGED <<pc, list, i, j, result>>, NEW h, h = Here,
         Unit \notin Empty => file'[h] = dev'[h] /\ (pc = "digest" => Kept(h)')
  PROVE  CompleteInv'
<1>1. LoopInv /\ result # "backed_up" /\ k \in Nat \ {0} /\ Unit \in Part /\ k <= Pieces[Unit]
  BY UnitIsPart, Zenon DEF CompleteInv, TypeOK, ControlTypes
<1>2. Unit' = Unit
  BY Zenon DEF Unit
<1>3. ASSUME Unit \notin Empty, NEW l \in 1..k, NEW s, s = <<Unit, l>>
      PROVE  file'[s] = dev'[s] /\ (pc = "digest" => Kept(s)')
  <2>1. CASE l = k
    BY <1>3, <2>1, Zenon DEF Here
  <2>2. CASE l # k
    <3>1. l \in 1..(k - 1) /\ l \in 1..Pieces[Unit]
      BY <1>1, <2>2, PiecesNat
    <3>2. s \in Slots
      BY <1>1, <1>3, <3>1, SlotOf, Zenon
    <3>3. file[s] = dev[s] /\ (pc = "digest" => Kept(s))
      BY <1>1, <1>3, <3>1, Zenon DEF LoopInv
    <3>4. file'[s] = dev'[s]
      BY <3>2, <3>3, Zenon DEF Grows
    <3> QED BY <3>2, <3>3, <3>4, GrowingKeeps, Zenon
  <2> QED BY <2>1, <2>2, Zenon
<1>4. LoopInv'
  <2>1. \A n \in 1..(i' - 1) : \A u \in Units(list'[n]) : Whole(u)'
    BY <1>1, GrowingKeeps, Zenon DEF LoopInv
  <2>2. \A m \in 1..Len(Subs[list[i]]) :
          m < j \/ (pc = "digest" /\ j = 0) => Whole(Subs[list[i]][m])'
    <3>1. ASSUME NEW v, Whole(v) PROVE Whole(v)'
      BY <3>1, GrowingKeeps, Zenon
    <3>2. ASSUME NEW m \in 1..Len(Subs[list[i]]), m < j \/ (pc = "digest" /\ j = 0),
                 NEW v, v = Subs[list[i]][m]
          PROVE  Whole(v)'
      BY <1>1, <3>1, <3>2, Zenon DEF LoopInv
    <3> QED BY <3>2, Zenon
  <2>3. j # 0 => Archived(list[i])'
    <3>1. ASSUME j # 0, NEW v, v = list[i] PROVE Archived(v)'
      BY <1>1, <3>1, GrowingKeeps, Zenon DEF LoopInv
    <3> QED BY <3>1, Zenon
  <2>4. pc = "digest" => Archived(Unit)'
    <3>1. ASSUME pc = "digest", NEW v, v = Unit PROVE Archived(v)'
      BY <1>1, <3>1, GrowingKeeps, Zenon DEF LoopInv
    <3> QED BY <1>2, <3>1, Zenon
  <2>5. Unit' \notin Empty => \A l \in 1..(k' - 1) :
          /\ file'[<<Unit', l>>] = dev'[<<Unit', l>>]
          /\ pc = "digest" => Kept(<<Unit, l>>)'
    <3>1. k' - 1 = k
      BY <1>1
    <3> QED BY <1>2, <1>3, <3>1, Zenon
  <2>6. list' = List
    BY <1>1, Zenon DEF LoopInv
  <2> QED BY <2>1, <2>2, <2>3, <2>4, <2>5, <2>6, Zenon DEF LoopInv
<1> QED BY <1>1, <1>4, Zenon DEF CompleteInv

\* When its last file has been dealt with, all of the unit has.
LEMMA LastOfUnit ==
  ASSUME TypeOK, pc \in {"save", "digest"}, LastPiece, NEW w, w = Unit, NEW s \in Slots, s[1] = w
  PROVE  s = Here \/ \E l \in 1..(k - 1) : s = <<w, l>>
<1>1. s[2] \in 1..Pieces[w] /\ s = <<w, s[2]>> /\ Pieces[w] \in Nat /\ k = Pieces[w]
  BY SlotParts, FirstPiece, Zenon DEF LastPiece
<1> QED BY <1>1 DEF Here

LEMMA BackupCompletes ==
  ASSUME CompleteSetting, TypeOK, CompleteInv, Backup, UNCHANGED <<bldr, options>>
  PROVE  CompleteInv'
<1>1. CASE StartBackup
  <2>1. CASE pc' = "idle"
    BY <1>1, <2>1, Zenon DEF StartBackup, CompleteInv
  <2>2. CASE pc' # "idle"
    <3>1. /\ pc' = "save" /\ list' = List /\ i' = 1 /\ j' = 0 /\ k' = 1 /\ result' = "none"
      BY <1>1, <2>2, Zenon DEF StartBackup
    <3>2. 1..(i' - 1) = {} /\ 1..(k' - 1) = {} /\ \A m \in 1..Len(Subs[list'[i']]) : ~(m < j')
      BY <3>1
    <3> QED BY <3>1, <3>2, Zenon DEF CompleteInv, LoopInv
  <2> QED BY <2>1, <2>2, Zenon
<1>2. CASE SaveNothing
  <2>1. /\ pc = "save" /\ Unit \in Empty /\ IsTar(Unit) /\ NothingSaved
        /\ UNCHANGED <<dev, file, md5>>
    BY <1>2, Zenon DEF SaveNothing, disk
  <2>2. Grows
    BY <2>1, Zenon DEF Grows
  <2>3. CASE j = 0
    <3>1. LoopInv /\ i \in Nat \ {0} /\ i <= Len(list) /\ list[i] \in Empty /\ IsTar(list[i])
      BY <2>1, <2>3, Zenon DEF CompleteInv, TypeOK, ControlTypes, Unit
    <3>2. Units(list[i]) = {list[i]}
      BY <3>1 DEF LoopInv, CompleteSetting, Units
    <3>3. ASSUME NEW n \in 1..i, NEW u \in Units(list[n]) PROVE Whole(u)'
      <4>1. CASE n = i
        <5>1. u \in Empty
          BY <3>1, <3>2, <3>3, <4>1, Zenon
        <5> QED BY <5>1, Zenon DEF Whole
      <4>2. CASE n # i
        BY <2>2, <3>1, <3>3, <4>2, GrowingKeeps DEF LoopInv
      <4> QED BY <4>1, <4>2, Zenon
    <3> QED BY <2>1, <2>3, <3>3, ToNextPartition, Zenon DEF NothingSaved
  <2>4. CASE j # 0
    <3>1. ASSUME NEW w, w = Unit PROVE Archived(w)'
      BY <2>1, <3>1, Zenon DEF Archived
    <3> QED BY <2>1, <2>2, <2>4, <3>1, AfterSaved, Zenon DEF NothingSaved
  <2> QED BY <2>3, <2>4, Zenon
<1>3. CASE SavePiece
  <2>1. /\ pc = "save" /\ file' = [file EXCEPT ![Here] = dev[Here]] /\ UNCHANGED <<dev, md5>>
        /\ Here \in Slots
    BY <1>3, HereIsSlot, Zenon DEF SavePiece, Saving
  <2>2. file'[Here] = dev[Here] /\ \A s \in Slots : s # Here => file'[s] = file[s]
    BY <2>1, Zenon DEF TypeOK, DiskTypes
  <2>3. Grows
    BY <2>1, <2>2, Zenon DEF Grows
  <2>4. CASE LastPiece
    <3>1. ASSUME NEW w, w = Unit PROVE Archived(w)'
      <4> SUFFICES ASSUME NEW s \in Slots, s[1] = w, w \notin Empty PROVE file'[s] = dev'[s]
        BY Zenon DEF Archived
      <4>1. CASE s = Here
        BY <2>1, <2>2, <4>1, Zenon
      <4>2. CASE \E l \in 1..(k - 1) : s = <<w, l>>
        <5>1. file[s] = dev[s]
          BY <2>1, <3>1, <4>2, Zenon DEF CompleteInv, LoopInv
        <5> QED BY <5>1, <2>1, <2>2, Zenon
      <4> QED BY <2>1, <2>4, <3>1, <4>1, <4>2, LastOfUnit, Zenon
    <3> QED BY <1>3, <2>1, <2>3, <2>4, <3>1, AfterSaved, Zenon DEF SavePiece
  <2>5. CASE ~LastPiece
    <3>1. k' = k + 1 /\ UNCHANGED <<pc, list, i, j, result>>
      BY <1>3, <2>5, Zenon DEF SavePiece
    <3> QED BY <2>1, <2>2, <2>3, <3>1, AfterPiece, Zenon
  <2> QED BY <2>4, <2>5, Zenon
<1>4. CASE SaveMountFails
  BY <1>4, Zenon DEF SaveMountFails, Return, CompleteInv
<1>5. CASE MakeMD5
  <2>1. /\ pc = "digest" /\ md5' = [md5 EXCEPT ![Here] = file[Here]] /\ UNCHANGED <<dev, file>>
        /\ Here \in Slots
    BY <1>5, HereIsSlot, Zenon DEF MakeMD5, CompleteSetting
  <2>2. md5'[Here] = file[Here] /\ \A s \in Slots : s # Here => md5'[s] = md5[s]
    BY <2>1, Zenon DEF TypeOK, DiskTypes
  <2>3. Grows
    BY <2>1, <2>2, Zenon DEF Grows
  <2>4. ASSUME NEW h, h = Here, Unit \notin Empty PROVE Kept(h)' /\ file'[h] = dev'[h]
    <3>1. file[h] = dev[h]
      BY <2>1, <2>4, HereIsSlot, Zenon DEF CompleteInv, LoopInv, Archived
    <3> QED BY <3>1, <2>1, <2>2, <2>4, Zenon DEF Kept
  <2>5. CASE LastPiece
    <3>1. ASSUME NEW w, w = Unit PROVE Whole(w)'
      <4> SUFFICES ASSUME NEW s \in Slots, s[1] = w, w \notin Empty PROVE Kept(s)'
        BY Zenon DEF Whole
      <4>1. CASE s = Here
        BY <2>4, <3>1, <4>1, Zenon
      <4>2. CASE \E l \in 1..(k - 1) : s = <<w, l>>
        <5>1. Kept(s)
          BY <2>1, <3>1, <4>2, Zenon DEF CompleteInv, LoopInv
        <5> QED BY <5>1, <2>3, GrowingKeeps, Zenon
      <4> QED BY <2>1, <2>5, <3>1, <4>1, <4>2, LastOfUnit, Zenon
    <3> QED BY <1>5, <2>1, <2>3, <2>5, <3>1, AfterDigested, Zenon DEF MakeMD5
  <2>6. CASE ~LastPiece
    <3>1. k' = k + 1 /\ UNCHANGED <<pc, list, i, j, result>>
      BY <1>5, <2>6, Zenon DEF MakeMD5
    <3> QED BY <2>1, <2>3, <2>4, <3>1, AfterPiece, Zenon
  <2> QED BY <2>5, <2>6, Zenon
<1>6. CASE MakeMD5Ends
  <2>1. pc = "digest" /\ UNCHANGED <<dev, file, md5>> /\ Archived(Unit)
    BY <1>6, Zenon DEF MakeMD5Ends, disk, CompleteInv, LoopInv
  <2>2. Grows
    BY <2>1, Zenon DEF Grows
  <2>3. CASE Return("failed")
    BY <2>3, Zenon DEF Return, CompleteInv
  <2>4. ASSUME "skip_md5_gen" \in options \/ file[Here] = None, NEW w, w = Unit
        PROVE  Whole(w)'
    <3> SUFFICES ASSUME NEW s \in Slots, s[1] = w, w \notin Empty PROVE Kept(s)'
      BY Zenon DEF Whole
    <3>1. Here \in Slots /\ Here[1] = w /\ dev[Here] \in Data
      BY <2>1, <2>4, HereIsSlot, Zenon DEF TypeOK, DiskTypes
    <3>2. None \notin Data
      BY ConstantsAssumption, Zenon DEF ConstantsAssumption, Data
    <3>3. file[Here] = dev[Here] /\ file[s] = dev[s]
      BY <2>1, <2>4, <3>1, Zenon DEF Archived
    <3>4. "skip_md5_gen" \in options
      BY <2>4, <3>1, <3>2, <3>3, Zenon
    <3> QED BY <2>1, <3>3, <3>4, Zenon DEF Kept
  <2>5. Return("failed") \/ (Digested /\ ("skip_md5_gen" \in options \/ file[Here] = None))
    BY <1>6, Zenon DEF MakeMD5Ends
  <2> QED BY <2>1, <2>2, <2>3, <2>4, <2>5, AfterDigested, Zenon
<1> QED BY <1>1, <1>2, <1>3, <1>4, <1>5, <1>6
, Zenon        DEF Backup, CompleteSetting, SaveChildFails, SaveForkFails, ComputeMD5Fails

\* A restore neither goes on with a backup nor claims to have made one.
LEMMA RestoreCompletes ==
  ASSUME CompleteInv, Restore
  PROVE  CompleteInv'
<1>1. pc # "idle" => result # "backed_up"
  BY Zenon DEF CompleteInv
<1>2. NextToRestore => pc' \in {"wipe", "idle"} /\ result' \in {result, "restored"}
  BY Zenon DEF NextToRestore, Return
<1>3. Restored => pc' \in {"wipe", "idle"} /\ result' \in {result, "restored"}
  BY <1>2, Zenon DEF Restored
<1>4. StartRestoring => pc' \in {"wipe", "idle"} /\ result' \in {result, "failed"}
  BY Zenon DEF StartRestoring, Return
<1>5. CASE StartRestore \/ CheckPartition
  BY <1>1, <1>5, Zenon DEF StartRestore, CheckPartition, CompleteInv
<1>6. CASE NoClkPartMgr \/ NothingToResize \/ ClkPartMgrReboots \/ ClkPartMgrReturns
  BY <1>1, <1>4, <1>6, Zenon DEF NoClkPartMgr, NothingToResize, ClkPartMgrReboots, ClkPartMgrReturns,
     Return, CompleteInv
<1>7. CASE SkipPartition \/ Wipe \/ RefuseImage \/ WipeFails \/ RestoreMountFails
  BY <1>1, <1>2, <1>7, Zenon DEF SkipPartition, Wipe, RefuseImage, WipeFails, RestoreMountFails,
     Restoring, Return, CompleteInv
<1>8. CASE ExtractPiece \/ NoMorePieces \/ ExtractForkFails
  BY <1>1, <1>3, <1>8, Zenon DEF ExtractPiece, NoMorePieces, ExtractForkFails, Return, CompleteInv
<1> QED BY <1>5, <1>6, <1>7, <1>8, Zenon DEF Restore

LEMMA NextCompletes ==
  ASSUME CompleteSetting, TypeOK, CompleteInv, [Next]_vars
  PROVE  CompleteInv'
<1>1. CASE Backup /\ UNCHANGED <<bldr, options>>
  BY <1>1, BackupCompletes, Zenon
<1>2. CASE Restore
  BY <1>2, RestoreCompletes, Zenon
<1>3. CASE UsePartition \/ Decay \/ Crash
  BY <1>3, Zenon DEF UsePartition, Decay, Crash, Return, CompleteInv
<1>4. CASE UNCHANGED vars
  <2>1. UNCHANGED <<options, dev, file, md5, pc, list, i, j, k, result>>
    BY <1>4, Zenon DEF vars, disk, local
  <2>2. UNCHANGED Unit
    BY <2>1, Zenon DEF Unit
  <2>3. /\ \A s : Kept(s)' <=> Kept(s)
        /\ \A u : (Whole(u)' <=> Whole(u)) /\ (Archived(u)' <=> Archived(u))
    BY <2>1, Zenon DEF Kept, Whole, Archived
  <2>4. LoopInv => LoopInv'
    BY <2>1, <2>2, <2>3, Zenon DEF LoopInv
  <2>5. BackedUp => BackedUp'
    BY <2>1, <2>3, Zenon DEF BackedUp
  <2> QED BY <2>1, <2>4, <2>5, Zenon DEF CompleteInv
<1> QED BY <1>1, <1>2, <1>3, <1>4, Zenon DEF Next

\* BackupIsComplete, for any partitions, archives and settings, and whatever is lost,
\* decays or crashes: when Run_Backup returns true, the folder holds every piece of
\* every listed partition and sub-partition, each with its digest.
THEOREM BackupCompletesAll ==
  ASSUME CompleteSetting
  PROVE  Spec => []BackupIsComplete
<1>1. Init => CompleteInv
  BY Zenon DEF Init, CompleteInv
<1>2. TypeOK /\ CompleteInv /\ [Next]_vars => CompleteInv'
  BY NextCompletes, Zenon
<1>3. CompleteInv => BackupIsComplete
  <2> SUFFICES ASSUME CompleteInv, result = "backed_up", NEW s \in Slots,
                      s[1] \in ListedUnits \ Empty
               PROVE  Kept(s)
    BY Zenon DEF BackupIsComplete, Kept
  <2>1. PICK n \in 1..Len(list) : s[1] \in Units(list[n])
    BY Zenon DEF ListedUnits
  <2> QED BY <2>1, Zenon DEF CompleteInv, BackedUp, Whole
<1> QED BY <1>1, <1>2, <1>3, TypeCorrect, PTL DEF Spec
=============================================================================
