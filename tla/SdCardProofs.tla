---------------------------- MODULE SdCardProofs ----------------------------
(***************************************************************************)
(* Proofs about SdCard for any number of settings, values, sizes and faults: *)
(* the copy on /cache stands in for the card while it is partitioned.        *)
(****************************************************************************)
EXTENDS SdCard, TLAPS

Returns == {"boot_again", "idle", "part_rm", "details", "reboot", "conv_back"}

\* A settings file has at most as many records as there are settings.
IsFile(f) == f.recs \in Seq(Value) /\ Len(f.recs) <= Names

Saving == pc \in {"save_mount", "save_open", "save_write"}
Starting ==
  \/ pc \in {"boot_cache", "boot_rm", "boot_card", "boot_details", "boot_again", "boot_done"}
  \/ Saving /\ ret = "boot_again"

FilesInv ==
  /\ values \in Settings /\ wanted \in Settings
  /\ IsFile(file) /\ IsFile(disk) /\ IsFile(cache)

\* What a start that is about to remove the copy has in memory, and what the card has
\* when partitioning is; after a start the memory holds what the user set.
RemovalInv ==
  /\ ret \in Returns
  /\ FilesInv
  /\ pc = "boot_rm" => \A i \in 1..Len(cache.recs) : cache.recs[i] = values[i]
  /\ ~Starting => values = wanted
  /\ pc = "part_rm" => file = FileOf(values) \/ "unsaved" \in lost

LEMMA SettingsAreSeq ==
  ASSUME NEW v \in Settings
  PROVE  v \in Seq(Value) /\ Len(v) = Names
BY SdCardAssumption DEF Settings

LEMMA DefaultsType == Defaults \in Settings
BY Zenon DEF Defaults, Settings, Value

\* The files a power failure leaves are no longer than the one it hits.
LEMMA TornIsFile ==
  ASSUME NEW f, IsFile(f), NEW g \in Torn(f)
  PROVE  IsFile(g)
<1>1. CASE g = f
  BY <1>1, Zenon
<1>2. CASE g = Empty
  BY <1>2, SdCardAssumption DEF Empty, IsFile
<1>3. ASSUME NEW k \in 0..(Len(f.recs) - 1), NEW c \in BOOLEAN,
             g = [recs |-> SubSeq(f.recs, 1, k), clean |-> c, exists |-> TRUE]
      PROVE  IsFile(g)
  BY <1>3, SdCardAssumption DEF IsFile
<1>. QED BY <1>1, <1>2, <1>3 DEF Torn

\* LoadValues of a file that it accepts leaves the records of the file in memory.
LEMMA LoadedIsRead ==
  ASSUME NEW f, IsFile(f), Loads(f), NEW i \in 1..Len(f.recs)
  PROVE  LoadValues(f)[i] = f.recs[i]
<1>1. i \in 1..Names
  BY SdCardAssumption DEF IsFile
<1>2. Reached(f, i)
  BY DEF IsFile, Loads, Reached
<1>. QED BY <1>1, <1>2, Zenon DEF LoadValues

LEMMA LoadValuesType ==
  ASSUME NEW f, IsFile(f), values \in Settings
  PROVE  LoadValues(f) \in Settings
BY DEF IsFile, LoadValues, Reached, Settings

LEMMA RemovalInit == Init => RemovalInv
BY DefaultsType, SdCardAssumption
   DEF Init, RemovalInv, Returns, FilesInv, IsFile, NoFile, Starting, Saving

LEMMA FilesSave ==
  ASSUME FilesInv, SaveMount \/ SaveOpen \/ SaveWrite
  PROVE  FilesInv'
<1>1. IsFile(FileOf(values)) /\ IsFile(Empty)
  BY SettingsAreSeq, SdCardAssumption DEF FilesInv, IsFile, FileOf, Empty
<1>. QED BY <1>1, ZenonT(30) DEF FilesInv, SaveMount, SaveOpen, SaveWrite, IsFile, mem

\* A start loads what it finds, and a power failure leaves a part of what there was.
LEMMA FilesStart ==
  ASSUME FilesInv,
         BootCache \/ BootRm \/ BootCard \/ BootDetails \/ BootAgain \/ BootDone \/ Reboot \/ Crash
  PROVE  FilesInv'
<1>1. IsFile(NoFile) /\ IsFile(Empty)
  BY SdCardAssumption DEF IsFile, NoFile, Empty
<1>2. CASE BootCache
  BY <1>2, LoadValuesType, Zenon DEF FilesInv, BootCache, IsFile, sd
<1>3. CASE BootRm
  BY <1>3, <1>1, Zenon DEF FilesInv, BootRm, IsFile, mem
<1>4. CASE BootCard
  BY <1>4, LoadValuesType, Zenon DEF FilesInv, BootCard, IsFile
<1>5. CASE BootDetails \/ BootAgain \/ BootDone
  BY <1>5, Zenon DEF FilesInv, BootDetails, BootAgain, BootDone, IsFile, mem, sd, history
<1>6. CASE Reboot
  BY <1>6, DefaultsType, Zenon DEF FilesInv, Reboot, Restart, IsFile
<1>7. CASE Crash
  <2>1. values' = Defaults /\ wanted' = wanted /\ disk' = file'
    BY <1>7, Zenon DEF Crash, Restart
  <2>2. IsFile(file')
    BY <1>7, TornIsFile, Zenon DEF Crash, FilesInv
  <2>3. IsFile(cache')
    BY <1>7, <1>1, TornIsFile, Zenon DEF Crash, Copy, FilesInv
  <2>. QED BY <2>1, <2>2, <2>3, DefaultsType, Zenon DEF FilesInv, IsFile
<1>. QED BY <1>2, <1>3, <1>4, <1>5, <1>6, <1>7, Zenon

LEMMA FilesOther ==
  ASSUME FilesInv,
         \/ \E i \in 1..Names, v \in Values : SetValue(i, v)
         \/ ResetDefaults \/ Wipe \/ Wiped \/ UpdateDetails
         \/ \E f \in {"ext4", "nilfs2"}, rescue \in BOOLEAN : FSConvert(f, rescue)
         \/ ConvSave \/ ConvFormat \/ ConvDetails \/ ConvBack \/ ConvRm
         \/ MountSdcard \/ UnMountSdcard \/ ToggleSdext \/ UserReboot
         \/ PartCopy \/ PartCopied \/ PartUnmount \/ Refused \/ PartTable \/ PartFs \/ PartMount
         \/ PartRm \/ PartExt
  PROVE  FilesInv'
<1>1. IsFile(NoFile) /\ IsFile(Empty)
  BY SdCardAssumption DEF IsFile, NoFile, Empty
<1>2. CASE \E i \in 1..Names, v \in Values : SetValue(i, v)
  BY <1>2, ZenonT(30) DEF FilesInv, SetValue, IsFile, sd, Settings, Value
<1>3. CASE ResetDefaults
  BY <1>3, <1>1, DefaultsType, Zenon DEF FilesInv, ResetDefaults, IsFile
<1>4. CASE Wipe \/ Wiped \/ UpdateDetails
  BY <1>4, <1>1, SMTT(30) DEF FilesInv, Wipe, Wiped, UpdateDetails, Details, IsFile, mem, history
<1>5. CASE \/ \E f \in {"ext4", "nilfs2"}, rescue \in BOOLEAN : FSConvert(f, rescue)
           \/ ConvSave \/ ConvFormat \/ ConvDetails \/ ConvBack \/ ConvRm
  BY <1>5, Zenon DEF FilesInv, FSConvert, ConvSave, ConvFormat, ConvDetails, ConvBack, ConvRm,
              Details, IsFile, mem, sd, history
<1>6. CASE MountSdcard \/ UnMountSdcard \/ ToggleSdext \/ UserReboot
  BY <1>6, Zenon DEF FilesInv, MountSdcard, UnMountSdcard, ToggleSdext, UserReboot, IsFile, mem, sd,
              history
<1>7. CASE PartCopied
  BY <1>7, <1>1, TornIsFile, Zenon DEF FilesInv, PartCopied, Copy, IsFile, mem, sd
<1>9. CASE PartCopy \/ PartUnmount \/ Refused \/ PartTable
  BY <1>9, <1>1, Zenon DEF FilesInv, PartCopy, PartUnmount, Refused, PartTable, IsFile, mem, sd
<1>8. CASE PartFs \/ PartMount \/ PartRm \/ PartExt
  BY <1>8, <1>1, Zenon DEF FilesInv, PartFs, PartMount, PartRm, PartExt, IsFile, mem, sd, history
<1>. QED BY <1>2, <1>3, <1>4, <1>5, <1>6, <1>7, <1>8, <1>9, Zenon

LEMMA RemovalSave ==
  ASSUME RemovalInv, SaveMount \/ SaveOpen \/ SaveWrite
  PROVE  RemovalInv'
<1>1. FilesInv'
  BY FilesSave, Zenon DEF RemovalInv
<1>. QED BY <1>1, Zenon DEF RemovalInv, Returns, Starting, Saving, SaveMount, SaveOpen, SaveWrite,
                     Return, Unless, mem

\* A start removes the copy only when LoadValues has accepted it.
LEMMA RemovalStart ==
  ASSUME RemovalInv,
         BootCache \/ BootRm \/ BootCard \/ BootDetails \/ BootAgain \/ BootDone \/ Reboot \/ Crash
  PROVE  RemovalInv'
<1>1. FilesInv'
  BY FilesStart, Zenon DEF RemovalInv
<1>2. CASE BootCache
  <2>1. pc' = "boot_rm" => \A i \in 1..Len(cache.recs) : cache.recs[i] = values'[i]
    BY <1>2, LoadedIsRead, Zenon DEF BootCache, RemovalInv, FilesInv
  <2>. QED BY <1>1, <1>2, <2>1, Zenon DEF RemovalInv, Returns, Starting, Saving, BootCache
<1>3. CASE BootRm \/ BootCard \/ BootAgain
  BY <1>1, <1>3, SMTT(30) DEF RemovalInv, Returns, Starting, Saving, BootRm, BootCard, BootAgain, history
<1>4. CASE BootDetails \/ BootDone
  BY <1>1, <1>4, Zenon DEF RemovalInv, Returns, Starting, Saving, BootDetails, BootDone, Call, mem,
                    history
<1>5. CASE Reboot \/ Crash
  BY <1>1, <1>5, Zenon DEF RemovalInv, Returns, Starting, Saving, Reboot, Crash, Restart
<1>. QED BY <1>2, <1>3, <1>4, <1>5, Zenon

LEMMA RemovalElsewhere ==
  ASSUME FilesInv', ret' \in Returns, values' = wanted', pc' \notin {"boot_rm", "part_rm"}
  PROVE  RemovalInv'
BY Zenon DEF RemovalInv

\* After a start, memory and what the user set change together.
LEMMA RemovalOther ==
  ASSUME RemovalInv,
         \/ \E i \in 1..Names, v \in Values : SetValue(i, v)
         \/ ResetDefaults \/ Wipe \/ Wiped \/ UpdateDetails
         \/ \E f \in {"ext4", "nilfs2"}, rescue \in BOOLEAN : FSConvert(f, rescue)
         \/ ConvSave \/ ConvFormat \/ ConvDetails \/ ConvBack \/ ConvRm
         \/ MountSdcard \/ UnMountSdcard \/ ToggleSdext \/ UserReboot
         \/ PartCopy \/ PartCopied \/ PartUnmount \/ Refused \/ PartTable \/ PartFs \/ PartMount
         \/ PartRm \/ PartExt
  PROVE  RemovalInv'
<1>1. FilesInv'
  BY FilesOther, SMTT(30) DEF RemovalInv
<1>2. CASE (\E i \in 1..Names, v \in Values : SetValue(i, v)) \/ ResetDefaults
  BY <1>1, <1>2, Zenon DEF RemovalInv, Returns, Starting, Saving, SetValue, ResetDefaults, Call
<1>3. CASE Wipe \/ Wiped
  <2>1. /\ pc \notin {"boot_cache", "boot_rm", "boot_card", "boot_details", "boot_again", "boot_done"}
        /\ ~Saving
    BY <1>3, Zenon DEF Saving, Wipe, Wiped
  <2>2. values = wanted /\ ret \in Returns
    BY <2>1, Zenon DEF RemovalInv, Starting
  <2>3. values' = wanted' /\ ret' \in Returns /\ pc' \notin {"boot_rm", "part_rm"}
    BY <1>3, <2>2, Zenon DEF Returns, Wipe, Wiped, Call, mem, history
  <2> QED BY <1>1, <2>3, RemovalElsewhere, Zenon
<1>4. CASE UpdateDetails
  <2>1. /\ pc \notin {"boot_cache", "boot_rm", "boot_card", "boot_details", "boot_again", "boot_done"}
        /\ ~Saving
    BY <1>4, Zenon DEF Saving, UpdateDetails, Details
  <2>2. values = wanted /\ ret \in Returns
    BY <2>1, Zenon DEF RemovalInv, Starting
  <2>3. values' = wanted' /\ ret' \in Returns /\ pc' \notin {"boot_rm", "part_rm"}
    BY <1>4, <2>2, Zenon DEF Returns, UpdateDetails, Details, Call, mem, history
  <2> QED BY <1>1, <2>3, RemovalElsewhere, Zenon
<1>5. CASE \E f \in {"ext4", "nilfs2"}, rescue \in BOOLEAN : FSConvert(f, rescue)
  <2>1. /\ pc \notin {"boot_cache", "boot_rm", "boot_card", "boot_details", "boot_again", "boot_done"}
        /\ ~Saving
    BY <1>5, Zenon DEF Saving, FSConvert
  <2>2. values = wanted /\ ret \in Returns
    BY <2>1, Zenon DEF RemovalInv, Starting
  <2>3. values' = wanted' /\ ret' \in Returns /\ pc' \notin {"boot_rm", "part_rm"}
    BY <1>5, <2>2, Zenon DEF Returns, FSConvert, mem, history
  <2> QED BY <1>1, <2>3, RemovalElsewhere, Zenon
<1>6. CASE ConvSave \/ ConvFormat
  BY <1>1, <1>6, Zenon DEF RemovalInv, Returns, Starting, Saving, ConvSave, ConvFormat, mem, history
<1>7. CASE ConvDetails
  <2>1. /\ pc \notin {"boot_cache", "boot_rm", "boot_card", "boot_details", "boot_again", "boot_done"}
        /\ ~Saving
    BY <1>7, Zenon DEF Saving, ConvDetails, Details
  <2>2. values = wanted /\ ret \in Returns
    BY <2>1, Zenon DEF RemovalInv, Starting
  <2>3. values' = wanted' /\ ret' \in Returns /\ pc' \notin {"boot_rm", "part_rm"}
    BY <1>7, <2>2, Zenon DEF Returns, ConvDetails, Details, Call, mem, history
  <2> QED BY <1>1, <2>3, RemovalElsewhere, Zenon
<1>8. CASE ConvBack \/ ConvRm
  BY <1>1, <1>8, Zenon DEF RemovalInv, Returns, Starting, Saving, ConvBack, ConvRm, Call, mem, history
<1>9. CASE MountSdcard \/ UnMountSdcard
  BY <1>1, <1>9, ZenonT(30) DEF RemovalInv, Returns, Starting, Saving, MountSdcard, UnMountSdcard,
     mem, history
<1>10. CASE ToggleSdext \/ UserReboot
  BY <1>1, <1>10, ZenonT(30) DEF RemovalInv, Returns, Starting, Saving, ToggleSdext, UserReboot,
     mem, history
<1>11. CASE PartCopy
  BY <1>1, <1>11, Zenon DEF RemovalInv, Returns, Starting, Saving, PartCopy, mem, history
<1>12. CASE PartCopied \/ PartUnmount
  BY <1>1, <1>12, Zenon DEF RemovalInv, Returns, Starting, Saving, PartCopied, PartUnmount, GiveUp, mem
<1>13. CASE Refused \/ PartTable
  BY <1>1, <1>13, Zenon DEF RemovalInv, Returns, Starting, Saving, Refused, PartTable, GiveUp, mem
<1>14. CASE PartFs \/ PartMount
  BY <1>1, <1>14, Zenon DEF RemovalInv, Returns, Starting, Saving, PartFs, PartMount, GiveUp, Call,
     mem, history
<1>15. CASE PartRm
  BY <1>1, <1>15, Zenon DEF RemovalInv, Returns, Starting, Saving, PartRm, mem, history
<1>16. CASE PartExt
  BY <1>1, <1>16, Zenon DEF RemovalInv, Returns, Starting, Saving, PartExt, Call, mem, history
<1>. QED BY <1>2, <1>3, <1>4, <1>5, <1>6, <1>7, <1>8, <1>9, <1>10, <1>11, <1>12, <1>13, <1>14,
            <1>15, <1>16, Zenon

LEMMA RemovalStep == RemovalInv /\ [Next]_vars => RemovalInv'
<1>1. CASE UNCHANGED vars
  BY <1>1, ZenonT(30) DEF RemovalInv, FilesInv, IsFile, Starting, Saving, vars, mem, sd, history
<1>2. CASE Next
  BY <1>2, RemovalSave, RemovalStart, RemovalOther, Zenon DEF Next, Step, User
<1>. QED BY <1>1, <1>2, Zenon

LEMMA RemovalIsSafe == RemovalInv /\ [Next]_vars => [RemovesWhenSafe]_vars
<1>. SUFFICES ASSUME RemovalInv, Next, cache.exists, ~cache'.exists
              PROVE  RemovesWhenSafe
  BY Zenon DEF RemovesWhenSafe
<1>1. cache' # cache
  BY Zenon
<1>2. CASE SaveMount \/ SaveOpen \/ SaveWrite
  BY <1>1, <1>2, ZenonT(30) DEF SaveMount, SaveOpen, SaveWrite
<1>3. CASE BootRm
  BY <1>3, Zenon DEF BootRm, RemovalInv, RemovesWhenSafe
<1>4. CASE BootCache \/ BootCard \/ BootDetails \/ BootAgain \/ BootDone \/ Reboot
  BY <1>1, <1>4, Zenon DEF BootCache, BootCard, BootDetails, BootAgain, BootDone, Reboot
<1>5. CASE Crash
  BY <1>1, <1>5 DEF Crash, Copy, Torn, Empty
<1>6. CASE PartRm
  BY <1>6, Zenon DEF PartRm, RemovalInv, RemovesWhenSafe
<1>7. CASE PartCopy \/ PartCopied
  BY <1>1, <1>7 DEF PartCopy, PartCopied, Copy, Torn, Empty
<1>8. CASE PartUnmount \/ Refused \/ PartTable \/ PartFs \/ PartMount \/ PartExt
  BY <1>1, <1>8, Zenon DEF PartUnmount, Refused, PartTable, PartFs, PartMount, PartExt
<1>9. CASE \/ \E i \in 1..Names, v \in Values : SetValue(i, v)
           \/ ResetDefaults \/ Wipe \/ Wiped \/ UpdateDetails
  BY <1>1, <1>9, Zenon DEF SetValue, ResetDefaults, Wipe, Wiped, UpdateDetails
<1>10. CASE \/ \E f \in {"ext4", "nilfs2"}, rescue \in BOOLEAN : FSConvert(f, rescue)
            \/ ConvSave \/ ConvFormat \/ ConvDetails \/ ConvBack \/ ConvRm
  BY <1>1, <1>10, Zenon DEF FSConvert, ConvSave, ConvFormat, ConvDetails, ConvBack, ConvRm
<1>11. CASE MountSdcard \/ UnMountSdcard \/ ToggleSdext \/ UserReboot
  BY <1>1, <1>11, Zenon DEF MountSdcard, UnMountSdcard, ToggleSdext, UserReboot
<1>. QED BY <1>2, <1>3, <1>4, <1>5, <1>6, <1>7, <1>8, <1>9, <1>10, <1>11, Zenon DEF Next, Step, User

\* For any instance: the copy on /cache is removed only by a start that holds all of it
\* in memory, or when the card holds the settings and has been written back, or after a
\* save or an umount that has failed.
THEOREM RemovedWhenSafe == Spec => CopyRemovedWhenSafe
BY RemovalInit, RemovalStep, RemovalIsSafe, PTL DEF Spec, CopyRemovedWhenSafe
-----------------------------------------------------------------------------
\* The copy is made from the file on the mounted card that kept records, and nothing
\* returns into the partitioning but the save that it makes itself.
CopyInv ==
  /\ ret \in Returns
  /\ pc = "part_copied" /\ kept.exists /\ excused = {} => mounted /\ file = kept
  /\ CopyGuardsCard

\* Init: nothing is being partitioned.
LEMMA CopyInit == Init => CopyInv
BY Zenon DEF Init, CopyInv, Returns, CopyGuardsCard

LEMMA CopySave ==
  ASSUME CopyInv, SaveMount \/ SaveOpen \/ SaveWrite
  PROVE  CopyInv'
BY ZenonT(30) DEF CopyInv, Returns, CopyGuardsCard, SaveMount, SaveOpen, SaveWrite, Return, Fault,
       extvars, mem, NoFile

LEMMA CopyStart ==
  ASSUME CopyInv,
         BootCache \/ BootRm \/ BootCard \/ BootDetails \/ BootAgain \/ BootDone \/ Reboot \/ Crash
  PROVE  CopyInv'
BY Zenon DEF CopyInv, Returns, CopyGuardsCard, BootCache, BootRm, BootCard, BootDetails, BootAgain,
       BootDone, Reboot, Crash, Restart, Call, Fault, extvars, mem, sd, history, NoFile

\* Partition_SDCard copies the file before the card is unmounted, and removes the copy
\* only when it has saved the settings to the new file system.
LEMMA CopyPartition ==
  ASSUME CopyInv, RemovalInv,
         PartCopy \/ PartCopied \/ PartUnmount \/ Refused \/ PartTable \/ PartFs \/ PartMount
           \/ PartRm \/ PartExt
  PROVE  CopyInv'
<1>1. CASE PartCopy
  BY <1>1, Zenon DEF CopyInv, CopyGuardsCard, PartCopy, sd
<1>2. CASE PartCopied
  <2>1. CASE excused' = {}
    <3>1. excused = {} /\ cache' = Copy
      BY <1>2, <2>1, Zenon DEF PartCopied
    <3> QED BY <1>2, <3>1, Zenon DEF CopyInv, CopyGuardsCard, PartCopied, Copy
  <2>2. CASE excused' # {}
    BY <1>2, <2>2, Zenon DEF CopyInv, CopyGuardsCard, PartCopied
  <2> QED BY <2>1, <2>2, Zenon
<1>3. CASE PartUnmount \/ Refused \/ PartTable \/ PartFs
  BY <1>3, Zenon DEF CopyInv, CopyGuardsCard, PartUnmount, Refused, PartTable, PartFs, GiveUp, NoFile
<1>4. CASE PartMount
  BY <1>4, Zenon DEF CopyInv, Returns, CopyGuardsCard, PartMount, Call, history
<1>5. CASE PartRm
  BY <1>5, Zenon DEF CopyInv, CopyGuardsCard, RemovalInv, PartRm, mem
<1>6. CASE PartExt
  BY <1>6, Zenon DEF CopyInv, Returns, CopyGuardsCard, PartExt, Call, NoFile
<1>. QED BY <1>1, <1>2, <1>3, <1>4, <1>5, <1>6, Zenon

LEMMA CopyOther ==
  ASSUME CopyInv,
         \/ \E i \in 1..Names, v \in Values : SetValue(i, v)
         \/ ResetDefaults \/ Wipe \/ Wiped \/ UpdateDetails
         \/ \E f \in {"ext4", "nilfs2"}, rescue \in BOOLEAN : FSConvert(f, rescue)
         \/ ConvSave \/ ConvFormat \/ ConvDetails \/ ConvBack \/ ConvRm
         \/ MountSdcard \/ UnMountSdcard \/ ToggleSdext \/ UserReboot
  PROVE  CopyInv'
BY Zenon DEF CopyInv, Returns, CopyGuardsCard, SetValue, ResetDefaults, Wipe, Wiped, UpdateDetails,
       FSConvert, ConvSave, ConvFormat, ConvDetails, ConvBack, ConvRm, MountSdcard,
       UnMountSdcard, ToggleSdext, UserReboot, Details, Call, Fault, extvars, mem, sd, history

\* For any instance: from the copying of the settings file until Partition_SDCard returns,
\* the copy on /cache is the whole file, or the card's new file system holds the settings,
\* unless the card was not mounted, /cache could not be, the copy came out short, or the
\* new file system could not be saved to or unmounted.
THEOREM CopyGuards == Spec => []CopyGuardsCard
<1>1. CopyInv /\ RemovalInv /\ [Next]_vars => CopyInv'
  <2>1. CASE UNCHANGED vars
    BY <2>1, Zenon DEF CopyInv, CopyGuardsCard, vars, mem, sd, history
  <2>2. CASE Next
    BY <2>2, CopySave, CopyStart, CopyPartition, CopyOther, Zenon DEF Next, Step, User
  <2>. QED BY <2>1, <2>2, Zenon
<1>2. CopyInv => CopyGuardsCard
  BY Zenon DEF CopyInv
<1>. QED BY CopyInit, RemovalInit, RemovalStep, <1>1, <1>2, PTL DEF Spec
-----------------------------------------------------------------------------
\* The files of TypeOK are the ones of FilesInv.
LEMMA FileIntro ==
  ASSUME NEW r \in Seq(Value), Len(r) <= Names, NEW c \in BOOLEAN, NEW e \in BOOLEAN
  PROVE  [recs |-> r, clean |-> c, exists |-> e] \in File
<1>1. Len(r) \in 0..Names /\ r \in [1..Len(r) -> Value]
  BY SdCardAssumption
<1>. QED BY <1>1, Zenon DEF File

LEMMA FileElim ==
  ASSUME NEW f \in File
  PROVE  /\ IsFile(f) /\ f.clean \in BOOLEAN /\ f.exists \in BOOLEAN
         /\ f = [recs |-> f.recs, clean |-> f.clean, exists |-> f.exists]
<1>1. PICK k \in 0..Names : f.recs \in [1..k -> Value]
  BY Zenon DEF File
<1>2. f.recs \in Seq(Value) /\ Len(f.recs) = k
  BY <1>1, SdCardAssumption
<1>. QED BY <1>2, SdCardAssumption DEF File, IsFile

LEMMA FixedFiles == NoFile \in File /\ Empty \in File
<1>1. <<>> \in Seq(Value) /\ Len(<<>>) <= Names
  BY SdCardAssumption
<1>. QED BY <1>1, FileIntro, Zenon DEF NoFile, Empty

LEMMA FileOfType ==
  ASSUME NEW v \in Settings
  PROVE  FileOf(v) \in File
<1>1. v \in Seq(Value) /\ Len(v) <= Names
  BY SettingsAreSeq, SdCardAssumption
<1>2. \A c, e \in BOOLEAN : [recs |-> v, clean |-> c, exists |-> e] \in File
  BY <1>1, FileIntro, Zenon
<1>. QED BY <1>2, Zenon DEF FileOf

LEMMA TornType ==
  ASSUME NEW f \in File, NEW g \in Torn(f)
  PROVE  g \in File
<1>1. ASSUME NEW k \in 0..(Len(f.recs) - 1), NEW c \in BOOLEAN,
             g = [recs |-> SubSeq(f.recs, 1, k), clean |-> c, exists |-> TRUE]
      PROVE  g \in File
  <2>1. SubSeq(f.recs, 1, k) \in Seq(Value) /\ Len(SubSeq(f.recs, 1, k)) <= Names
    BY FileElim, SdCardAssumption DEF IsFile
  <2>. QED BY <1>1, <2>1, FileIntro, Zenon
<1>. QED BY <1>1, FixedFiles DEF Torn

\* The steps, by what they belong to.
Saves == SaveMount \/ SaveOpen \/ SaveWrite
Starts == BootCache \/ BootRm \/ BootCard \/ BootDetails \/ BootAgain \/ BootDone
Restarts == Reboot \/ Crash
Partitions == PartCopy \/ PartCopied \/ PartUnmount \/ Refused \/ PartTable \/ PartFs \/ PartMount
  \/ PartRm \/ PartExt
Changes ==
  \/ \E i \in 1..Names, v \in Values : SetValue(i, v)
  \/ ResetDefaults \/ Wipe \/ Wiped \/ UpdateDetails
Mounts == MountSdcard \/ UnMountSdcard \/ ToggleSdext \/ UserReboot
Converts ==
  \/ \E f \in {"ext4", "nilfs2"}, rescue \in BOOLEAN : FSConvert(f, rescue)
  \/ ConvSave \/ ConvFormat \/ ConvDetails \/ ConvBack \/ ConvRm

LEMMA StepKinds ==
  Next => Saves \/ Starts \/ Restarts \/ Partitions \/ Changes \/ Mounts \/ Converts
BY Zenon DEF Next, Step, User, Saves, Starts, Restarts, Partitions, Changes, Mounts, Converts

\* TypeOK in parts, which different steps disturb.
ControlType ==
  /\ pc \in {"boot_cache", "boot_rm", "boot_card", "boot_details", "boot_again", "boot_done",
             "idle", "save_mount", "save_open", "save_write", "part_copied", "part_umount",
             "part_table", "part_fs", "part_mount", "part_rm", "part_ext",
             "wiped", "details", "reboot", "conv_save", "conv_format", "conv_details",
             "conv_back", "conv_rm"}
  /\ ret \in Returns
StoreType ==
  /\ values \in Settings /\ wanted \in Settings
  /\ file \in File /\ disk \in File /\ cache \in File /\ kept \in File
FlagType ==
  /\ read \in BOOLEAN /\ second \in BOOLEAN /\ mounted \in BOOLEAN /\ extMounted \in BOOLEAN
  /\ restore \in BOOLEAN /\ done \in BOOLEAN /\ had \in BOOLEAN
DeviceType ==
  /\ card \in {"vfat", "blank"} /\ ext \in {"user", "none"} /\ temp \in {"user", "none"}
  /\ curFs \in {"ext4", "nilfs2"} /\ fmt \in {"ext4", "nilfs2"}
FaultsType == faults \in 0..MaxFaults
LostType ==
  /\ lost \subseteq {"torn", "boundary", "consumed", "stale", "unsaved", "unread", "erased"}
  /\ excused \subseteq {"unmounted", "no_cache", "short", "umount"}

LEMMA TypeParts ==
  TypeOK <=> ControlType /\ StoreType /\ FlagType /\ DeviceType /\ FaultsType /\ LostType
BY Zenon DEF TypeOK, ControlType, StoreType, FlagType, DeviceType, FaultsType, LostType, Returns

LEMMA ChangedSettings ==
  ASSUME values \in Settings, NEW i \in 1..Names, NEW v \in Values
  PROVE  [values EXCEPT ![i] = v] \in Settings
BY Zenon DEF Settings, Value

LEMMA LoadType ==
  ASSUME NEW f \in File, values \in Settings
  PROVE  LoadValues(f) \in Settings /\ Loads(f) \in BOOLEAN
BY FileElim, LoadValuesType, Zenon DEF Loads

LEMMA ControlTyped ==
  ASSUME ControlType, Next
  PROVE  ControlType'
<1>1. CASE Saves
  BY <1>1, Zenon DEF ControlType, Returns, Saves, SaveMount, SaveOpen, SaveWrite, Return
<1>2. CASE Starts
  BY <1>2, Zenon DEF ControlType, Returns, Starts, BootCache, BootRm, BootCard, BootDetails,
     BootAgain, BootDone, Call
<1>3. CASE Restarts
  BY <1>3, Zenon DEF ControlType, Returns, Restarts, Reboot, Crash, Restart
<1>4. CASE Partitions
  BY <1>4, Zenon DEF ControlType, Returns, Partitions, PartCopy, PartCopied, PartUnmount, GiveUp,
     Copy, Misleading, Refused, PartTable, PartFs, PartMount, PartRm, PartExt, Call
<1>5. CASE Changes
  BY <1>5, Zenon DEF ControlType, Returns, Changes, ResetDefaults, Wipe, Wiped, UpdateDetails,
     SetValue, Details, Call
<1>6. CASE Mounts
  BY <1>6, Zenon DEF ControlType, Returns, Mounts, MountSdcard, UnMountSdcard, ToggleSdext,
     UserReboot
<1>7. CASE Converts
  BY <1>7, Zenon DEF ControlType, Returns, Converts, ConvSave, ConvFormat, ConvDetails, ConvBack,
     ConvRm, FSConvert, Details, Call
<1>. QED BY <1>1, <1>2, <1>3, <1>4, <1>5, <1>6, <1>7, StepKinds, Zenon

LEMMA StoreTyped ==
  ASSUME StoreType, Next
  PROVE  StoreType'
<1>1. CASE Saves
  BY <1>1, FixedFiles, FileOfType, Zenon DEF StoreType, Saves, SaveMount, SaveOpen,
     SaveWrite, mem
<1>2. CASE Starts
  BY <1>2, FixedFiles, LoadType, Zenon DEF StoreType, Starts, BootCache, BootRm, BootCard,
     BootDetails, BootAgain, BootDone, mem, sd, history
<1>3. CASE Restarts
  BY <1>3, FixedFiles, DefaultsType, TornType, Zenon DEF StoreType, Restarts, Reboot, Crash,
     Restart, Copy
<1>4. CASE Partitions
  BY <1>4, FixedFiles, TornType, Zenon DEF StoreType, Partitions, PartCopy, PartCopied,
     PartUnmount, GiveUp, Copy, Misleading, Refused, PartTable, PartFs, PartMount, PartRm, PartExt,
     mem, sd, history
<1>5. CASE Changes
  BY <1>5, FixedFiles, DefaultsType, ChangedSettings DEF StoreType, Changes, ResetDefaults,
     Wipe, Wiped, UpdateDetails, SetValue, mem, sd, history
<1>6. CASE Mounts
  BY <1>6, Zenon DEF StoreType, Mounts, MountSdcard, UnMountSdcard, ToggleSdext, UserReboot, mem,
     sd, history
<1>7. CASE Converts
  BY <1>7, Zenon DEF StoreType, Converts, ConvSave, ConvFormat, ConvDetails, ConvBack, ConvRm,
     FSConvert, mem, sd, history
<1>. QED BY <1>1, <1>2, <1>3, <1>4, <1>5, <1>6, <1>7, StepKinds, Zenon

LEMMA FlagTyped ==
  ASSUME StoreType, FlagType, Next
  PROVE  FlagType'
<1>1. CASE Saves
  BY <1>1, ZenonT(30) DEF FlagType, Saves, SaveMount, SaveOpen, SaveWrite, mem, extvars
<1>2. CASE Starts
  <2>1. Loads(cache) \in BOOLEAN /\ Loads(file) \in BOOLEAN
    BY LoadType, Zenon DEF StoreType
  <2>. QED BY <1>2, <2>1, ZenonT(30) DEF FlagType, Starts, BootCache, BootRm, BootCard, BootDetails,
     BootAgain, BootDone, CanMount, mem, sd, extvars, history
<1>3. CASE Restarts
  BY <1>3, ZenonT(30) DEF FlagType, Restarts, Reboot, Crash, Restart
<1>4. CASE Partitions
  BY <1>4, ZenonT(30) DEF FlagType, Partitions, PartCopy, PartCopied, PartUnmount, GiveUp, Copy,
     Misleading, Refused, PartTable, PartFs, PartMount, PartRm, PartExt, mem, sd, extvars, history
<1>5. CASE Changes
  BY <1>5, ZenonT(30) DEF FlagType, Changes, ResetDefaults, Wipe, Wiped, UpdateDetails,
     SetValue, Details, CanMount, mem, sd, extvars, history
<1>6. CASE Mounts
  BY <1>6, ZenonT(30) DEF FlagType, Mounts, MountSdcard, UnMountSdcard, ToggleSdext,
     UserReboot, mem, sd, extvars, history
<1>7. CASE Converts
  BY <1>7, ZenonT(30) DEF FlagType, Converts, ConvSave, ConvFormat, ConvDetails, ConvBack,
     ConvRm, FSConvert, Details, CanMount, mem, sd, extvars, history
<1>. QED BY <1>1, <1>2, <1>3, <1>4, <1>5, <1>6, <1>7, StepKinds, Zenon

LEMMA DeviceTyped ==
  ASSUME DeviceType, Next
  PROVE  DeviceType'
<1>1. CASE Saves
  BY <1>1, Zenon DEF DeviceType, Saves, SaveMount, SaveOpen, SaveWrite, extvars
<1>2. CASE Starts
  BY <1>2, Zenon DEF DeviceType, Starts, BootCache, BootRm, BootCard, BootDetails, BootAgain,
     BootDone, sd, extvars
<1>3. CASE Restarts
  BY <1>3, Zenon DEF DeviceType, Restarts, Reboot, Crash, Restart
<1>4. CASE Partitions
  BY <1>4, Zenon DEF DeviceType, Partitions, PartCopy, PartCopied, PartUnmount, GiveUp, Copy,
     Misleading, Refused, PartTable, PartFs, PartMount, PartRm, PartExt, sd, extvars
<1>5. CASE Changes
  BY <1>5, Zenon DEF DeviceType, Changes, ResetDefaults, Wipe, Wiped, UpdateDetails, SetValue, sd,
     extvars
<1>6. CASE Mounts
  BY <1>6, Zenon DEF DeviceType, Mounts, MountSdcard, UnMountSdcard, ToggleSdext, UserReboot, sd,
     extvars
<1>7. CASE Converts
  BY <1>7, Zenon DEF DeviceType, Converts, ConvSave, ConvFormat, ConvDetails, ConvBack, ConvRm,
     FSConvert, sd, extvars
<1>. QED BY <1>1, <1>2, <1>3, <1>4, <1>5, <1>6, <1>7, StepKinds, Zenon

LEMMA FaultsTyped ==
  ASSUME FaultsType, Next
  PROVE  FaultsType'
<1>1. CASE Saves
  BY <1>1, SdCardAssumption DEF FaultsType, Saves, SaveMount, SaveOpen, SaveWrite, Return,
     Fault, Unless, CanMount, Lasting
<1>2. CASE Starts
  BY <1>2, SdCardAssumption DEF FaultsType, Starts, BootCache, BootRm, BootCard, BootDetails,
     BootAgain, BootDone, Fault
<1>3. CASE Restarts
  BY <1>3, SdCardAssumption DEF FaultsType, Restarts, Reboot, Crash, Fault
<1>4. CASE Partitions
  BY <1>4, SdCardAssumption DEF FaultsType, Partitions, PartCopy, PartCopied, PartUnmount, GiveUp,
     Copy, Misleading, Refused, PartTable, PartFs, PartMount, PartRm, PartExt, Fault
<1>5. CASE Changes
  BY <1>5, SdCardAssumption DEF FaultsType, Changes, ResetDefaults, Wipe, Wiped,
     UpdateDetails, SetValue, Fault
<1>6. CASE Mounts
  BY <1>6, SdCardAssumption, Zenon DEF FaultsType, Mounts, MountSdcard, UnMountSdcard, ToggleSdext,
     UserReboot
<1>7. CASE Converts
  BY <1>7, SdCardAssumption DEF FaultsType, Converts, ConvSave, ConvFormat, ConvDetails,
     ConvBack, ConvRm, FSConvert, Fault
<1>. QED BY <1>1, <1>2, <1>3, <1>4, <1>5, <1>6, <1>7, StepKinds, Zenon

LEMMA LostTyped ==
  ASSUME LostType, Next
  PROVE  LostType'
<1>1. CASE Saves
  BY <1>1, Zenon DEF LostType, Saves, SaveMount, SaveOpen, SaveWrite, Unless, Lasting
<1>2. CASE Starts
  BY <1>2, Zenon DEF LostType, Starts, BootCache, BootRm, BootCard, BootDetails, BootAgain,
     BootDone, Unless, history
<1>3. CASE Restarts
  BY <1>3, Zenon DEF LostType, Restarts, Reboot, Crash, Restart, Misleading
<1>4. CASE Partitions
  BY <1>4, Zenon DEF LostType, Partitions, PartCopy, PartCopied, PartUnmount, GiveUp, Copy,
     Misleading, Refused, PartTable, PartFs, PartMount, PartRm, PartExt, history
<1>5. CASE Changes
  BY <1>5, Zenon DEF LostType, Changes, ResetDefaults, Wipe, Wiped, UpdateDetails, SetValue,
     Stale, history
<1>6. CASE Mounts
  BY <1>6, Zenon DEF LostType, Mounts, MountSdcard, UnMountSdcard, ToggleSdext, UserReboot,
     history
<1>7. CASE Converts
  BY <1>7, Zenon DEF LostType, Converts, ConvSave, ConvFormat, ConvDetails, ConvBack, ConvRm,
     FSConvert, history
<1>. QED BY <1>1, <1>2, <1>3, <1>4, <1>5, <1>6, <1>7, StepKinds, Zenon

LEMMA TypeInit == Init => TypeOK
<1>. SUFFICES ASSUME Init PROVE TypeOK
  BY Zenon
<1>1. StoreType
  BY FixedFiles, DefaultsType, Zenon DEF Init, StoreType
<1>2. ControlType /\ DeviceType /\ LostType
  BY Zenon DEF Init, ControlType, DeviceType, LostType, Returns
<1>3. FlagType
  BY Zenon DEF Init, FlagType
<1>4. FaultsType
  BY SdCardAssumption DEF Init, FaultsType
<1>. QED BY <1>1, <1>2, <1>3, <1>4, TypeParts, Zenon

LEMMA TypeStep == TypeOK /\ [Next]_vars => TypeOK'
<1>1. CASE UNCHANGED vars
  BY <1>1 DEF TypeOK, vars, mem, sd, extvars, history
<1>2. ASSUME TypeOK, Next PROVE TypeOK'
  <2>1. ControlType' /\ StoreType' /\ FlagType' /\ DeviceType' /\ FaultsType' /\ LostType'
    BY <1>2, TypeParts, ControlTyped, StoreTyped, FlagTyped, DeviceTyped, FaultsTyped, LostTyped, Zenon
  <2>. QED BY <2>1, TypeParts, PTL
<1>. QED BY <1>1, <1>2, Zenon

\* For any instance: every variable keeps its type, so that no settings file on the card
\* or on /cache ever has more records than there are settings.
THEOREM TypeCorrect == Spec => []TypeOK
BY TypeInit, TypeStep, PTL DEF Spec
-----------------------------------------------------------------------------
\* A card without a file system is not mounted and holds nothing; the copy is empty until
\* copy_file has written it.
MediumInv ==
  /\ mounted => card = "vfat"
  /\ pc \in {"save_open", "save_write"} => mounted
  /\ pc = "part_table" => ~mounted
  /\ card = "blank" => file = NoFile /\ disk = NoFile
  /\ ~cache.exists => cache = NoFile
  /\ pc = "part_copied" => cache = Empty

\* A copy on /cache that a start would take for something the user did not set is known.
MisleadInv == lost \cap {"stale", "boundary"} = {} => ~Misleads(cache)

\* While nothing is at risk: the card or the copy has the settings (or, before the first
\* save, there are neither files nor settings); a start that looks at the card found no
\* copy it could load; the memory has the settings except while they are loaded.
Right == FileOf(wanted)
Readable == \A i \in 1..Names : wanted[i] \notin TooLong
Fresh == wanted = Defaults /\ file = NoFile /\ cache = NoFile

KnownInv ==
  lost = {} /\ Readable =>
    /\ pc # "save_write" => file = Right \/ cache = Right \/ Fresh
    /\ pc = "boot_card" => ~Loads(cache)
    /\ pc \notin {"boot_cache", "boot_card"} \/ Fresh => values = wanted

LEMMA RightLoads ==
  ASSUME wanted \in Settings, Readable
  PROVE  Loads(Right) /\ LoadValues(Right) = wanted
<1>1. wanted \in Seq(Value) /\ Len(wanted) = Names /\ Right.recs = wanted /\ Right.clean
  BY SettingsAreSeq, Zenon DEF Right, FileOf
<1>2. Loads(Right)
  BY <1>1, Zenon DEF Loads, Readable
<1>3. \A i \in 1..Names : Reached(Right, i)
  BY <1>1, SdCardAssumption DEF Reached, Readable
<1>4. LoadValues(Right) = [i \in 1..Names |-> wanted[i]]
  BY <1>1, <1>3, Zenon DEF LoadValues
<1>. QED BY <1>2, <1>4, Zenon DEF Settings

\* Files that are no settings file do not load, and loading none changes nothing.
LEMMA NothingLoads ==
  /\ ~Loads(NoFile) /\ ~Loads(Empty)
  /\ \A v : NoFile # FileOf(v) /\ Empty # FileOf(v)
  /\ values \in Settings => LoadValues(NoFile) = values
<1>1. ~Loads(NoFile) /\ ~Loads(Empty)
  BY Zenon DEF Loads, NoFile, Empty
<1>2. \A v : NoFile # FileOf(v) /\ Empty # FileOf(v)
  BY Zenon DEF FileOf, NoFile, Empty
<1>3. ASSUME values \in Settings PROVE LoadValues(NoFile) = values
  <2>1. \A i \in 1..Names : ~Reached(NoFile, i)
    BY SdCardAssumption DEF Reached, NoFile
  <2>. QED BY <1>3, <2>1, Zenon DEF LoadValues, Settings
<1>. QED BY <1>1, <1>2, <1>3, Zenon

LEMMA MediumKept ==
  ASSUME ret \in Returns, mounted \in BOOLEAN, MediumInv, Next
  PROVE  MediumInv'
<1>1. CASE Saves
  BY <1>1 DEF Returns, MediumInv, Saves, SaveMount, SaveOpen, SaveWrite, Return, Fault, CanMount,
     Unless, mem
<1>2. CASE Starts
  <2>1. CASE BootCache \/ BootDetails \/ BootAgain \/ BootDone
    BY <2>1 DEF MediumInv, BootCache, BootDetails, BootAgain, BootDone, Call, Fault, sd
  <2>2. CASE BootRm \/ BootCard
    BY <2>2 DEF MediumInv, BootRm, BootCard, Fault, CanMount, Unless, mem
  <2>. QED BY <1>2, <2>1, <2>2, Zenon DEF Starts
<1>3. CASE Restarts
  BY <1>3 DEF MediumInv, Restarts, Reboot, Crash, Restart, Fault, Copy, Torn, Empty, NoFile
<1>4. CASE Partitions
  <2>1. CASE PartCopy
    BY <2>1 DEF MediumInv, PartCopy, Empty, NoFile, sd
  <2>2. CASE PartCopied
    <3>1. cache'.exists
      BY <2>2 DEF PartCopied, Copy, Torn, Empty
    <3>. QED BY <2>2, <3>1, Zenon DEF MediumInv, PartCopied, sd
  <2>3. CASE PartUnmount \/ Refused
    BY <2>3 DEF MediumInv, PartUnmount, Refused, GiveUp, sd
  <2>4. CASE PartTable \/ PartFs
    BY <2>4 DEF MediumInv, PartTable, PartFs, GiveUp
  <2>5. CASE PartMount
    BY <2>5 DEF MediumInv, PartMount, Call, CanMount
  <2>6. CASE PartRm \/ PartExt
    BY <2>6 DEF MediumInv, PartRm, PartExt, Call, sd
  <2>. QED BY <1>4, <2>1, <2>2, <2>3, <2>4, <2>5, <2>6, Zenon DEF Partitions
<1>5. CASE Changes
  <2>1. CASE \E i \in 1..Names, v \in Values : SetValue(i, v)
    BY <2>1 DEF MediumInv, SetValue, Call, sd
  <2>2. CASE ResetDefaults \/ Wipe
    BY <2>2, Zenon DEF MediumInv, ResetDefaults, Wipe, Call, Fault, CanMount
  <2>3. CASE Wiped \/ UpdateDetails
    BY <2>3 DEF MediumInv, Wiped, UpdateDetails, Details, Call, Fault, CanMount
  <2>. QED BY <1>5, <2>1, <2>2, <2>3, Zenon DEF Changes
<1>6. CASE Mounts
  BY <1>6 DEF MediumInv, Mounts, MountSdcard, UnMountSdcard, ToggleSdext, UserReboot, CanMount, sd
<1>7. CASE Converts
  <2>1. CASE \E f \in {"ext4", "nilfs2"}, rescue \in BOOLEAN : FSConvert(f, rescue)
    BY <2>1 DEF MediumInv, FSConvert, Fault, CanMount
  <2>2. CASE ConvSave \/ ConvFormat \/ ConvDetails \/ ConvBack \/ ConvRm
    BY <2>2 DEF MediumInv, ConvSave, ConvFormat, ConvDetails, ConvBack, ConvRm, Details, Call,
       Fault, CanMount, sd
  <2>. QED BY <1>7, <2>1, <2>2, Zenon DEF Converts
<1>. QED BY <1>1, <1>2, <1>3, <1>4, <1>5, <1>6, <1>7, StepKinds, Zenon

LEMMA MisleadKept ==
  ASSUME MediumInv, MisleadInv, Next
  PROVE  MisleadInv'
<1>1. CASE Saves
  BY <1>1, NothingLoads, Zenon DEF MediumInv, MisleadInv, Misleads, Saves, SaveMount, SaveOpen,
     SaveWrite, Lasting, Unless
<1>2. CASE Starts
  BY <1>2, NothingLoads, Zenon DEF MisleadInv, Misleads, Starts, BootCache, BootRm, BootCard,
     BootDetails, BootAgain, BootDone, Unless, history
<1>3. CASE Restarts
  BY <1>3, Zenon DEF MisleadInv, Misleads, Restarts, Reboot, Crash, Restart, Misleading
<1>4. CASE Partitions
  BY <1>4, NothingLoads, Zenon DEF MisleadInv, Misleads, Partitions, PartCopy, PartCopied,
     PartUnmount, GiveUp, Copy, Misleading, Refused, PartTable, PartFs, PartMount, PartRm, PartExt,
     history
<1>5. CASE Changes
  BY <1>5, NothingLoads, Zenon DEF MediumInv, MisleadInv, Misleads, Changes, SetValue,
     ResetDefaults, Wipe, Wiped, UpdateDetails, Stale, history
<1>6. CASE Mounts
  BY <1>6, Zenon DEF MisleadInv, Misleads, Mounts, MountSdcard, UnMountSdcard, ToggleSdext, UserReboot,
     history
<1>7. CASE Converts
  BY <1>7, Zenon DEF MisleadInv, Misleads, Converts, FSConvert, ConvSave, ConvFormat, ConvDetails,
     ConvBack, ConvRm, history
<1>. QED BY <1>1, <1>2, <1>3, <1>4, <1>5, <1>6, <1>7, StepKinds, Zenon

\* Everything the proof that settings survive needs of a state.
SurviveInv == TypeOK /\ RemovalInv /\ MediumInv /\ MisleadInv /\ KnownInv

\* The save: from the truncation to the write a crash is a loss, and then the card is right.
LEMMA KnownSaves ==
  ASSUME SurviveInv, Saves
  PROVE  KnownInv'
<1>. USE DEF SurviveInv, KnownInv, Right, Readable, Fresh
<1>1. ret \in Returns /\ ret # "save_write" /\ ret \notin {"boot_cache", "boot_card"}
  BY Zenon DEF RemovalInv, Returns
<1>2. CASE SaveMount
  BY <1>1, <1>2, Zenon DEF SaveMount, Return, Unless, mem
<1>3. CASE SaveOpen
  BY <1>1, <1>3, Zenon DEF SaveOpen, Return, Unless, mem
<1>4. CASE SaveWrite
  BY <1>1, <1>4, Zenon DEF SaveWrite, Return, mem
<1>. QED BY <1>2, <1>3, <1>4, Zenon DEF Saves

\* A start that knows of no loss finds the settings in the copy, or else on the card.
LEMMA KnownStarts ==
  ASSUME SurviveInv, Starts
  PROVE  KnownInv'
<1>. SUFFICES ASSUME (lost = {} /\ Readable)' PROVE KnownInv'
  BY Zenon DEF KnownInv
<1>. USE DEF SurviveInv
<1>0. /\ values \in Settings /\ wanted \in Settings /\ mounted \in BOOLEAN
      /\ card \in {"vfat", "blank"}
  BY Zenon DEF TypeOK
<1>1. CASE BootCache
  <2>1. lost = {} /\ Readable /\ Right' = Right /\ Fresh' = Fresh
    BY <1>1, Zenon DEF BootCache, Readable, Right, Fresh, sd
  <2>2. file = Right \/ cache = Right \/ Fresh
    BY <1>1, <2>1, Zenon DEF KnownInv, BootCache
  <2>3. Loads(cache) => cache = Right
    BY <2>1, Zenon DEF MisleadInv, Misleads, Right
  <2>4. Fresh => values' = wanted
    BY <1>0, <1>1, <2>1, NothingLoads, Zenon DEF BootCache, KnownInv, Fresh
  <2>5. pc' = "boot_card" => ~Loads(cache)
    BY <1>1, <2>1, NothingLoads, Zenon DEF BootCache, MediumInv
  <2>6. pc' # "boot_card" => values' = wanted
    BY <1>0, <1>1, <2>1, <2>3, RightLoads, Zenon DEF BootCache
  <2>. QED BY <1>1, <2>1, <2>2, <2>4, <2>5, <2>6, Zenon DEF KnownInv, BootCache, Right, sd
<1>2. CASE BootRm
  <2>1. lost = {} /\ Readable /\ Right' = Right
    BY <1>2, Zenon DEF BootRm, Readable, Right
  <2>2. values = wanted
    BY <1>2, <2>1, Zenon DEF KnownInv, BootRm
  <2>3. file = Right
    BY <1>2, <2>2, Zenon DEF BootRm, Unless, Right
  <2>. QED BY <1>2, <2>1, <2>2, <2>3, Zenon DEF KnownInv, BootRm, mem, Right
<1>3. CASE BootCard
  <2>1. lost = {} /\ Readable /\ Right' = Right /\ Fresh' = Fresh
    BY <1>3, Zenon DEF BootCard, Readable, Right, Fresh
  <2>2. cache # Right
    BY <1>0, <1>3, <2>1, RightLoads, Zenon DEF KnownInv, BootCard
  <2>3. file = Right \/ Fresh
    BY <1>3, <2>1, <2>2, Zenon DEF KnownInv, BootCard
  <2>4. CASE Fresh
    <3>1. values = wanted /\ file = NoFile
      BY <1>3, <2>1, <2>4, Zenon DEF KnownInv, Fresh
    <3>2. values' = wanted /\ wanted' = wanted
      BY <1>0, <1>3, <3>1, NothingLoads, Zenon DEF BootCard
    <3>. QED BY <1>3, <2>1, <2>4, <3>2, Zenon DEF KnownInv, BootCard
  <2>5. CASE file = Right
    <3>1. card = "vfat"
      BY <1>0, <2>5, NothingLoads, Zenon DEF MediumInv, Right
    <3>2. values' = wanted
      BY <1>0, <1>3, <2>1, <2>5, <3>1, RightLoads, Zenon DEF BootCard, CanMount
    <3>. QED BY <1>3, <2>1, <2>5, <3>2, Zenon DEF KnownInv, BootCard
  <2>. QED BY <2>3, <2>4, <2>5, Zenon
<1>4. CASE BootDetails
  BY <1>4, Zenon DEF KnownInv, Readable, Right, Fresh, BootDetails, Call, mem, sd, history
<1>5. CASE BootAgain
  BY <1>5, Zenon DEF KnownInv, Readable, Right, Fresh, BootAgain, sd, history
<1>6. CASE BootDone
  BY <1>6, Zenon DEF KnownInv, Readable, Right, Fresh, BootDone, sd
<1>. QED BY <1>1, <1>2, <1>3, <1>4, <1>5, <1>6, Zenon DEF Starts

\* A crash that leaves something else of the file is a loss, and so is one in a write.
LEMMA KnownRestarts ==
  ASSUME SurviveInv, Restarts
  PROVE  KnownInv'
<1>. SUFFICES ASSUME (lost = {} /\ Readable)' PROVE KnownInv'
  BY Zenon DEF KnownInv
<1>1. lost = {} /\ Readable /\ file' = file /\ pc # "save_write"
  BY Zenon DEF Restarts, Reboot, Crash, Restart, Readable
<1>2. pc' = "boot_cache" /\ values' = Defaults /\ wanted' = wanted
  BY Zenon DEF Restarts, Reboot, Crash, Restart
<1>3. file = Right \/ cache = Right \/ Fresh
  BY <1>1, Zenon DEF SurviveInv, KnownInv
<1>4. cache' = cache \/ pc = "part_copied"
  BY Zenon DEF Restarts, Reboot, Crash
<1>5. pc = "part_copied" => file = Right
  BY <1>3, NothingLoads DEF SurviveInv, MediumInv, Right, Fresh, NoFile, Empty
<1>. QED BY <1>1, <1>2, <1>3, <1>4, <1>5, Zenon DEF KnownInv, Right, Fresh

\* Partition_SDCard has the copy before the table goes, and the file before the copy does.
LEMMA KnownPartitions ==
  ASSUME SurviveInv, Partitions
  PROVE  KnownInv'
<1>. SUFFICES ASSUME (lost = {} /\ Readable)' PROVE KnownInv'
  BY Zenon DEF KnownInv
<1>0. /\ pc \notin {"boot_cache", "boot_rm", "boot_card", "boot_details", "boot_again", "boot_done"}
      /\ ~Saving
  BY Zenon DEF Partitions, PartCopy, PartCopied, PartUnmount, GiveUp, Refused, PartTable, PartFs,
     PartMount, PartRm, PartExt, Saving
<1>1. values = wanted
  BY <1>0, Zenon DEF SurviveInv, RemovalInv, Starting
<1>2. values' = wanted' /\ wanted' = wanted
  BY <1>1, Zenon DEF Partitions, PartCopy, PartCopied, PartUnmount, Refused, PartTable, PartFs,
     PartMount, PartRm, PartExt, mem, history
<1>3. Right' = Right /\ (Readable' <=> Readable)
  BY <1>2, Zenon DEF Right, Readable
<1>4. pc' \notin {"boot_cache", "boot_card"}
  BY Zenon DEF Partitions, PartCopy, PartCopied, PartUnmount, GiveUp, Refused, PartTable, PartFs,
     PartMount, PartRm, PartExt, Call
<1>5. (file = Right \/ cache = Right \/ Fresh)'
  <2>1. ASSUME lost = {} PROVE file = Right \/ cache = Right \/ Fresh
    BY <1>0, <1>3, <2>1, Zenon DEF SurviveInv, KnownInv, Saving
  <2>2. CASE PartCopy
    BY <1>2, <1>3, <2>1, <2>2, Zenon DEF PartCopy, Right, Fresh, sd
  <2>3. CASE PartCopied
    <3>1. lost = {} /\ file = Right
      BY <2>1, <2>3, NothingLoads DEF PartCopied, Misleading, SurviveInv, MediumInv, Right, Fresh,
         NoFile, Empty
    <3>. QED BY <1>3, <2>3, <3>1, Zenon DEF PartCopied, sd
  <2>4. CASE PartUnmount \/ Refused \/ PartFs \/ PartMount \/ PartExt
    <3>1. UNCHANGED <<file, cache, lost>>
      BY <2>4, Zenon DEF PartUnmount, Refused, PartFs, PartMount, PartExt, sd, history
    <3>. QED BY <1>2, <1>3, <2>1, <3>1, Zenon DEF Fresh
  <2>5. CASE PartTable
    BY <1>2, <1>3, <2>1, <2>5, Zenon DEF PartTable, Right, Fresh
  <2>6. CASE PartRm
    BY <1>1, <1>3, <2>6, Zenon DEF PartRm, SurviveInv, RemovalInv, Right, history
  <2>. QED BY <2>2, <2>3, <2>4, <2>5, <2>6, Zenon DEF Partitions
<1>. QED BY <1>2, <1>4, <1>5, Zenon DEF KnownInv

\* The other steps of a running recovery change what the user wants and save it, or leave
\* both files alone.
LEMMA KnownOthers ==
  ASSUME SurviveInv, Changes \/ Mounts \/ Converts
  PROVE  KnownInv'
<1>. SUFFICES ASSUME (lost = {} /\ Readable)' PROVE KnownInv'
  BY Zenon DEF KnownInv
<1>1. ~(\E i \in 1..Names, v \in Values : SetValue(i, v)) /\ ~ResetDefaults
  BY Zenon DEF SetValue, ResetDefaults
<1>2. /\ UNCHANGED <<values, wanted, file, cache, lost>>
      /\ pc \notin {"boot_cache", "boot_card", "save_write"}
      /\ pc' \notin {"boot_cache", "boot_card", "save_write"}
  <2>1. CASE Wipe \/ Wiped \/ UpdateDetails
    BY <2>1, Zenon DEF Wipe, Wiped, UpdateDetails, Details, Call, mem, sd, history
  <2>2. CASE Mounts
    BY <2>2, ZenonT(30) DEF Mounts, MountSdcard, UnMountSdcard, ToggleSdext, UserReboot, mem, sd,
       history
  <2>3. CASE Converts
    BY <2>3, Zenon DEF Converts, FSConvert, ConvSave, ConvFormat, ConvDetails, ConvBack, ConvRm, Details,
       Call, mem, sd, history
  <2>. QED BY <1>1, <2>1, <2>2, <2>3, Zenon DEF Changes
<1>. QED BY <1>2, Zenon DEF SurviveInv, KnownInv, Readable, Right, Fresh

LEMMA SurviveInit == Init => SurviveInv
<1>. SUFFICES ASSUME Init PROVE SurviveInv
  BY Zenon
<1>1. TypeOK /\ RemovalInv
  BY TypeInit, RemovalInit, Zenon
<1>2. MediumInv
  BY Zenon DEF Init, MediumInv, NoFile
<1>3. MisleadInv
  BY NothingLoads, Zenon DEF Init, MisleadInv, Misleads
<1>4. KnownInv
  BY Zenon DEF Init, KnownInv, Fresh
<1>. QED BY <1>1, <1>2, <1>3, <1>4, Zenon DEF SurviveInv

LEMMA SurviveStep == SurviveInv /\ [Next]_vars => SurviveInv'
<1>1. CASE UNCHANGED vars
  <2>1. SurviveInv /\ TypeOK' /\ RemovalInv' => MediumInv' /\ MisleadInv' /\ KnownInv'
    BY <1>1, Zenon DEF SurviveInv, MediumInv, MisleadInv, Misleads, KnownInv, Readable, Right,
       Fresh, vars, mem, sd, history
  <2>. QED BY <1>1, <2>1, TypeStep, RemovalStep, Zenon DEF SurviveInv
<1>2. ASSUME SurviveInv, Next PROVE SurviveInv'
  <2>1. TypeOK' /\ RemovalInv'
    BY <1>2, TypeStep, RemovalStep, Zenon DEF SurviveInv
  <2>2. MediumInv' /\ MisleadInv'
    BY <1>2, MediumKept, MisleadKept, Zenon DEF SurviveInv, TypeOK, RemovalInv
  <2>3. KnownInv'
    BY <1>2, StepKinds, KnownSaves, KnownStarts, KnownRestarts, KnownPartitions, KnownOthers, Zenon
  <2>. QED BY <2>1, <2>2, <2>3, Zenon DEF SurviveInv
<1>. QED BY <1>1, <1>2, Zenon

\* For any number of settings and of faults: what a start has loaded is what the user had
\* set, unless one of the seven known ways to lose settings was met.
THEOREM Survives == Spec => []SettingsSurvive
<1>1. SurviveInv => SettingsSurvive
  BY Zenon DEF SurviveInv, KnownInv, Readable, SettingsSurvive
<1>. QED BY SurviveInit, SurviveStep, <1>1, PTL DEF Spec
=============================================================================
