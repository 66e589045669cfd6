------------------------------ MODULE Nandroid ------------------------------
(***************************************************************************)
(* Backup and restore of partitions to one backup folder on the storage    *)
(* (TWPartitionManager::Run_Backup and Run_Restore with TWPartition's      *)
(* Backup and Restore), with what happens between them: Android changes    *)
(* the partitions, files of the folder decay or get lost, power fails.     *)
(*                                                                         *)
(* A partition and its archive are cut into the pieces its archive has     *)
(* (one, or one per file of a split archive); a piece is a value.  Wiped   *)
(* is an empty piece, Torn one that is only partly there, Nested one whose *)
(* files were extracted below the wrong directory, Rotten an archive file  *)
(* changed behind recovery's back.  A digest is the value digested.        *)
(*                                                                         *)
(* A failing child process is not seen by its parent: createTarFork,       *)
(* extractTarFork and Exec_Cmd return 0 when the child exits non-zero or   *)
(* is killed by a signal (the exit status of a killed child is 0), so only *)
(* a failing fork is an error.                                             *)
(***************************************************************************)
EXTENDS Integers, Sequences

CONSTANTS
  Part,         \* the TWPartition objects
  Orders,       \* lists of partitions (readdir's order) a user may select to restore
  List,         \* tw_backup_list
  Subs,         \* partition -> its sub-partitions, in the order of Partitions
  Kind,         \* partition -> how it is archived
  Class,        \* partition -> which branch of Run_Restore's size check it takes
  Pieces,       \* partition -> number of files of its archive
  Empty,        \* /data, when it holds less than 2 MB
  Converted,    \* /boot, when the archive has the other boot loader's format
  Versions,     \* contents a partition may have
  Wiped, Torn, Nested, Rotten, None,  \* see above; None: no file, no digest
  Bldrs,        \* what Detect_BLDR() may return: 0 Haret, 1 cLK, 2 MAGLDR
  Settings,     \* the sets of user settings that may be on
  Fits,         \* how the partitions may compare in size with their archives
  Faults,       \* what may go wrong
  TotalBytes, Reserve, Word, MaxFree,  \* sizes, Word is 2^64 to scale
  MaxOps        \* bound: backups, restores, changes, crashes

Slots == UNION {{p} \X (1..Pieces[p]) : p \in Part}
Damage == {Wiped, Torn, Nested, Rotten}
Data == Versions \cup Damage

ASSUME ConstantsAssumption ==
  /\ List \in Seq(Part) /\ List # <<>> /\ Orders \subseteq Seq(Part) \ {<<>>}
  /\ Subs \in [Part -> Seq(Part)]
  /\ \A p \in Part : \A n \in 1..Len(Subs[p]) : Subs[Subs[p][n]] = <<>>
  /\ Kind \in [Part -> {"tar", "split", "dd", "flash"}]
  /\ Class \in [Part -> {"main", "boot", "extraboot", "ext", "ext2", "plain", "other"}]
  /\ Pieces \in [Part -> Nat \ {0}]
  /\ \A p \in Part : Kind[p] # "split" => Pieces[p] = 1
  /\ Empty \subseteq Part /\ Converted \subseteq Part
  /\ \A p \in Converted : Kind[p] # "split"
  /\ Versions \cap (Damage \cup {None}) = {} /\ None \notin Damage
  /\ Wiped \notin {Torn, Nested, Rotten} /\ Torn \notin {Nested, Rotten}
  /\ Nested # Rotten
  /\ Bldrs \subseteq 0..2
  /\ Fits \subseteq [Part -> {"small", "exact", "fits"}]
  /\ Settings \subseteq SUBSET {"skip_md5_check", "skip_md5_gen", "skip_free_check",
                               "handle_restore_size"}
  /\ Faults \subseteq {"fork", "child", "nofile", "mount", "wipe", "md5", "rot", "lose",
                       "crash", "bcb"}
  /\ TotalBytes \in Nat /\ Reserve \in Nat /\ MaxFree \in Nat
  /\ Word \in Nat \ {0}
  /\ MaxOps \in Nat

VARIABLES
  bldr, options,  \* the device and its settings, chosen once
  dev,          \* contents of the partitions
  file, md5,    \* the backup folder: archive files and their .md5 files
  fit,          \* how the partition's size compares with its archive's contents
  handle,       \* tw_handle_restore_size, kept in the settings file
  pc, list, i, j, k,  \* the running operation: partition i of list,
                \* its sub-partition j (0: itself), piece k
  skip,         \* partitions with Skip_From_Restore set
  resize,       \* Run_Restore's part_size
  data_size,    \* Run_Restore's data_size
  count,        \* its partition_count
  hse,          \* its handle_size_errors
  free,         \* free space Run_Backup saw
  result,       \* what the last operation returned
  saved,        \* history: what the pieces held when they were archived
  ops

disk == <<dev, file, md5, fit, handle>>
local == <<list, i, j, k, skip, resize, data_size, count, hse>>
vars == <<bldr, options, disk, pc, local, free, result, saved, ops>>

\* The partition and the archive file at hand.
Unit == IF j = 0 THEN list[i] ELSE Subs[list[i]][j]
Here == <<Unit, k>>
LastPiece == k = Pieces[Unit]

DiskTypes ==
  /\ bldr \in 0..2
  /\ options \subseteq {"skip_md5_check", "skip_md5_gen", "skip_free_check",
                  "handle_restore_size"}
  /\ dev \in [Slots -> Data]
  /\ file \in [Slots -> Data \cup {None}] /\ md5 \in [Slots -> Data \cup {None}]
  /\ fit \in [Part -> {"small", "exact", "fits"}]
  /\ handle \in -1..1
  /\ saved \in [Slots -> Data \cup {None}]
  /\ ops \in 0..MaxOps

ControlTypes ==
  /\ pc \in {"idle", "save", "digest", "check", "clk", "wipe", "extract"}
  /\ list \in Seq(Part)
  /\ i \in Nat \ {0} /\ j \in Nat /\ k \in Nat \ {0}
  /\ pc # "idle" => i <= Len(list) /\ j <= Len(Subs[list[i]])
  /\ pc \in {"check", "clk"} => j = 0
  /\ pc \in {"save", "digest", "extract"} => k <= Pieces[Unit]
  /\ skip \subseteq Part /\ resize \subseteq Part /\ data_size \subseteq Part
  /\ count \in Nat /\ hse \in -1..1 /\ free \in Nat
  /\ result \in {"none", "backed_up", "restored", "failed", "crashed", "rebooted"}

\* The type invariant; the loops stay inside the list, the sub-partitions and the
\* files of the archive at hand.
TypeOK == DiskTypes /\ ControlTypes

\* tw_handle_restore_size as the user set it.
Handle == IF "handle_restore_size" \in options THEN 1 ELSE 0

Init ==
  /\ bldr \in Bldrs /\ options \in Settings
  /\ dev \in [Slots -> Versions]
  /\ \A s, t \in Slots : s[1] = t[1] => dev[s] = dev[t]
  /\ file = [s \in Slots |-> None] /\ md5 = file /\ saved = file
  /\ fit \in Fits
  /\ handle = Handle /\ hse = 0
  /\ pc = "idle" /\ list = <<>> /\ i = 1 /\ j = 0 /\ k = 1
  /\ skip = {} /\ resize = {} /\ data_size = {} /\ count = 0
  /\ free = 0 /\ ops = 0 /\ result = "none"

-----------------------------------------------------------------------------
\* The operation returns; nothing of it remains but what is on the disks.
Return(r) ==
  /\ pc' = "idle" /\ result' = r
  /\ UNCHANGED <<local, free>>

CheckedForSize(p) == Class[p] \in {"main", "boot", "extraboot", "ext", "ext2"}
IsTar(u) == Kind[u] \in {"tar", "split"}

\* Mutant: the loop runs once more.
NextToSave_OnceMore ==
  IF i <= Len(list)
  THEN /\ pc' = "save" /\ i' = i + 1 /\ j' = 0 /\ k' = 1
       /\ UNCHANGED <<list, skip, resize, data_size, count, hse, free, result>>
  ELSE Return("backed_up")

\* Run_Backup's loop goes on to the next partition of the list.
NextToSave ==
  IF i < Len(list)
  THEN /\ pc' = "save" /\ i' = i + 1 /\ j' = 0 /\ k' = 1
       /\ UNCHANGED <<list, skip, resize, data_size, count, hse, free, result>>
  ELSE Return("backed_up")

\* Mutant: the sub-partitions are forgotten.
Saved_NoSubs ==
  /\ pc' = "digest" /\ k' = 1
  /\ UNCHANGED <<list, i, j, skip, resize, data_size, count, hse, free, result>>

\* The current partition was archived: its sub-partitions come before its md5.
Saved ==
  /\ pc' = IF j = 0 /\ Subs[list[i]] # <<>> THEN "save" ELSE "digest"
  /\ j' = IF j = 0 /\ Subs[list[i]] # <<>> THEN 1 ELSE j
  /\ k' = 1
  /\ UNCHANGED <<list, i, skip, resize, data_size, count, hse, free, result>>

\* Backup returned -1, which Backup_Partition takes for an empty partition: no
\* sub-partitions, no md5, and no error.  For a sub-partition -1 is not false.
NothingSaved == IF j = 0 THEN NextToSave ELSE Saved

\* Run_Backup up to its loop.  The folder is new.
EnoughSpace(f) ==
  \/ "skip_free_check" \in options
  \/ (f - Reserve) % Word >= TotalBytes

StartBackup ==
  /\ pc = "idle" /\ ops < MaxOps /\ ops' = ops + 1
  /\ \E f \in 0..MaxFree :
       /\ free' = f
       /\ IF EnoughSpace(f)
          THEN /\ file' = [s \in Slots |-> None] /\ md5' = file' /\ saved' = file'
               /\ pc' = "save" /\ list' = List /\ i' = 1 /\ j' = 0 /\ k' = 1
               /\ result' = "none"
          ELSE /\ result' = "failed"
               /\ UNCHANGED <<file, md5, saved, pc, list, i, j, k>>
  /\ UNCHANGED <<dev, fit, handle, skip, resize, data_size, count, hse>>

\* Backup_Tar finds /data empty.
SaveNothing ==
  /\ pc = "save" /\ k = 1 /\ IsTar(Unit) /\ Unit \in Empty
  /\ NothingSaved
  /\ UNCHANGED <<disk, saved, ops>>

Saving == pc = "save" /\ ~(IsTar(Unit) /\ Unit \in Empty)

\* One archive file is written.
SavePiece ==
  /\ Saving
  /\ file' = [file EXCEPT ![Here] = dev[Here]]
  /\ saved' = [saved EXCEPT ![Here] = dev[Here]]
  /\ IF LastPiece THEN Saved
     ELSE /\ k' = k + 1
          /\ UNCHANGED <<pc, list, i, j, skip, resize, data_size, count, hse,
                         free, result>>
  /\ UNCHANGED <<dev, md5, fit, handle, ops>>

\* The child that writes the archive fails.  The partition counts as saved, unless
\* the one file of its archive is missing or has 0 bytes (fault "nofile": the child
\* failed before it wrote anything).
SaveChildFails ==
  /\ Saving /\ "child" \in Faults
  /\ \E v \in {Torn, None} :
       /\ file' = [file EXCEPT ![Here] = v]
       /\ \/ (Kind[Unit] = "split" \/ v = Torn) /\ Saved
          \/ Kind[Unit] # "split" /\ "nofile" \in Faults /\ NothingSaved
  /\ saved' = [saved EXCEPT ![Here] = dev[Here]]
  /\ UNCHANGED <<dev, md5, fit, handle, ops>>

\* fork fails: an error for a split archive only.
SaveForkFails ==
  /\ Saving /\ k = 1 /\ "fork" \in Faults
  /\ IF Kind[Unit] = "split" THEN Return("failed") ELSE NothingSaved
  /\ UNCHANGED <<disk, saved, ops>>

\* Backup_Tar cannot mount the partition.
SaveMountFails ==
  /\ pc = "save" /\ k = 1 /\ "mount" \in Faults /\ IsTar(Unit)
  /\ Return("failed")
  /\ UNCHANGED <<disk, saved, ops>>

\* Make_MD5 is done with the archive.
Digested ==
  IF j = 0 THEN NextToSave
  ELSE /\ pc' = IF j < Len(Subs[list[i]]) THEN "save" ELSE "digest"
       /\ j' = IF j < Len(Subs[list[i]]) THEN j + 1 ELSE 0
       /\ k' = 1
       /\ UNCHANGED <<list, i, skip, resize, data_size, count, hse, free, result>>

\* Make_MD5 for one archive file.  A digest that cannot be written is no error.
MakeMD5 ==
  /\ pc = "digest" /\ "skip_md5_gen" \notin options /\ file[Here] # None
  /\ \/ md5' = [md5 EXCEPT ![Here] = file[Here]]
     \/ "md5" \in Faults /\ md5' = md5
  /\ IF LastPiece THEN Digested
     ELSE /\ k' = k + 1
          /\ UNCHANGED <<pc, list, i, j, skip, resize, data_size, count, hse,
                         free, result>>
  /\ UNCHANGED <<saved, dev, file, fit, handle, ops>>

\* A digest that cannot be computed ends Make_MD5, which returns true or -1.
ComputeMD5Fails ==
  /\ pc = "digest" /\ "skip_md5_gen" \notin options /\ file[Here] # None
  /\ "md5" \in Faults
  /\ Digested
  /\ UNCHANGED <<disk, saved, ops>>

\* No digests are wanted, or the archive has no further file.  Only when there is
\* no archive at all does Make_MD5 return false.
MakeMD5Ends ==
  /\ pc = "digest"
  /\ \/ "skip_md5_gen" \in options /\ Digested
     \/ "skip_md5_gen" \notin options /\ file[Here] = None /\ k > 1 /\ Digested
     \/ "skip_md5_gen" \notin options /\ file[Here] = None /\ k = 1 /\ Return("failed")
  /\ UNCHANGED <<disk, saved, ops>>

-----------------------------------------------------------------------------
\* Set_Restore_Files lists the partitions of which the folder has an archive
\* file, the user selects some of them, and Run_Restore starts.
HasArchive(p) == \E s \in Slots : s[1] = p /\ file[s] # None

StartRestore ==
  /\ pc = "idle" /\ ops < MaxOps /\ ops' = ops + 1
  /\ list' \in Orders
  /\ \A n \in 1..Len(list') : HasArchive(list'[n])
  /\ pc' = "check" /\ i' = 1 /\ j' = 0 /\ k' = 1
  /\ resize' = {} /\ data_size' = {} /\ count' = 0 /\ hse' = handle
  /\ result' = "none"
  /\ UNCHANGED <<saved, disk, skip, free>>

\* Mutant: an archive without .md5 file is accepted.
Check_MD5_IfPresent(p, m) ==
  \/ "skip_md5_check" \in options
  \/ m[<<p, 1>>] = None
  \/ m[<<p, 1>>] = file[<<p, 1>>]

\* Mutant: only the first file of a split archive is checked.
Check_MD5_FirstOnly(p, m) ==
  \/ "skip_md5_check" \in options
  \/ m[<<p, 1>>] # None /\ m[<<p, 1>>] = file[<<p, 1>>]

\* Check_MD5, given the .md5 files m.  The files of a split archive are checked
\* up to the first one that is missing; the first one's .md5 file must exist.
\* (An archive without its one file is taken for a split one, of which there is
\* no .md5 file.)
Check_MD5(p, m) ==
  \/ "skip_md5_check" \in options
  \/ /\ m[<<p, 1>>] # None
     /\ Kind[p] = "split" \/ file[<<p, 1>>] # None
     /\ \A n \in 1..Pieces[p] :
          (\A l \in 1..n : file[<<p, l>>] # None) => m[<<p, n>>] = file[<<p, n>>]

\* An archive of /boot made for the other boot loader is converted; the original
\* and its digest are removed and a digest is made of what came out.
DigestsAfterConversion(p) ==
  IF p \in Converted THEN {md5, [md5 EXCEPT ![<<p, 1>>] = file[<<p, 1>>]]} ELSE {md5}

Units(p) == {p} \cup {Subs[p][n] : n \in 1..Len(Subs[p])}

\* Run_Restore's size check.
TooSmall(p) ==
  hse > 0 /\ CheckedForSize(p) /\ fit[p] # "fits"

SkipSmall(p) ==
  \/ Class[p] \in {"ext", "ext2"}
  \/ Class[p] = "extraboot" /\ bldr # 1
  \/ Class[p] \in {"main", "boot"} /\ bldr = 2

Counted(p) ==
  \/ ~TooSmall(p) /\ Class[p] # "other"
  \/ TooSmall(p) /\ Class[p] \in {"main", "boot"} /\ bldr = 0

\* The first pass of Run_Restore, for one partition.  A partition that clkpartmgr
\* shall enlarge is noted; for /system and /data the last one replaces the other.
CheckPartition ==
  LET p == list[i]
      skipped == TooSmall(p) /\ SkipSmall(p)
  IN
  /\ pc = "check"
  /\ md5' \in DigestsAfterConversion(p)
  /\ skip' = IF skipped THEN skip \cup {p} ELSE skip \ {p}
  /\ IF skipped \/ \A q \in Units(p) : Check_MD5(q, md5')
     THEN /\ count' = IF Counted(p) THEN count + 1 ELSE count
          /\ data_size' = IF TooSmall(p) /\ bldr = 1 /\ Class[p] = "main"
                          THEN {p} ELSE data_size
          /\ resize' = IF TooSmall(p) /\ bldr = 1 /\ Class[p] \in {"boot", "extraboot"}
                       THEN resize \cup {p} ELSE resize
          /\ pc' = IF i < Len(list) THEN "check" ELSE "clk"
          /\ i' = IF i < Len(list) THEN i + 1 ELSE 1
          /\ UNCHANGED <<list, j, k, hse, free, result>>
     ELSE /\ pc' = "idle" /\ result' = "failed"
          /\ UNCHANGED <<list, i, j, k, resize, data_size, count, hse, free>>
  /\ UNCHANGED <<saved, dev, file, fit, handle, ops>>

\* Between the passes: with cLK, clkpartmgr is run when a partition must grow.
StartRestoring ==
  IF count = 0 THEN Return("failed")
  ELSE /\ pc' = "wipe" /\ i' = 1 /\ j' = 0 /\ k' = 1
       /\ UNCHANGED <<list, skip, resize, data_size, count, hse, free, result>>

NoClkPartMgr ==
  /\ pc = "clk" /\ ~(hse > 0 /\ bldr = 1)
  /\ StartRestoring
  /\ UNCHANGED <<disk, saved, ops>>

\* Nothing must grow: Run_Restore returns false.
NothingToResize ==
  /\ pc = "clk" /\ hse > 0 /\ bldr = 1 /\ resize \cup data_size = {}
  /\ Return("failed")
  /\ UNCHANGED <<disk, saved, ops>>

\* Mutant: data_size is not added to the command.
Growing_NoData == {p \in resize : fit[p] = "small"}

Growing == {p \in resize \cup data_size : fit[p] = "small"}

\* clkpartmgr leaves a message for cLK and reboots; cLK enlarges the partitions.
ClkPartMgrReboots ==
  /\ pc = "clk" /\ hse > 0 /\ bldr = 1 /\ Growing # {}
  /\ handle' = -1
  /\ fit' = [p \in Part |-> IF p \in Growing THEN "exact" ELSE fit[p]]
  /\ Return("rebooted")
  /\ UNCHANGED <<saved, dev, file, md5, ops>>

\* clkpartmgr has nothing to do and exits with 1, or cannot leave the message and
\* exits with -1.  system() returns neither 1 nor -1 for these: handle stays -1.
ClkPartMgrReturns ==
  /\ pc = "clk" /\ hse > 0 /\ bldr = 1 /\ resize \cup data_size # {}
  /\ Growing = {} \/ "bcb" \in Faults
  /\ handle' = -1
  /\ StartRestoring
  /\ UNCHANGED <<saved, dev, file, md5, fit, ops>>

-----------------------------------------------------------------------------
\* The second pass goes on to the next partition, or Run_Restore returns true.
NextToRestore ==
  IF i < Len(list)
  THEN /\ pc' = "wipe" /\ i' = i + 1 /\ j' = 0 /\ k' = 1
       /\ UNCHANGED <<list, skip, resize, data_size, count, hse, free, result, handle>>
  ELSE /\ Return("restored")
       /\ handle' = IF hse < 0 THEN 1 ELSE handle

\* TWPartition::Restore is done with the unit: Restore_Partition goes on to the
\* next sub-partition.
Restored ==
  IF j < Len(Subs[list[i]])
  THEN /\ pc' = "wipe" /\ j' = j + 1 /\ k' = 1
       /\ UNCHANGED <<list, i, skip, resize, data_size, count, hse, free, result, handle>>
  ELSE NextToRestore

SkipPartition ==
  /\ pc = "wipe" /\ j = 0 /\ list[i] \in skip
  /\ NextToRestore
  /\ UNCHANGED <<saved, dev, file, md5, fit, ops>>

\* Restore up to the first archive file: Restore_Tar wipes the partition,
\* Restore_Flash_Image erases it, Restore_DD leaves it as it is.  An image larger
\* than its partition is refused first.
Erased(u) ==
  [s \in Slots |-> IF s[1] = u /\ Kind[u] # "dd" THEN Wiped ELSE dev[s]]

Restoring == pc = "wipe" /\ ~(j = 0 /\ list[i] \in skip)
ImageTooLarge == ~IsTar(Unit) /\ fit[Unit] = "small"

Wipe ==
  /\ Restoring /\ ~ImageTooLarge
  /\ \/ dev' = Erased(Unit)
     \/ "child" \in Faults /\ dev' = dev
  /\ pc' = "extract" /\ k' = 1 /\ skip' = skip \ {Unit}
  /\ UNCHANGED <<saved, file, md5, fit, handle, list, i, j, resize, data_size,
                 count, hse, free, result, ops>>

RefuseImage ==
  /\ Restoring /\ ImageTooLarge
  /\ Return("failed")
  /\ UNCHANGED <<disk, saved, ops>>

\* Mutant: that the wipe failed is ignored for every partition.
WipeFails_Ignored ==
  /\ Restoring /\ "wipe" \in Faults /\ IsTar(Unit)
  /\ pc' = "extract" /\ k' = 1 /\ skip' = skip \ {Unit}
  /\ UNCHANGED <<disk, saved, ops, list, i, j, resize, data_size, count, hse, free, result>>

\* Wipe() returns false, which Restore_Tar ignores for /sd-ext.
WipeFails ==
  /\ Restoring /\ "wipe" \in Faults /\ IsTar(Unit)
  /\ IF Class[Unit] = "ext"
     THEN /\ pc' = "extract" /\ k' = 1 /\ skip' = skip \ {Unit}
          /\ UNCHANGED <<list, i, j, resize, data_size, count, hse, free, result>>
     ELSE Return("failed")
  /\ UNCHANGED <<disk, saved, ops>>

\* The wiped partition cannot be mounted.
RestoreMountFails ==
  /\ Restoring /\ "mount" \in Faults /\ IsTar(Unit)
  /\ dev' = Erased(Unit)
  /\ Return("failed")
  /\ UNCHANGED <<saved, file, md5, fit, handle, ops>>

\* What a partition holds after one of its archive files was put there.  The
\* entries of a split archive carry the full path (include_root), yet they are
\* extracted below the partition's own directory.
Placed(u, n) ==
  LET v == file[<<u, n>>] IN
  CASE IsTar(u) /\ fit[u] = "small" /\ n = Pieces[u] -> Torn
    [] dev[<<u, n>>] \notin {Wiped, v} /\ IsTar(u) -> Torn
    [] Kind[u] = "split" /\ v \notin Damage -> Nested
    [] OTHER -> v

ExtractPiece ==
  /\ pc = "extract" /\ file[Here] # None
  /\ \/ dev' = [dev EXCEPT ![Here] = Placed(Unit, k)]
     \/ "child" \in Faults /\ dev' = [dev EXCEPT ![Here] = Torn]
  /\ IF LastPiece THEN Restored
     ELSE /\ k' = k + 1
          /\ UNCHANGED <<pc, list, i, j, skip, resize, data_size, count, hse,
                         free, result, handle>>
  /\ UNCHANGED <<saved, file, md5, fit, ops>>

\* There is no further file of a split archive, or none at all.  That the image
\* is missing only dd or flash_image would notice.
NoMorePieces ==
  /\ pc = "extract" /\ file[Here] = None
  /\ IF k > 1 \/ ~IsTar(Unit) THEN Restored ELSE Return("failed") /\ UNCHANGED handle
  /\ UNCHANGED <<saved, dev, file, md5, fit, ops>>

\* fork fails: an error for archives, ignored for images.
ExtractForkFails ==
  /\ pc = "extract" /\ "fork" \in Faults /\ file[Here] # None
  /\ IF IsTar(Unit) THEN Return("failed") /\ UNCHANGED handle
     ELSE Restored
  /\ UNCHANGED <<saved, dev, file, md5, fit, ops>>

-----------------------------------------------------------------------------
\* Android runs and changes a partition.
UsePartition ==
  /\ pc = "idle" /\ ops < MaxOps /\ ops' = ops + 1
  /\ \E p \in Part, v \in Versions :
       dev' = [s \in Slots |-> IF s[1] = p THEN v ELSE dev[s]]
  /\ result' = "none"
  /\ UNCHANGED <<saved, file, md5, fit, handle, pc, local, free>>

\* A file of the folder decays, or is removed.
Decay ==
  /\ pc = "idle" /\ ops < MaxOps /\ ops' = ops + 1
  /\ \E s \in Slots :
       /\ file[s] # None
       /\ \/ "rot" \in Faults /\ file' = [file EXCEPT ![s] = Rotten]
          \/ "lose" \in Faults /\ file' = [file EXCEPT ![s] = None]
  /\ result' = "none"
  /\ UNCHANGED <<saved, dev, md5, fit, handle, pc, local, free>>

\* Power fails; what was being written, or wiped, is torn.
Crash ==
  /\ pc # "idle" /\ "crash" \in Faults /\ ops < MaxOps /\ ops' = ops + 1
  /\ file' = IF pc = "save" THEN [file EXCEPT ![Here] = Torn] ELSE file
  /\ \/ dev' = dev
     \/ Restoring /\ ~ImageTooLarge
        /\ dev' = [s \in Slots |-> IF s[1] = Unit THEN Torn ELSE dev[s]]
     \/ pc = "extract" /\ dev' = [dev EXCEPT ![Here] = Torn]
  /\ Return("crashed")
  /\ UNCHANGED <<saved, md5, fit, handle>>

Backup ==
  \/ StartBackup \/ SaveNothing \/ SavePiece \/ SaveChildFails \/ SaveForkFails
  \/ SaveMountFails \/ MakeMD5 \/ ComputeMD5Fails \/ MakeMD5Ends

Restore ==
  \/ StartRestore \/ CheckPartition \/ NoClkPartMgr \/ NothingToResize
  \/ ClkPartMgrReboots \/ ClkPartMgrReturns \/ SkipPartition \/ Wipe \/ RefuseImage
  \/ WipeFails \/ RestoreMountFails \/ ExtractPiece \/ NoMorePieces \/ ExtractForkFails

Next ==
  /\ Backup \/ Restore \/ UsePartition \/ Decay \/ Crash
  /\ UNCHANGED <<bldr, options>>

Spec == Init /\ [][Next]_vars

-----------------------------------------------------------------------------
ListedUnits == UNION {Units(list[n]) : n \in 1..Len(list)}
RestoredUnits == UNION {Units(list[n]) : n \in {m \in 1..Len(list) : list[m] \notin skip}}

\* "Check MD5 files first before restoring to ensure that all of them match
\* before starting a restore": from the moment on that a restore may touch a
\* partition, every archive file and every .md5 file of what it restores match.
AllMatchBeforeWipe ==
  pc \in {"wipe", "extract"} /\ "skip_md5_check" \notin options =>
    \A s \in Slots : s[1] \in RestoredUnits => file[s] = md5[s]

\* With the MD5 check on, what decayed on the storage never reaches a partition,
\* neither through a restore nor through a later backup of what was restored.
NoRotRestored ==
  "skip_md5_check" \notin options => \A s \in Slots : dev[s] # Rotten

\* When Run_Backup returns true the folder holds all of every listed partition,
\* with the digests that a restore will ask for.
BackupIsComplete ==
  result = "backed_up" =>
    \A s \in Slots : s[1] \in ListedUnits \ Empty =>
      file[s] = dev[s] /\ ("skip_md5_gen" \notin options => md5[s] = dev[s])

\* When Run_Restore returns true, the partitions it did not skip hold what they
\* held when they were backed up, whatever happened to them, to the folder and
\* to recovery in between, provided that they are large enough.
RestoredIsWhatWasSaved ==
  result = "restored" =>
    \A s \in Slots : s[1] \in RestoredUnits /\ fit[s[1]] # "small" => dev[s] = saved[s]

\* With cLK, the request to enlarge the partition was replaced by the request of the
\* other of /system and /data: data_size holds one request only.
RequestReplaced(p) == bldr = 1 /\ Class[p] = "main" /\ \E q \in data_size : q # p

\* With the size check on, a restore changes a partition only if its archive fits
\* there: otherwise it is skipped and keeps what it holds, or the boot loader has
\* made it larger.  (Haret keeps the partitions in files, which can grow.)  The one
\* way to overfill a partition, given that clkpartmgr can leave its message, is that
\* /system and /data are both too small for the size check and the request of the
\* second replaced that of the first.
OnlyFittingRestored ==
  [][\A s \in Slots :
       /\ pc \in {"wipe", "extract"} /\ hse > 0 /\ bldr # 0 /\ CheckedForSize(s[1])
       /\ dev'[s] # dev[s]
       => fit[s[1]] # "small" \/ RequestReplaced(s[1])]_vars
=============================================================================
