# A verification of Extended TWRP

TLA+ models of the recovery for the HTC HD2 (`src/recovery`), the TLC runs that
check them on small instances, and TLAPS proofs of their main properties for
every value of the constants.  `PROJECT.json` lists the components, runs,
mutants, findings, hazards and theorems, and maps every definition to the lines
it models.

Contents: [the system](#the-system), [modules](#modules),
[runs](#runs), [findings](#what-disagrees-with-the-repositorys-own-words), [hazards](#hazards-without-a-property),
[proofs](#proofs), [limits](#what-is-not-modelled).

## The system

Recovery is a small Linux system beside Android.  Android (or the user) leaves
requests for it on `/cache` and in the bootloader control block; the program
`twrp.cpp` starts, takes the requests, carries them out on the partitions, and
reboots or shows its GUI.  What makes it hard is that its state is on flash and
that power may fail anywhere: correctness means that what is left on flash
between any two steps can be continued from.

| part | state | operations | what is hard about it |
|---|---|---|---|
| boot commands (`twrp.cpp`, `bootloader.cpp`, `openrecoveryscript.cpp`, `twrp-functions.cpp`) | control block on `/misc`, command file and script on `/cache`, script in `/tmp` | get_args, Insert_ORS_Command, Update_Log_File, run_script_file, tw_reboot | one request is in up to four places; power failure or process death between any two writes; loops of reboots |
| applypatch (`applypatch/`) | the files and partitions, `<file>.patch`, one rescue copy on `/cache` | apply_patch_check, apply_patch | restart of a half-finished script, too little room, interrupted partition writes |
| backup and restore (`partitionmanager.cpp`, `partition.cpp`, `twrpTarold.cpp`, `twrpDigest.cpp`, `clkpartmgr/`) | partitions, archive and `.md5` files, settings | Run_Backup, Run_Restore | check in one pass and destruction in the next, child processes that fail, split archives, partitions of another size, decaying storage |
| settings and the SD card (`data.cpp`, `partitionmanager.cpp`, `partition.cpp`) | map of values, `.twrps` on the card, a copy on `/cache`; sd-ext and a copy of its files on the card | SetValue, SaveValues, LoadValues, Partition_SDCard, FSConvert_SDEXT, mount, wipe | a file rewritten in place on a card that is formatted under it; copy, format, copy back, each of which may fail |
| MTD access (`mtdutils/`, `flashutils/`) | erase blocks, some bad | mtd_write_data, mtd_read_data, mtd_erase_blocks | writer and reader must skip the same blocks |
| pigz (`pigz/`) | pools of counted buffers, lists of jobs, threads | parallel_compress, compress_thread, write_thread | buffers shared by three threads, results out of order |
| package installation (`twinstall.cpp`, `verifier.cpp`, `minzip/`, `updater/`, `edify/`) | the zip, a child with a pipe | TWinstall_zip, evaluation of the script | parent and child, errors in the middle of a script |
| ADB sideload (`adb_install.cpp`, `minadbd/`) | child process, received file | apply_from_adb, cancel | cancel racing with completion |
| GUI (`gui/`) | pages, threads, blank timer | actions, rendering, input | threads without locks |
| nativeSD (`nativeSDmanager.cpp`), fix permissions, device tools | files | shell commands | little state of their own |
| decryption, drawing, decoders, vendored libraries | | | outside this project, see [limits](#what-is-not-modelled) |

How the parts interact: a boot command becomes script lines; a script line calls
Run_Backup, Run_Restore, TWinstall_zip or Factory_Reset; an installation runs an
updater script, whose `apply_patch` lines are applypatch; all of them go through
mounting, settings and the MTD layer.  A restore may itself write to the control
block (through clkpartmgr) and reboot in order to be continued by a script.

The hazards that follow from this, each at the line where it bites and with the
properties that would catch it, are listed in `PROJECT.json`.

## Modules

Every component module declares its state, `Init`, one action per step of the
code, `Next` and `Spec`.  A step is what happens between two points at which a
power failure makes a difference: two writes to flash are two steps, the
computation between them is part of one.  Definitions whose comment begins with
"Mutant" are wrong variants of the one that follows; nothing uses them but the
mutation runs, which replace the correct definition and must then see a property
fail.

### ApplyPatch

One updater script: all its `apply_patch_check` lines, then all its `apply_patch`
lines.  `Script` is the sequence of calls, each with source, target, the result
its SHA-1 promises and the accepted sources.

* State: `disk` (contents of each file and partition), `out` (`<file>.patch`),
  `saved` (`CACHE_TEMP_SOURCE`), and the locals of `applypatch` and
  `GenerateTarget`: `source_file`, `copy_file`, `made_copy`, `retry`.  Contents are
  the values with a known SHA-1, `Junk` for anything else, `NoFile`.
* Actions: `ApplyPatchCheck`; `PickSource` (the early exit "already", the source,
  or the rescue copy); `EnoughSpace`, `NotEnoughSpace`, `BackUpForPartition`
  (GenerateTarget's three ways); `TruncateCopy`, `WriteCopy` (SaveFileContents);
  `UnlinkSource`; `OpenOutput`, `Patched`, `PatchFailed` with the retry;
  `RenameOutput`; `BeginFlash`, `EndFlash` (WriteToPartition); `RemoveCopy`.
* `AtomicUpdate` is what an update promises: each file goes from its old version to
  its new one in one step, in the order of the script, and never back.
  `ApplyPatch!UpdatesAtomically` is that specification under the mapping that calls
  a file new once it has the promised contents; crashes map to stuttering.
* Environment: `Restart` starts the script again from any step, with what is on
  flash.  Faults: no room ("space"), /cache full, failing save, patch, rename,
  flash.  A file being written holds `Junk` until it is closed.

### Nandroid

`Run_Backup` and `Run_Restore` over one backup folder.

* State: `dev` (contents of every partition, by pieces), `file` and `md5` (the
  folder), `fit` (how the partition compares in size with the archive),
  `handle` (tw_handle_restore_size), the loop position `list, i, j, k` (partition,
  sub-partition, file of the archive), `skip`, `resize`, `data_size`, `count`, `hse`.
  `saved` is history: what the last backup found.
* Backup: `StartBackup` (with the free-space comparison modulo `Word`, which is 2^64
  to scale), `SavePiece`, `SaveNothing` (an empty /data), the failures
  `SaveChildFails`, `SaveForkFails`, `SaveMountFails`, and the digest steps.
* Restore: `StartRestore`; `CheckPartition` is the first pass for one partition:
  size check, conversion of a boot archive, Check_MD5 of it and of its
  sub-partitions; `ClkPartMgrReboots`, `ClkPartMgrReturns`, `NothingToResize`
  between the passes; `Wipe`, `ExtractPiece`, `NoMorePieces`, `SkipPartition`,
  `RefuseImage` and the failures in the second pass.
* Environment: `UsePartition` (Android changes a partition), `Decay` (a file of the
  folder changes or is lost), `Crash`.

### BootCommand

From a request to its execution.

* State: the control block (`boot_command`, `boot_args`), `command`, `ors` and `tmp`
  (the three files), `argv`, the position of the program (`pc`, `line`, `second`)
  and its variables (`ret`, `sideload`, `reboot`, `cache`, `after`).  History:
  `asked`, `started`, `again` (run more than once), `dropped` (given up where the
  code provides for it), `seen` (the faults so far).
* Android and boot loader: `WriteCommand`, `WriteScript`, `AndroidReboots`,
  `BootRecovery`, `BootAndroid`.  The boot loader is not part of the repository and
  is modelled from how the code uses it.
* `ReadArgs`, `EraseBCB`, `WriteBCB`: get_args.  `Format_SDCard`,
  `Insert_ORS_Command`: main.  `ClearBCB`, `UnlinkCommand`: Update_Log_File.
  `RunLine`, `EndScript`: run_script_file.  `CopyScript`, `DeleteScript`,
  `NoScript`: check_for_script_file.  `Decide`, `UserReboots`, `Tw_Reboot`,
  `Restart`, `HotReboot`: the ways out.  `Partition_SDCard`, `Partition_SetMsg`: the
  message sdcard partitioning leaves.
* Environment: `PowerFails` (/tmp is lost), `ProcessDies` (init starts recovery
  again, /tmp stays).

The four ways a command is given up in `Accounted`: a later insertion replaced it,
a line before it failed, power failed while only /tmp had it, or a format of /cache
took it.  The third is what the violation run `boot_command_interrupted` is about.

### MtdBlocks and MtdStream

One raw NAND partition and the programs that use it.  Offsets count erase blocks,
lengths count units, `E` to a block.

* State: `flash` (contents of each block, or `Torn`: a block whose read reports an
  ECC failure), `bad` (what the driver calls bad), the offsets `off` and `pos`, the
  write context (`stored`, `data`, `block`, `retry`) and the read context (`ready`,
  `want`, `got`).  History: `at`
  and `written` (which blocks were written, and with what), `from` (which blocks a
  reader took), `quiet` and `rquiet` (no driver failure so far).
* Writers: `FlashImage`, `WriteToPartition` (applypatch), `SetBootloaderMsg`,
  `EraseImage`.  They share `Coalesce` and `WriteDirectly` (the two paths of
  mtd_write_data), `FindBlock`, `EraseBlock`, `Program`, `Retry`, `GiveUp`
  (write_block with its second try), `EraseRest` (mtd_erase_blocks), `Flush` and
  `Close`.
* Readers: `DumpImage`, `LoadPartitionContents`.  They share `CopyReady`,
  `ReadBlock`, `SkipBlock`, `ReadFails` (mtd_read_data and read_block).
* Environment: the driver may report a block bad, fail an erase, a write, a read or
  the ECC statistics, and power may fail (`Crash`).
* `MtdStream` extends it with the properties that take a partition's contents as one
  stream (`DumpIsComplete`, `LoadedIsPrefix`, `WrittenIsStream`).  `Stream` is the
  reference: a block belongs at the place given by `Rank`, the number of sound blocks
  before it.  It is a definition by counting, independent of how mtdutils scans.

### Pigz and SequentialCompress

`Pigz` is `parallel_compress` with its threads: the main thread reads blocks and
makes jobs, compress threads take them in any order, one write thread writes the
results in order and combines the check values.

* State: per thread a program counter; the pool (`have`, `limit`), use counts
  (`use`), the lists of jobs, the jobs, and who holds the lock of the pool.
* A lock of `yarn.c` is a mutex with a value.  Where a thread holds one lock only,
  possess ... twist is one step; `drop_space` and `get_space` take two, and have a
  step for each (`DropPossess`, `DropPush`, `DropTwist`; `GetNew`, `GetHead`,
  `GetUse`).
* `SequentialCompress` is what this promises: one stream after the other, blocks in
  order, each with the block before as dictionary, check values combined in that
  order.  `Pigz!CompressesInOrder` is that specification under a refinement mapping.

### SdCard

The settings and the card they are kept on.

* State: `values` (memory), `file` (on the card), `disk` (what of it a power failure
  leaves), `cache` (the copy `/cache/recovery/.twrps`); whether the card has a file
  system and is mounted; sd-ext (`ext`, `curFs`, `extMounted`) and the files saved
  from it (`temp`).  History: `wanted` (what the user set), `lost`, `kept` (the file
  that partitioning began with), `excused` (failures that Partition_SDCard went past),
  `had`.
* `SaveMount`, `SaveOpen`, `SaveWrite`: SaveValues, which truncates the file and
  writes it again; a subroutine, `ret` is where it returns.
* `BootCache`, `BootRm`, `BootCard`, `BootDetails`, `BootAgain`, `BootDone`: a start.
  The copy on /cache is preferred and then removed; the fstab line of sd-ext makes
  every start save once.
* `PartCopy`, `PartCopied` (the copy, which may come out short), `PartUnmount` ...
  `PartExt`: Partition_SDCard.  `FSConvert`, `ConvSave`, `ConvFormat`,
  `ConvDetails`, `ConvBack`, `ConvRm`: FSConvert_SDEXT.  `Wipe`, `Wiped`,
  `MountSdcard`, `UnMountSdcard`, `ToggleSdext`: the GUI.
* Environment: `Crash`, `Reboot`, and failing mounts, opens and commands.

`SettingsSurvive` names seven ways in which the code does lose settings, each of them
reached in the model: a power failure leaves a save unfinished (`torn`), or leaves a
copy on /cache that ends between two records and so looks complete (`boundary`); a
start removed the copy before the card had the settings (`consumed`); an older copy
on /cache is preferred to the card (`stale`); the settings were not, or could not be,
written to the card (`unsaved`); a start could not mount what holds them (`unread`);
the card was wiped, or partitioned while the copy did not hold them (`erased`).  A
value of 512 bytes or more is written and refused when it is read.

`CopyGuardsCard` is about Partition_SDCard, which removes the file system that holds
the settings.  From the copying on, the copy on /cache is the whole file, until the new
file system holds the settings.  It names the four failures that the code does not look
at, each of them reached in the model: the card was not mounted, so that there was
nothing to copy (`unmounted`); /cache could not be mounted (`no_cache`); the copy came
out short (`short`); the new file system was not unmounted (`umount`).  A save that
failed is in `lost` (`unsaved`).

### MC and proof modules

`MCApplyPatch`, `MCNandroid`, `MCBootCommand`, `MCMtdBlocks`, `MCPigz` and `MCSdCard`
hold the values of the constants for TLC; the modules ending in `Proofs` hold the
theorems.

## Runs

| run | checks | shows |
|---|---|---|
| applypatch_files | TypeOK, Recoverable, DoneMeansPatched, Completes, UpdatesAtomically | wherever the power fails, every file can still be patched; a finished script has patched them all; the last run finishes unless an operation fails in it; the whole implements `AtomicUpdate` |
| applypatch_partitions | DoneMeansPatched, BackedUpWhileFlashing, PatchedStaysPatched | the same for partitions; the old contents are on /cache while a partition is overwritten; nothing patched is touched again |
| nandroid_round_trip | TypeOK, BackupIsComplete, AllMatchBeforeWipe, RestoredIsWhatWasSaved, OnlyFittingRestored | a restore that succeeds gives what was saved, checks all digests first, and changes only what fits, or what cLK was asked for before another request replaced it |
| nandroid_rot | NoRotRestored | what decayed on the storage does not reach a partition, also when children fail halfway or before they write anything, and with split archives |
| boot_command | TypeOK, AtMostOnce, Accounted, StartupEnds | no command runs twice, none disappears, recovery reaches its GUI or Android |
| mtd_blocks | TypeOK, DumpIsComplete, LoadedIsPrefix, WrittenIsStream, AgreeOnBlocks, OperationsEnd | writers and readers use the same blocks; an image reported as written reads back; a dump has every readable block once; every program ends |
| pigz_compress | TypeOK, PoolIsFree, JobsAreAllocated, AssertsHold, CompressesInOrder, Completes | no buffer or job is reused while a thread looks at it; the assertions of the source hold; the output is the sequential one; nobody waits for ever |
| sdcard | TypeOK, SettingsSurvive, CopyGuardsCard, CopyRemovedWhenSafe | settings survive unless one of the seven losses was met; the copy on /cache covers the time in which the card has no file system, unless one of four ignored failures happened |
| four violation runs | one property each | see the next section |

### Bounds, and why they are enough

* ApplyPatch: three files in place, the first with two accepted versions, and three
  starts of the script: the rescue copy can be left by one file, found by a second
  and overwritten by a third.  The partition script has a partition as a source
  twice, a partition patched in place and a file made from a partition; two starts.
  All six faults.
* Nandroid: /system with a sub-partition, alone or with /data and /boot, so that two
  partitions ask cLK for room and a third makes the restore go on (in nandroid_rot:
  three partitions, one empty and one split in two), two versions of contents,
  boot loaders cLK and MAGLDR (Haret in nandroid_rot), all three size relations for
  /system and /data,
  `MaxOps` 4: a backup, a change or decay, an interrupted restore and a second
  restore.  Versions are symmetric, since the code never compares two of them
  except for equality.
* BootCommand: two requests out of sets of arguments and scripts that contain a
  line that always succeeds, one that may fail, one that always fails, one that
  formats /cache and a sideload; two faults out of all nine: a fault,
  and a second one while the program recovers from it, in any order and place.
* MtdBlocks: three blocks of two units, any of them bad; images of less than a block,
  of one and a half and of nearly the whole partition, so that the coalescing buffer,
  the direct path and running out of good blocks all happen; two driver failures or
  power cuts of six kinds: a retry that fails again, or a failure and one while the
  next program deals with what it left.
* Pigz: two compress threads and the write thread; three buffers, fewer than
  `INBUFS(2)` allows, so that everybody waits for everybody; three streams of five, no
  and three blocks, so that buffers are reused within a stream, an empty stream
  happens and threads are kept for the next stream.  Three threads with streams of
  five, no and two blocks also pass, in about three minutes.
* SdCard: two settings, since a file can then be cut before, between and after
  records; an ordinary value and one too long to be read back; two faults, such as a
  save that fails and a power failure, or a power failure in the start that follows
  one.  All seven losses occur with two.  512 bytes
  of value and the sizes in megabytes are to scale.
* Deadlock is checked for BootCommand, MtdBlocks and SdCard, whose users can always do
  something more.  A script, a sequence of operations and pigz end, so the other
  configurations do not check it; for pigz `Completes` says more.

### Fairness

* `ApplyPatch!FairSpec`: weak fairness of `Step`.  The updater is one process that
  runs on until it is done, fails or loses power; restarts are not fair and bounded.
* `BootCommand!FairSpec`: weak fairness of `Startup`, the steps of the recovery
  process and of the boot loader, which need nobody.  Android, the user and the
  faults need not act.

* `MtdBlocks!FairSpec`: weak fairness of the running program.  Its steps are system
  calls that return; nobody has to start the next program.
* `Pigz!FairSpec`: weak fairness of each thread.  The scheduler runs every thread that
  is not blocked; which of several waiting threads gets a lock is left open, and
  weak fairness is enough since no lock is taken and released for ever while another
  waits for it.

The other runs use `Spec` without fairness.  SdCard has no liveness property: each of
its operations is a straight line, so that ending would hold by the shape of the model.

## What disagrees with the repository's own words

Each of these runs states what a comment or a test of a result in the repository
says, and TLC finds a behaviour of the code that does not do so.

| run | property | what happens |
|---|---|---|
| applypatch_boot_interrupted | Recoverable | a partition write is cut off; the next run uses the rescue copy as its source and then saves "the source" over it, with no data: the only copy is truncated (`applypatch.c:855`; "idempotent", `applypatch.c:686`) |
| nandroid_child_fails | BackupIsComplete | the child that archives /data stops in the middle; it is taken for a successful one, the torn archive gets a digest that matches it and the backup returns true (`twrpTarold.cpp:139`, `twrp-functions.cpp:1630`) |
| boot_command_interrupted | RestartsErase | the boot command is erased before the script made from it has run (`twrp.cpp:369`; "must be safely restartable at any point", `recovery.cpp:113`) |
| sdcard_convert | ConversionKeepsData | FSConvert_SDEXT unmounts sd-ext before it measures and copies what is under its mount point: it saves nothing, formats, and copies nothing back, without any failure (`partitionmanager.cpp:2863`; "without losing any data if there is enough space", `src/README.md:23`) |

Two more disagreements are visible in the models and have no run of their own.  With
little room applypatch deletes the source although the target is another file
(`applypatch.c:903`, against "is NOT deleted on success", `applypatch.c:699`): a
`Script` with a call whose target differs from its source, and the fault "space".  A
split archive that lost one of its files passes the digest check (`partition.cpp:2656`,
against "ensure that all of them match before starting a restore",
`partitionmanager.cpp:971`): `AllMatchBeforeWipe` with an archive of three pieces and
the fault "lose".

The properties that hold are stated with these cases left out where they concern
them: `NeverLosesSource` is about scripts that patch files in place, `RoundTrip`
about children that do not fail and archives that are not split, and so on.

## Hazards without a property

`PROJECT.json` lists the hazards that matter most, with the properties that cover them.
The following were met while modelling, and no property is about them.

* `partitionmanager.cpp:1085`: a boot archive is rebuilt as an image, with a digest of
  its own, before its digest was checked.
* `partition.cpp:2422`: the result of wiping sd-ext before a restore is ignored.
* `partitionmanager.cpp:717`: a fork that fails looks like an empty partition.
* `twrpDigest.cpp:83`: a `.md5` file that could not be written is not noticed.
* `openrecoveryscript.cpp:55`: a script is deleted although its copy failed.
* `partitionmanager.cpp:2738`: the control block message of Partition_SDCard shadows the
  command file at the next start.
* `data.cpp:243`: Detect_BLDR tests a status that does not depend on what grep found.
* `clkpartmgr.c:58`: power fails between the erase and the write of the control block.

The steps in `partitionmanager.cpp`, `partition.cpp`, `openrecoveryscript.cpp` and
`clkpartmgr.c` are part of the models, whose properties are stated so that they do not
depend on them.

## Proofs

All theorems hold for every value of the constants that satisfies the module's
named assumption on them: any number of files, partitions, blocks, settings,
requests, restarts, faults.

### ApplyPatchProofs

* `TypeCorrect`: `TypeOK`, with the strengthening that a step about to unlink is
  about a file, not a partition (`TypeInv`).
* `BacksUpWhileFlashing`: `BackedUpWhileFlashing`, for any script.  `BackupInv` says
  it of every step from the one at which the copy on /cache is complete: from there to
  the end of the flashing nothing writes the copy.
* `DoneIsPatched`, `PatchedStays`: `DoneMeansPatched` and `PatchedStaysPatched`, for
  scripts in which no call undoes another one (`OwnTargets`: every call has its own
  target, no file that one call makes is another's source, and a partition is named
  with the contents it is to get).  `MadeInv`: the calls before the current one are
  made, and only a target that is not made is ever written, because applypatch first
  looks whether it has the contents already.
* `NeverLosesSource`: `Recoverable` for `InPlaceScript`, a script each of whose calls
  patches a file of its own in place.

`Recoverable` is not inductive: that some file's old contents are on /cache says
nothing about who may overwrite them.  `IInv` adds `Frontier` (at most one file
depends on the rescue copy, and all files before it are patched), `Progress` (files
before the current call are patched), `SourceIntact` (what GenerateTarget holds in
memory is still what the file holds, and has been saved before the file is
unlinked), `Alone` (when the rescue copy is written no other file needs it) and
`OutputVerified` (what is renamed into place has the promised contents).  The crux
is `Alone`: the order in which a restarted script runs makes the file that needs the
copy the first that is not patched.

* `ImplementsAtomicUpdate`: for the same scripts `Spec => UpdatesAtomically`.  Under
  `IInv` a step either leaves all versions as they are (crashes and failures
  included) or makes the first old file new; "lost" never occurs.

### NandroidProofs

* `TypeCorrect`: the positions stay inside list, sub-partitions and archive.
* `MatchBeforeWipe` (no split archive): from `VerifiedInv`, what the first pass did
  not skip it verified, sub-partitions included, and nothing between the passes
  changes a file, a digest or the list.
* `RotIsNotRestored` (no converted boot archive): `NoRotInv` adds that no digest is
  one of a decayed file, that a running backup has no decayed file, and that the
  files of a split archive before the current one exist, which is why the current
  one was compared.
* `RoundTrip` (`SoundSetting`: no failing child, no split or converted archive, no
  partition of class "ext", MD5 check on): `SavedInv` says that digests are of what
  the last backup found, `DoneInv` that the units the second pass has left behind
  hold it; `DoneUnits` is what makes the loop over partitions and sub-partitions
  inductive.
* `BackupCompletesAll` (`CompleteSetting`: no failing child, every digest can be made,
  and no listed partition that is found empty has sub-partitions, which Run_Backup
  would leave out): `BackupIsComplete`, from `LoopInv`, which says of each place in
  Run_Backup's three nested loops which units are archived and which have digests.
* `OnlyFittingIsRestored` (`FittingSetting`: the message for cLK can be left, and no
  sub-partition is of a class whose size is compared): `OnlyFittingRestored`, from
  `FitInv`: after the first pass each partition fits, is skipped, is among those that
  cLK is asked to resize, or asked before another partition's request replaced its own
  (`RequestReplaced`: `data_size` is assigned, not appended to,
  `partitionmanager.cpp:1046`).  Of a restore outside these conditions the theorem says
  nothing.

### BootCommandProofs

* `TypeCorrect`.
* `RunsAtMostOnce`: `AtMostOnce` for any number of requests and power failures.
  `NumberInv` numbers the commands, so that a new request differs from all old ones;
  `OnceInv` says that what is stored or still to be run was never started.
* `NothingGoesAstray`: `Accounted`.  `CopiesInv`: the command file holds what the
  control block holds until both are erased; `SettledInv`: what a step is about to
  forget was run or given up.

The two properties exempt runs in which certain faults happened; the invariants are
therefore of the form "no such fault yet => ...", and `SeenGrows` (the set of faults
seen only grows) carries them over a step.

### MtdBlocksProofs and MtdStreamProofs

For every size of partition and block, every set of bad blocks and every image.

* `TypeCorrect`: no buffer holds more than a block, no position passes the end, and
  write_block works on good blocks inside the partition only.
  `CallInv` says what write_block is called with, at each place it returns to.
* `ReadersFindWrites`: `AgreeOnBlocks`.  The property speaks of two finished
  sequences of blocks; `BlocksInv` says that each is what a scan up to the current
  position must give: `WrittenInv` (what was written is behind the writer and still
  there), `NoGapInv` (a writer that met no failure left out bad blocks only),
  `ReaderInv` (a reader that met none left out only what cannot be read).  Two
  ascending enumerations of the same blocks agree position by position.
* `DumpsWholePartition`, `LoadsPrefix`: `DumpIsComplete`, `LoadedIsPrefix`.
  `DeliverInv`: what a reader that met no failure has given to its caller, has read
  and still has in its buffer is, unit by unit, the blocks read_block returned, and
  read_block is called only when the buffer is empty.  `ResultInv` says what is left
  of this when the reader has ended.
* `WritesImage`: `WrittenIsStream`.  `FlowInv` follows an image that fits through
  mtd_write_data: the blocks written are its beginning (`ImageInv`); what is in the
  buffer, in the caller's data and in flash_image's file is the rest (`LeftInv`); what
  mtd_erase_blocks has passed is erased (`EraseInv`).  It also shows that write_block
  does not run out of blocks.  `ToldInv`: a program that reports its image has written
  all of it.

The invariants of MtdBlocksProofs speak of blocks and units, with multiplication and
division by `E`; MtdStreamProofs turns them into statements on the stream.  `ListedRank`:
in an ascending list that leaves out no sound block before its last one, the k-th block
has rank k - 1, because the list is a bijection to the blocks that are counted.
`Ranked`: each place is some block's, because ranks are an injection between finite
sets of equal size.  `AllUsed`: a writer at the end of the partition has used as many
blocks as there are good ones.

### PigzProofs and PigzPoolProofs

For any number of compress threads, any limit of the pool of input buffers and any
sequence of streams (at least one: without any parallel_compress is not called).

PigzProofs shows `ControlInv`: where each job is.  It is with the main thread, then on
the list `compress`, with one compress thread, on the list `write` and with the write
thread, while that compress thread keeps it for the check value; the lists hold no job
twice (`JobInv`, `ListInv`, `StageInv`);
`MainInv` relates the main thread to the two kinds of others, `DropInv` says what each
thread can be about to drop.

PigzPoolProofs shows the rest of the inductive invariant, `PoolInv`:

* `UseInv`: a use count is the number of places that hold the buffer.  A place is a
  job's input (`InSpace`), a job's dictionary (`OfSpace`), a compress thread between
  the insertion of its job and its check value (`CheckSpace`), or a thread within
  drop_space (`DropSpace`).  Each step gains one place, loses one, passes a buffer from
  one to another, or does none of these (`Gains`, `Loses`, `Passes`); the count follows
  by adding an element to a finite set or removing one.  `OutInv` does the same for
  the output buffers.
* `LocksInv`, `PushInv`, `HaveInv`: drop_space puts a buffer on the list of the pool
  before it lowers the count, so for a moment a buffer on the list is still counted; it
  is then locked by the thread that is letting go of it, which get_space waits for.
* `Content`: what each buffer, job and thread holds, as a block of the stream;
  `ResultInv`: how much is written and checked.

From these:

* `TypeCorrect`, `FreeIsUnused`, `JobsStayAllocated`, `AssertionsHold`: `TypeOK`,
  `PoolIsFree`, `JobsAreAllocated`, `AssertsHold`.  The last of the assertions, that
  all buffers have come back when the pools are freed, needs the count: with nobody
  holding anything all counts are zero, and the list has every buffer that was made.
* `ImplementsSequential`: `Spec => CompressesInOrder`.  A stream begins when its write
  thread is launched and ends when it is joined; in between, the write thread's writes
  and combinations are the steps of `SequentialCompress`, and everything else is a
  stutter.

### SdCardProofs

For any number of settings, values and faults.

* `TypeCorrect`.
* `Survives`: `SettingsSurvive`, for any number of faults (the run has two).
  `SurviveInv` adds to the invariants below `MediumInv` (a card without a file system
  is not mounted and holds nothing), `MisleadInv` (a copy on /cache that a start would
  take for the settings and that is not them is a known loss) and `KnownInv`: as long
  as nothing is lost the card or the copy has the settings, whatever step comes next,
  and a start that goes on to the card has found no copy to load.
* `CopyGuards`: `CopyGuardsCard`, from `CopyInv`: while the file is being copied the
  mounted card still has the file that is to be kept, and SaveValues returns to one of
  six places, so that a save within partitioning is told from any other;
  that the new file system holds the settings when the copy goes is `RemovalInv`.
* `RemovedWhenSafe`: `CopyRemovedWhenSafe`, from `RemovalInv`: files have at most
  `Names` records; when a start is about to remove the copy, memory holds its records;
  after a start `values = wanted`; when partitioning is about to remove it, the card
  has the settings, or a save failed.

### Only model-checked

* `Completes` (ApplyPatch and Pigz), `StartupEnds`, `OperationsEnd`: liveness under
  fairness is outside the prover.
* The violations: each is one behaviour of a small instance.

Every other property of a passing run is a theorem.  No module uses recursive
operators.

## What is not modelled

* Contents below the level of "this value, or something else": decoders of patches,
  tar and image formats, MD5 and SHA-1 are taken as functions with an outcome.  Two
  different contents never have the same digest in the model.
* Which files of /cache `MakeFreeSpaceOnCache` deletes: it makes room or fails.
* In Nandroid: dalvik-cache accounting, data kept on sd-ext, yaffs2 images of other
  recoveries, progress and timing.
* In BootCommand: what a script line does apart from its result and from formatting
  /cache; the decryption page (/data of this device is never encrypted).
* In MtdBlocks: the scan of /proc/mtd, mounting, and clkpartmgr's own commands.
* In Pigz: the options -R and -i, zopfli, headers and trailers; a write or allocation
  that fails, after which `bail` ends the process; the reading, writing and checking
  threads of decompression.  `single_compress` is what runs on one core and has no
  threads; on the HD2 itself parallel_compress runs only if `nprocs` reports more.
* In SdCard: sdext2 and swap, which are partitioned and converted as sd-ext is; the
  type of the card's own file system; the rest of Update_System_Details.  Several
  threads change the map of settings without a lock while one saves it: what a walk
  of a `std::map` during an insertion does is undefined, and a model would have to
  invent it.
* Package installation (`twinstall.cpp`, `verifier.cpp`, `minzip/`): a parent and a
  child that talk over a pipe, with no state kept between them; what is installed is
  up to the package.  Of `updater/` and `edify/` only the order of apply_patch calls is
  modelled: the other functions are single system calls.
* ADB sideload: a child receives a file, the GUI may cancel it.
* The GUI's threads (rendering, input, actions, curtain, blank timer) share data
  without locks, or unlock what `trylock` did not get them, which is undefined; what
  they decide is what is on the screen.
* nativeSD: archives and digests made by the operations of Nandroid, and shell
  commands.  The USB mass-storage LUN: one write to a file of the kernel, whose other
  side is the host.
* The parts without a protocol of their own: drawing and input, decryption (/data of
  this device is never encrypted), back ends for other flash types, fix permissions,
  stand-alone tools, patch decoders, and the third-party libraries (libblkid, fuse,
  exfat, dosfstools, f2fs-tools, libtar, openaes, libmincrypt, rapidxml), which are
  most of the lines of the repository.
* `recovery.cpp` and `twrpTar.cpp` are in the repository and not part of the build for
  this device.  The comments of `recovery.cpp` are used as a statement of intent.

## Running it

In this directory: `tlc -config BootCommand.cfg MCBootCommand` (and so on, see the
runs in `PROJECT.json`), `tlapm BootCommandProofs.tla`.
