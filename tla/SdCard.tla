------------------------------- MODULE SdCard -------------------------------
(***************************************************************************)
(* The SD card and what the recovery keeps on it: the settings file         *)
(* (data.cpp: ReadSettingsFile, LoadValues, SetValue, SaveValues,           *)
(* ResetDefaults), and the operations that format the card under it         *)
(* (partitionmanager.cpp: Partition_SDCard, FSConvert_SDEXT, and the wipe   *)
(* action of gui/action.cpp), with power failures, reboots and failing      *)
(* mounts.                                                                  *)
(*                                                                          *)
(* Settings live in memory, in /sdcard/TWRP/.twrps, which SaveValues        *)
(* truncates and writes again, and, while the card is partitioned, in a     *)
(* copy /cache/recovery/.twrps, which the next start prefers.               *)
(*                                                                          *)
(* The action thread runs one operation at a time; SaveValues is called     *)
(* from many places, so it is a subroutine here: ret is where it returns.   *)
(****************************************************************************)
EXTENDS Naturals, Sequences

CONSTANTS
  Names,        \* how many persisted settings there are
  Values,       \* what the user sets them to
  TooLong,      \* the values of 512 bytes and more, which LoadValues refuses
  ExtSize,      \* megabytes of files on sd-ext
  Free,         \* SDCard->Free
  MaxFaults     \* bound on power failures and failing mounts and commands

ASSUME SdCardAssumption ==
  /\ Names \in Nat \ {0} /\ TooLong \subseteq Values
  /\ ExtSize \in Nat /\ Free \in Nat /\ MaxFaults \in Nat

Default == "default"
Value == Values \cup {Default}
Width == 2^12     \* stands for the 2^64 of unsigned long long
Reserve == 32     \* megabytes FSConvert_SDEXT keeps free

\* A settings file: its records, and whether it ends with one of them.
NoFile == [recs |-> <<>>, clean |-> FALSE, exists |-> FALSE]
Empty == [recs |-> <<>>, clean |-> FALSE, exists |-> TRUE]
FileOf(v) == [recs |-> v, clean |-> TRUE, exists |-> TRUE]
\* What a power failure can leave of a file that is being written.
Torn(f) ==
  IF ~f.exists THEN {f}
  ELSE {f, Empty} \cup {[recs |-> SubSeq(f.recs, 1, k), clean |-> c, exists |-> TRUE] :
                           k \in 0..(Len(f.recs) - 1), c \in BOOLEAN}
File == [recs : UNION {[1..k -> Value] : k \in 0..Names}, clean : BOOLEAN, exists : BOOLEAN]

VARIABLES
  pc, ret,              \* where the operation is, and where SaveValues returns to
  values, read, second, \* mValues' persisted part; SettingsFileRead; the second try of a start
  card, mounted,        \* whether the card has a file system; whether it is mounted
  file, disk, cache,    \* .twrps on the card, what of it is safe on the medium, the copy
  ext, curFs, extMounted, temp, restore,   \* sd-ext: files, type, mounted; TWRP/temp
  fmt, done,            \* the file system asked for; SD_Partitioning_Done_Once
  faults,
  wanted, lost,         \* history: the settings the user made; why they may be gone
  kept, excused,        \* history: the file partitioning began with; what went wrong with
                        \* its copy without Partition_SDCard taking notice
  had                   \* history: files to rescue

mem == <<values, read, second>>
sd == <<card, mounted, file, disk>>
extvars == <<ext, curFs, extMounted, temp, restore, fmt, done>>
history == <<wanted, lost, kept, excused, had>>
vars == <<pc, ret, mem, sd, cache, extvars, faults, history>>

Settings == [1..Names -> Value]
Defaults == [i \in 1..Names |-> Default]

TypeOK ==
  /\ pc \in {"boot_cache", "boot_rm", "boot_card", "boot_details", "boot_again", "boot_done",
             "idle", "save_mount", "save_open", "save_write", "part_copied", "part_umount",
             "part_table", "part_fs", "part_mount", "part_rm", "part_ext",
             "wiped", "details", "reboot", "conv_save", "conv_format", "conv_details",
             "conv_back", "conv_rm"}
  /\ ret \in {"boot_again", "idle", "part_rm", "details", "reboot", "conv_back"}
  /\ values \in Settings /\ read \in BOOLEAN /\ second \in BOOLEAN
  /\ card \in {"vfat", "blank"} /\ mounted \in BOOLEAN
  /\ file \in File /\ disk \in File /\ cache \in File
  /\ ext \in {"user", "none"} /\ temp \in {"user", "none"}
  /\ curFs \in {"ext4", "nilfs2"} /\ fmt \in {"ext4", "nilfs2"}
  /\ extMounted \in BOOLEAN /\ restore \in BOOLEAN /\ done \in BOOLEAN /\ had \in BOOLEAN
  /\ faults \in 0..MaxFaults
  /\ wanted \in Settings /\ kept \in File
  /\ excused \subseteq {"unmounted", "no_cache", "short", "umount"}
  /\ lost \subseteq {"torn", "boundary", "consumed", "stale", "unsaved", "unread", "erased"}

Init ==
  /\ pc = "boot_cache" /\ ret = "idle"
  /\ values = Defaults /\ read = FALSE /\ second = FALSE
  /\ card = "vfat" /\ mounted = FALSE /\ file = NoFile /\ disk = NoFile /\ cache = NoFile
  /\ ext \in {"user", "none"} /\ curFs = "ext4" /\ extMounted = FALSE
  /\ temp = "none" /\ restore = FALSE /\ fmt = "ext4" /\ done = FALSE /\ had = FALSE
  /\ faults = 0 /\ wanted = Defaults /\ lost = {} /\ kept = NoFile
  /\ excused = {}

Fault == faults < MaxFaults /\ faults' = faults + 1
-----------------------------------------------------------------------------
\* SaveValues.  The card is mounted if it is not, else nothing is saved ...
Call(r) == pc' = "save_mount" /\ ret' = r
\* Settings that are right in memory are at risk unless ok holds.
Unless(ok, why) == IF ok \/ values # wanted THEN {} ELSE {why}

Return == pc' = ret /\ ret' = "idle"

CanMount == card = "vfat"

SaveMount ==
  /\ pc = "save_mount"
  /\ \/ /\ mounted \/ CanMount
        /\ mounted' = TRUE /\ pc' = "save_open" /\ UNCHANGED <<ret, lost, faults>>
     \/ /\ ~mounted /\ ((~CanMount /\ UNCHANGED faults) \/ Fault)
        /\ Return /\ lost' = lost \cup Unless(FALSE, "unsaved") /\ UNCHANGED mounted
  /\ UNCHANGED <<mem, card, file, disk, cache, extvars, wanted, kept, excused, had>>

\* ... the file is truncated ...
SaveOpen ==
  /\ pc = "save_open"
  /\ \/ /\ file' = Empty /\ pc' = "save_write"
        /\ UNCHANGED <<ret, lost, faults>>
     \/ /\ Fault
        /\ Return /\ lost' = lost \cup Unless(FALSE, "unsaved") /\ UNCHANGED file
  /\ UNCHANGED <<mem, card, mounted, disk, cache, extvars, wanted, kept, excused, had>>

\* ... and written.  A copy left on /cache stays as it is: where it says something else,
\* the next start reads that.
Stale == IF cache.exists THEN {"stale"} ELSE {}
Lasting == IF cache.exists THEN {"stale", "boundary"} ELSE {}

\* Mutant: the names that are not persisted are saved too.
SaveWriteVolatile ==
  /\ pc = "save_write"
  /\ file' = FileOf(values \o <<Default>>)
  /\ Return
  /\ UNCHANGED <<mem, card, mounted, disk, cache, extvars, faults, history>>

SaveWrite ==
  /\ pc = "save_write"
  /\ file' = FileOf(values)
  /\ lost' = IF values # wanted THEN lost ELSE lost \cap Lasting
  /\ Return
  /\ UNCHANGED <<mem, card, mounted, disk, cache, extvars, faults, wanted, kept, excused, had>>

\* SetValue of a persisted name.  A copy left on /cache is not brought up to date.
SetValue(i, v) ==
  /\ pc = "idle"
  /\ values' = [values EXCEPT ![i] = v] /\ wanted' = values'
  /\ lost' = lost \cup Stale \cup {"unsaved"}
  /\ Call("idle")
  /\ UNCHANGED <<read, second, sd, cache, extvars, faults, kept, excused, had>>

\* ResetDefaults: the file goes, and the first name that is set writes a new one.
ResetDefaults ==
  /\ pc = "idle"
  /\ mounted' = (mounted \/ CanMount)
  /\ file' = IF mounted' THEN NoFile ELSE file
  /\ values' = Defaults /\ wanted' = Defaults
  /\ lost' = lost \cup Stale \cup {"unsaved"}
  /\ Call("reboot")
  /\ UNCHANGED <<read, second, card, disk, cache, extvars, faults, kept, excused, had>>
-----------------------------------------------------------------------------
\* ReadSettingsFile.  LoadValues takes the records up to one that is too long or torn.
Reached(f, i) == i <= Len(f.recs) /\ \A j \in 1..i : f.recs[j] \notin TooLong
LoadValues(f) == [i \in 1..Names |-> IF Reached(f, i) THEN f.recs[i] ELSE values[i]]
Loads(f) == f.clean /\ \A j \in 1..Len(f.recs) : f.recs[j] \notin TooLong
Misleads(f) == Loads(f) /\ f # FileOf(wanted)

\* Mutant: what LoadValues returns is not looked at.
BootCacheUnchecked ==
  /\ pc = "boot_cache"
  /\ IF cache.exists
       THEN values' = LoadValues(cache) /\ read' = TRUE /\ pc' = "boot_rm"
       ELSE pc' = "boot_card" /\ UNCHANGED <<values, read>>
  /\ UNCHANGED <<ret, second, sd, cache, extvars, faults, history>>

\* The copy on /cache is tried first ...
BootCache ==
  /\ pc = "boot_cache"
  /\ \/ /\ cache.exists
        /\ values' = LoadValues(cache)
        /\ pc' = IF Loads(cache) THEN "boot_rm" ELSE "boot_card"
        /\ read' = Loads(cache)
        /\ UNCHANGED <<lost, faults>>
     \/ /\ ~cache.exists /\ pc' = "boot_card" /\ UNCHANGED <<values, read, lost, faults>>
     \/ /\ cache.exists /\ Fault /\ pc' = "boot_card"
        /\ lost' = lost \cup {"unread"} /\ UNCHANGED <<values, read>>
  /\ UNCHANGED <<ret, second, sd, cache, extvars, wanted, kept, excused, had>>

\* ... and removed when it could be read; from here the settings are in memory only.
BootRm ==
  /\ pc = "boot_rm"
  /\ cache' = NoFile
  /\ lost' = lost \cup Unless(file = FileOf(values), "consumed")
  /\ mounted' = (mounted \/ CanMount)
  /\ pc' = IF second THEN "boot_done" ELSE "boot_details"
  /\ UNCHANGED <<ret, mem, card, file, disk, extvars, faults, wanted, kept, excused, had>>

BootCard ==
  /\ pc = "boot_card"
  /\ \/ /\ CanMount /\ mounted' = TRUE
        /\ values' = LoadValues(file) /\ read' = Loads(file)
        /\ UNCHANGED <<lost, faults>>
     \/ /\ ~mounted /\ ((~CanMount /\ UNCHANGED <<lost, faults>>)
                        \/ (Fault /\ lost' = lost \cup {"unread"}))
        /\ UNCHANGED <<mounted, values, read>>
  /\ pc' = IF second THEN "boot_done" ELSE "boot_details"
  /\ UNCHANGED <<ret, second, card, file, disk, cache, extvars, wanted, kept, excused, had>>

\* The line of /sd-ext comes later in the fstab than the line of the card: it sets
\* TW_HAS_SDEXT_PARTITION, which is persisted, so that every start saves the settings.
BootDetails ==
  /\ pc = "boot_details" /\ Call("boot_again")
  /\ UNCHANGED <<mem, sd, cache, extvars, faults, history>>

\* twrp.cpp reads the settings again if they were not.
BootAgain ==
  /\ pc = "boot_again"
  /\ second' = TRUE
  /\ pc' = IF read THEN "boot_done" ELSE "boot_cache"
  /\ UNCHANGED <<ret, values, read, sd, cache, extvars, faults, history>>

BootDone ==
  /\ pc = "boot_done" /\ pc' = "idle"
  /\ wanted' = values /\ second' = FALSE
  /\ lost' = (IF file = FileOf(values) THEN {} ELSE {"unsaved"})
             \cup (IF Loads(cache) /\ cache # FileOf(values) THEN {"stale"} ELSE {})
  /\ UNCHANGED <<ret, values, read, sd, cache, extvars, faults, kept, excused, had>>
-----------------------------------------------------------------------------
\* Update_System_Details: the card is mounted to see what is free on it, and with
\* files on sd-ext TW_HAS_SDEXT_PARTITION is set, and saved.
Details(r) ==
  /\ mounted' = (mounted \/ CanMount)
  /\ IF ext = "user" THEN Call(r) ELSE pc' = r /\ UNCHANGED ret

UpdateDetails ==
  /\ pc = "details" /\ Details("idle")
  /\ UNCHANGED <<mem, card, file, disk, cache, extvars, faults, history>>

\* Partition_SDCard.  With sd-ext unmounted, the settings file is copied to /cache, if
\* /cache can be mounted ...
PartCopy ==
  /\ pc = "idle" /\ ~done
  /\ \/ /\ extMounted' = FALSE /\ cache' = Empty /\ pc' = "part_copied"
        /\ kept' = file /\ excused' = IF mounted THEN {} ELSE {"unmounted"}
        /\ lost' = IF file = FileOf(wanted) THEN lost \ {"stale"} ELSE lost \cup {"erased"}
        /\ UNCHANGED faults
     \/ /\ Fault /\ extMounted' = FALSE /\ pc' = "part_umount"
        /\ kept' = file /\ excused' = {"no_cache"} /\ UNCHANGED <<cache, lost>>
     \/ /\ Fault /\ extMounted /\ UNCHANGED <<extMounted, pc, cache, kept, excused, lost>>
  /\ UNCHANGED <<ret, mem, sd, ext, curFs, temp, restore, fmt, done, wanted, had>>

\* What copy_file makes of the file: an empty one where there is nothing to copy.
Copy == IF mounted /\ file.exists THEN file ELSE Empty
Misleading(why) == IF Misleads(cache') THEN {why} ELSE {}

\* Mutant: the card is unmounted before the file is copied.
PartCopiedLate ==
  /\ pc = "part_copied" /\ pc' = "part_umount"
  /\ cache' = Empty
  /\ UNCHANGED <<ret, mem, sd, extvars, faults, history>>

\* ... by copy_file, which does not look at its streams: where /cache is full the copy
\* is short.
PartCopied ==
  /\ pc = "part_copied" /\ pc' = "part_umount"
  /\ \/ /\ cache' = Copy /\ lost' = lost \cup Misleading("stale")
        /\ UNCHANGED <<excused, faults>>
     \/ /\ Fault /\ cache' \in Torn(Copy) \ {Copy} /\ lost' = lost \cup Misleading("boundary")
        /\ excused' = excused \cup {"short"}
  /\ UNCHANGED <<ret, mem, sd, extvars, wanted, kept, had>>

\* Partition_SDCard returns; the copy stays.
GiveUp(to) == pc' = to /\ kept' = NoFile /\ excused' = {}

\* The card is unmounted, or nothing is done to it.
PartUnmount ==
  /\ pc = "part_umount"
  /\ \/ /\ mounted' = FALSE /\ disk' = file /\ pc' = "part_table"
        /\ UNCHANGED <<kept, excused, faults>>
     \/ mounted /\ Fault /\ GiveUp("idle") /\ UNCHANGED <<mounted, disk>>
  /\ UNCHANGED <<ret, mem, card, file, cache, extvars, wanted, lost, had>>

\* The checks of sizes and types, then the old table goes, and all partitions with it.
\* Only a fork that fails is noticed (Wait_For_Child); a parted that fails is not.
Refused ==
  /\ pc = "part_table" /\ GiveUp("idle")
  /\ UNCHANGED <<ret, mem, sd, cache, extvars, faults, wanted, lost, had>>

PartTable ==
  /\ pc = "part_table"
  /\ \/ /\ card' = "blank" /\ file' = NoFile /\ disk' = NoFile /\ ext' = "none" /\ temp' = "none"
        /\ lost' = IF cache = FileOf(wanted) THEN lost ELSE lost \cup {"erased"}
        /\ pc' = "part_fs" /\ UNCHANGED <<kept, excused, faults>>
     \/ /\ Fault /\ \/ pc' = "part_fs" /\ UNCHANGED <<kept, excused>>
                    \/ GiveUp("details")
        /\ UNCHANGED <<card, file, disk, ext, temp, lost>>
  /\ UNCHANGED <<ret, mem, mounted, cache, curFs, extMounted, restore, fmt, done, wanted, had>>

\* The type of the card's file system is looked at only now.
PartFs ==
  /\ pc = "part_fs"
  /\ \/ card' = "vfat" /\ pc' = "part_mount" /\ UNCHANGED <<kept, excused, faults>>
     \/ Fault /\ pc' = "part_mount" /\ UNCHANGED <<card, kept, excused>>
     \/ GiveUp("idle") /\ UNCHANGED <<card, faults>>
  /\ UNCHANGED <<ret, mem, mounted, file, disk, cache, extvars, wanted, lost, had>>

\* Mutant: the settings are not flushed to the new file system.
PartMountNoFlush ==
  /\ pc = "part_mount"
  /\ IF CanMount THEN mounted' = TRUE /\ pc' = "part_rm" ELSE pc' = "part_ext" /\ UNCHANGED mounted
  /\ UNCHANGED <<ret, mem, card, file, disk, cache, extvars, faults, history>>

PartMount ==
  /\ pc = "part_mount"
  /\ \/ CanMount /\ mounted' = TRUE /\ Call("part_rm") /\ UNCHANGED faults
     \/ /\ (~CanMount /\ UNCHANGED faults) \/ Fault
        /\ pc' = "part_ext" /\ UNCHANGED <<mounted, ret>>
  /\ UNCHANGED <<mem, card, file, disk, cache, extvars, history>>

\* The card is unmounted, and the copy removed.  That umount failed is not noticed.
PartRm ==
  /\ pc = "part_rm" /\ pc' = "part_ext"
  /\ \/ /\ mounted' = FALSE /\ disk' = file /\ UNCHANGED excused
        /\ \/ cache' = NoFile /\ UNCHANGED faults
           \/ Fault /\ UNCHANGED cache
     \/ /\ Fault /\ mounted /\ cache' = NoFile /\ excused' = excused \cup {"umount"}
        /\ UNCHANGED <<mounted, disk>>
  /\ UNCHANGED <<ret, mem, card, file, extvars, wanted, lost, kept, had>>

\* sd-ext is made; if that fails the rest is left to the next start.
PartExt ==
  /\ pc = "part_ext" /\ kept' = NoFile /\ excused' = {}
  /\ \/ /\ \/ ext' = "none" /\ curFs' \in {"ext4", "nilfs2"}
           \/ UNCHANGED <<ext, curFs>>
        /\ done' = TRUE /\ Call("details") /\ UNCHANGED faults
     \/ Fault /\ pc' = "reboot" /\ UNCHANGED <<ret, ext, curFs, done>>
  /\ UNCHANGED <<mem, sd, cache, extMounted, temp, restore, fmt, wanted, lost, had>>
-----------------------------------------------------------------------------
\* The wipe of the card: mkdosfs on the unmounted card, then the settings are flushed.
Wipe ==
  /\ pc = "idle" /\ pc' = "wiped"
  /\ mounted' = FALSE
  /\ \/ /\ card = "vfat"
        /\ file' = NoFile /\ disk' = NoFile /\ temp' = "none"
        /\ lost' = lost \cup {"erased"} /\ UNCHANGED faults
     \/ /\ (card = "blank" /\ UNCHANGED faults) \/ Fault
        /\ disk' = file /\ UNCHANGED <<file, temp, lost>>
  /\ UNCHANGED <<ret, mem, card, cache, ext, curFs, extMounted, restore, fmt, done, wanted, kept, excused, had>>

Wiped ==
  /\ pc = "wiped"
  /\ \/ CanMount /\ mounted' = TRUE /\ Call("details") /\ UNCHANGED faults
     \/ /\ (~CanMount /\ UNCHANGED faults) \/ Fault
        /\ pc' = "details" /\ UNCHANGED <<mounted, ret>>
  /\ UNCHANGED <<mem, card, file, disk, cache, extvars, history>>
-----------------------------------------------------------------------------
\* FSConvert_SDEXT.  sd-ext is unmounted, and then its size is taken.
FSConvert(f, rescue) ==
  /\ pc = "idle"
  /\ extMounted' = FALSE /\ restore' = FALSE
  /\ LET ext_size == IF extMounted' /\ ext = "user" THEN ExtSize ELSE 0
         enough == (Free + Width - Reserve) % Width >= ext_size
     IN  \/ /\ pc' = IF curFs = f THEN "idle"
                     ELSE IF ~rescue THEN "conv_format"
                     ELSE IF CanMount /\ enough THEN "conv_save" ELSE "idle"
            /\ mounted' = (mounted \/ (curFs # f /\ rescue /\ CanMount))
            /\ UNCHANGED faults
         \/ /\ curFs # f /\ rescue /\ ~mounted /\ Fault
            /\ pc' = "idle" /\ UNCHANGED mounted
  /\ fmt' = IF pc' = "idle" THEN fmt ELSE f
  /\ had' = (pc' = "conv_save" /\ ext = "user")
  /\ UNCHANGED <<ret, mem, card, file, disk, cache, ext, curFs, temp, done, wanted, lost, kept, excused>>

\* The files under the mount point are copied to the card; only a failing fork counts.
ConvSave ==
  /\ pc = "conv_save" /\ pc' = "conv_format"
  /\ \/ /\ temp' = IF extMounted THEN ext ELSE temp
        /\ restore' = TRUE /\ UNCHANGED faults
     \/ Fault /\ UNCHANGED <<temp, restore>>
  /\ UNCHANGED <<ret, mem, sd, cache, ext, curFs, extMounted, fmt, done, history>>

ConvFormat ==
  /\ pc = "conv_format" /\ pc' = "conv_details"
  /\ curFs' = fmt /\ fmt' = "ext4"
  /\ \/ ext' = "none" /\ UNCHANGED faults
     \/ Fault /\ UNCHANGED ext
  /\ UNCHANGED <<ret, mem, sd, cache, extMounted, temp, restore, done, history>>

ConvDetails ==
  /\ pc = "conv_details" /\ Details("conv_back")
  /\ UNCHANGED <<mem, card, file, disk, cache, extvars, faults, history>>

ConvBack ==
  /\ pc = "conv_back"
  /\ IF restore
       THEN /\ extMounted' = TRUE /\ pc' = "conv_rm"
            /\ ext' = IF temp = "user" THEN "user" ELSE ext
            /\ UNCHANGED had
       ELSE pc' = "details" /\ had' = FALSE /\ UNCHANGED <<extMounted, ext>>
  /\ UNCHANGED <<ret, mem, sd, cache, curFs, temp, restore, fmt, done, faults, wanted, lost, kept, excused>>

ConvRm ==
  /\ pc = "conv_rm" /\ pc' = "details"
  /\ temp' = "none" /\ restore' = FALSE /\ had' = FALSE
  /\ UNCHANGED <<ret, mem, sd, cache, ext, curFs, extMounted, fmt, done, faults, wanted, lost, kept, excused>>
-----------------------------------------------------------------------------
\* The user's mounts and unmounts; an unmounted card is written back.
MountSdcard ==
  /\ pc = "idle" /\ CanMount /\ ~mounted /\ mounted' = TRUE
  /\ UNCHANGED <<pc, ret, mem, card, file, disk, cache, extvars, faults, history>>

UnMountSdcard ==
  /\ pc = "idle" /\ mounted /\ mounted' = FALSE /\ disk' = file
  /\ UNCHANGED <<pc, ret, mem, card, file, cache, extvars, faults, history>>

ToggleSdext ==
  /\ pc = "idle" /\ extMounted' = ~extMounted
  /\ UNCHANGED <<pc, ret, mem, sd, cache, ext, curFs, temp, restore, fmt, done, faults, history>>

Restart ==
  /\ pc' = "boot_cache" /\ ret' = "idle"
  /\ values' = Defaults /\ read' = FALSE /\ second' = FALSE
  /\ mounted' = FALSE /\ extMounted' = FALSE /\ restore' = FALSE /\ done' = FALSE
  /\ disk' = file' /\ fmt' = "ext4" /\ kept' = NoFile /\ excused' = {} /\ had' = FALSE
  /\ UNCHANGED <<card, ext, curFs, temp, wanted>>

\* A clean reboot writes everything back.
UserReboot ==
  /\ pc = "idle" /\ pc' = "reboot"
  /\ UNCHANGED <<ret, mem, sd, cache, extvars, faults, history>>

Reboot ==
  /\ pc = "reboot"
  /\ UNCHANGED <<file, cache, faults, lost>>
  /\ Restart

\* A power failure leaves of what was not written back any part, and of a copy too.
Crash ==
  /\ Fault
  /\ file' \in IF file = disk THEN {file} ELSE {disk} \cup Torn(file)
  /\ cache' \in IF pc = "part_copied" THEN Torn(Copy) ELSE {cache}
  /\ lost' = lost \cup (IF file' # file \/ pc = "save_write" THEN {"torn"} ELSE {})
                  \cup (IF pc = "part_copied" THEN Misleading("boundary") ELSE {})
  /\ Restart

Step ==
  \/ SaveMount \/ SaveOpen \/ SaveWrite
  \/ BootCache \/ BootRm \/ BootCard \/ BootDetails \/ BootAgain \/ BootDone
  \/ UpdateDetails
  \/ PartCopied \/ PartUnmount \/ Refused \/ PartTable \/ PartFs \/ PartMount \/ PartRm \/ PartExt
  \/ Wiped \/ ConvSave \/ ConvFormat \/ ConvDetails \/ ConvBack \/ ConvRm
  \/ Reboot

User ==
  \/ \E i \in 1..Names, v \in Values : SetValue(i, v)
  \/ ResetDefaults \/ PartCopy \/ Wipe
  \/ \E f \in {"ext4", "nilfs2"}, rescue \in BOOLEAN : FSConvert(f, rescue)
  \/ MountSdcard \/ UnMountSdcard \/ ToggleSdext \/ UserReboot

Next == Step \/ User \/ Crash

Spec == Init /\ [][Next]_vars
-----------------------------------------------------------------------------
\* What a start has loaded is what the user had set, unless one of the known ways to
\* lose settings was met (lost) or a value is too long to be read back.
SettingsSurvive ==
  (pc = "boot_done" /\ lost = {} /\ \A i \in 1..Names : wanted[i] \notin TooLong)
    => values = wanted

\* From the moment the settings file was copied until Partition_SDCard returns, the copy
\* on /cache is the whole file the operation began with; at the end the card's new file
\* system may hold the settings instead (unless that save has failed).  The code takes
\* no notice of four things: the card was not mounted when its file was copied, /cache
\* could not be mounted, the copy came out short, the new file system could not be
\* unmounted before the copy was removed.
CopyGuardsCard ==
  kept.exists /\ excused = {} =>
    /\ \/ pc \in {"part_umount", "part_table", "part_fs", "part_mount", "part_rm"}
       \/ pc \in {"save_mount", "save_open", "save_write"} /\ ret = "part_rm"
       => cache = kept
    /\ pc = "part_ext" => cache = kept \/ disk = FileOf(values) \/ "unsaved" \in lost

\* The copy is removed only by a start that has read all of it, or once the card holds the
\* settings (unless that save has failed, or the card could not be unmounted after it).
RemovesWhenSafe ==
  cache.exists /\ ~cache'.exists =>
    \/ \A i \in 1..Len(cache.recs) : cache.recs[i] = values[i]
    \/ disk' = FileOf(values)
    \/ "unsaved" \in lost \/ "umount" \in excused'
CopyRemovedWhenSafe == [][RemovesWhenSafe]_vars

\* src/README.md: a conversion loses no data if there is enough space on the card.
ConversionKeepsData == (pc = "conv_rm" /\ had /\ Free >= ExtSize + Reserve) => ext = "user"
=============================================================================
