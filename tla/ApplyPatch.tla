----------------------------- MODULE ApplyPatch -----------------------------
(***************************************************************************)
(* The patch step of an OTA update (recovery/applypatch/applypatch.c): an  *)
(* updater script first checks every file with apply_patch_check and then  *)
(* patches them one after the other with apply_patch, sharing one rescue   *)
(* copy, CACHE_TEMP_SOURCE, on /cache.  Power may fail between any two     *)
(* steps; recovery then runs the whole script again.                       *)
(*                                                                         *)
(* Contents are the values whose SHA-1 the script names; Junk is any other *)
(* content (half written, truncated, corrupt) and matches no SHA-1; NoFile *)
(* means there is no such file.                                            *)
(***************************************************************************)
EXTENDS Naturals, Sequences

CONSTANTS
  Files,        \* regular files the script names
  Partitions,   \* raw partitions it names ("MTD:..." and "EMMC:..." names)
  Values,       \* contents whose SHA-1 the script names
  Junk, NoFile, \* see above
  Script,       \* the apply_patch calls, in order
  Listed,       \* partition -> values whose size:sha1 pair its name lists
  Faults,       \* which operations of the environment may fail
  MaxRuns       \* bound: how often the script is started

Locations == Files \cup Partitions
Contents == Values \cup {Junk, NoFile}
FaultKinds == {"space", "cache", "save", "patch", "publish", "flash"}

\* apply_patch(source, target, result, ..., accept_1, patch_1, ...), preceded in
\* the script by apply_patch_check(source, check_1, ...).
PatchCall == [source : Locations, target : Locations, result : Values,
              accept : SUBSET Values, check : SUBSET Values]

ASSUME ConstantsAssumption ==
  /\ Junk \notin Values /\ NoFile \notin Values /\ Junk # NoFile
  /\ Files \cap Partitions = {}
  /\ Script \in Seq(PatchCall) /\ Script # <<>>
  /\ Listed \in [Partitions -> SUBSET Values]
  /\ Faults \subseteq FaultKinds
  /\ MaxRuns \in Nat

VARIABLES
  disk,         \* contents of every location
  out,          \* contents of "<file>.patch" of every file
  saved,        \* contents of CACHE_TEMP_SOURCE
  pc,           \* where the running script is
  cur,          \* the call it is at
  source_file,  \* GenerateTarget's source_file->data, NoFile for NULL
  copy_file,    \* its copy_file->data, NoFile when it was not loaded
  made_copy,    \* this call wrote CACHE_TEMP_SOURCE
  retry,        \* GenerateTarget's retry counter
  runs          \* how often the script was started

persistent == <<disk, out, saved>>
local == <<source_file, copy_file, made_copy, retry>>
vars == <<disk, out, saved, pc, cur, local, runs>>

PCs == {"check", "apply", "generate", "save", "saving", "unlink", "open",
        "patching", "publish", "flashing", "cleanup", "failed", "aborted", "done"}

call == Script[cur]
InPartition(loc) == loc \in Partitions

\* LoadFileContents: a file loads when it exists, a partition when what it
\* holds is one of the contents its name lists (LoadPartitionContents).
Loads(loc) ==
  IF InPartition(loc) THEN disk[loc] \in Listed[loc] ELSE disk[loc] # NoFile

TypeOK ==
  /\ disk \in [Locations -> Contents]
  /\ \A p \in Partitions : disk[p] # NoFile
  /\ out \in [Files -> Contents]
  /\ saved \in Contents
  /\ pc \in PCs
  /\ cur \in 1..Len(Script)
  /\ source_file \in Contents /\ copy_file \in Contents
  /\ made_copy \in 0..1
  /\ retry \in 0..1
  /\ runs \in 0..MaxRuns

\* The device holds the version the update was made for, or parts of it are
\* already up to date; an earlier update may have left anything on /cache.
Init ==
  /\ disk \in [Locations -> Contents]
  /\ \A p \in Partitions : disk[p] # NoFile
  /\ \A i \in 1..Len(Script) :
       \/ disk[Script[i].source] \in Script[i].accept
       \/ disk[Script[i].target] = Script[i].result
  /\ out = [f \in Files |-> NoFile]
  /\ saved \in Contents
  /\ pc = "check" /\ cur = 1
  /\ source_file = NoFile /\ copy_file = NoFile
  /\ made_copy = 0 /\ retry = 1
  /\ runs = 0
-----------------------------------------------------------------------------
Goto(label) == pc' = label /\ UNCHANGED cur

\* Any error makes applypatch return nonzero and ends the script: "failed" when it
\* is what applypatch makes of the contents it finds, "aborted" when an operation of
\* the environment failed.
Fail == Goto("failed") /\ UNCHANGED local

Fault(kind) == kind \in Faults /\ Goto("aborted") /\ UNCHANGED local

\* Mutant: the bound of the loop over the calls is off by one.
NextCallPastEnd(phase, then) ==
  /\ IF cur <= Len(Script) THEN cur' = cur + 1 /\ pc' = phase
                           ELSE cur' = 1 /\ pc' = then
  /\ source_file' = NoFile /\ copy_file' = NoFile
  /\ made_copy' = 0 /\ retry' = 1

\* On to the next call of the current phase; after the last check, to patching.
NextCall(phase, then) ==
  /\ IF cur < Len(Script) THEN cur' = cur + 1 /\ pc' = phase
                          ELSE cur' = 1 /\ pc' = then
  /\ source_file' = NoFile /\ copy_file' = NoFile
  /\ made_copy' = 0 /\ retry' = 1

\* Mutant: the check does not fall back to the rescue copy.
CheckWithoutCopy(c) ==
  Loads(c.source) /\ (c.check = {} \/ disk[c.source] \in c.check)

\* applypatch_check: the location, or else the rescue copy, must match.  With no
\* SHA-1 given, a location that loads is enough but the rescue copy never is.
CheckPasses(c) ==
  \/ Loads(c.source) /\ (c.check = {} \/ disk[c.source] \in c.check)
  \/ saved \in c.check

ApplyPatchCheck ==
  /\ pc = "check"
  /\ IF CheckPasses(call) THEN NextCall("check", "apply") ELSE Fail
  /\ UNCHANGED <<persistent, runs>>

\* Mutant: no early exit for a target that is already patched.
NeverAlready == FALSE

\* Mutant: a target that exists is taken for patched, its SHA-1 is not compared.
AlreadyWhenPresent == Loads(call.target)

AlreadyPatched == Loads(call.target) /\ disk[call.target] = call.result
SourceMatches == Loads(call.source) /\ disk[call.source] \in call.accept

\* applypatch: nothing to do, or pick the source or the rescue copy to patch.
PickSource ==
  /\ pc = "apply"
  /\ \/ AlreadyPatched /\ NextCall("apply", "done")
     \/ /\ ~AlreadyPatched /\ SourceMatches
        /\ source_file' = disk[call.source] /\ copy_file' = NoFile
        /\ made_copy' = 0 /\ retry' = 1
        /\ Goto("generate")
     \/ /\ ~AlreadyPatched /\ ~SourceMatches /\ saved \in call.accept
        /\ source_file' = NoFile /\ copy_file' = saved
        /\ made_copy' = 0 /\ retry' = 1
        /\ Goto("generate")
     \/ ~AlreadyPatched /\ ~SourceMatches /\ saved \notin call.accept /\ Fail
  /\ UNCHANGED <<persistent, runs>>

\* The top of GenerateTarget's loop: is there room for the target, and does the
\* source have to go to /cache first?  A raw partition always takes the copy.
EnoughSpace ==
  /\ pc = "generate" /\ ~InPartition(call.target)
  /\ retry = 1
  /\ Goto("open")
  /\ UNCHANGED <<persistent, local, runs>>

\* Mutant: the source is deleted before it is copied to /cache.
DeleteThenSave ==
  /\ pc = "generate" /\ ~InPartition(call.target)
  /\ retry = 0 \/ "space" \in Faults
  /\ retry' = 0
  /\ \/ source_file = NoFile /\ Goto("open") /\ UNCHANGED disk
     \/ /\ source_file # NoFile /\ Goto("save")
        /\ disk' = [disk EXCEPT ![call.source] = NoFile]
  /\ UNCHANGED <<out, saved, source_file, copy_file, made_copy, runs>>

NotEnoughSpace ==
  /\ pc = "generate" /\ ~InPartition(call.target)
  /\ retry = 0 \/ "space" \in Faults
  /\ retry' = 0
  /\ \/ source_file = NoFile /\ Goto("open")
     \/ source_file # NoFile /\ InPartition(call.source) /\ Goto("failed")
     \/ source_file # NoFile /\ ~InPartition(call.source) /\ Goto("save")
     \/ /\ source_file # NoFile /\ ~InPartition(call.source)
        /\ "cache" \in Faults /\ Goto("aborted")
  /\ UNCHANGED <<persistent, source_file, copy_file, made_copy, runs>>

\* Mutant: a partition is overwritten without a copy on /cache.
FlashWithoutBackup ==
  /\ pc = "generate" /\ InPartition(call.target)
  /\ retry' = 0
  /\ Goto("open")
  /\ UNCHANGED <<persistent, source_file, copy_file, made_copy, runs>>

BackUpForPartition ==
  /\ pc = "generate" /\ InPartition(call.target)
  /\ retry' = 0
  /\ \/ Goto("save")
     \/ "cache" \in Faults /\ Goto("aborted")
  /\ UNCHANGED <<persistent, source_file, copy_file, made_copy, runs>>

\* SaveFileContents: open(O_TRUNC) ...
TruncateCopy ==
  /\ pc = "save"
  /\ \/ saved' = Junk /\ Goto("saving") /\ UNCHANGED local
     \/ Fault("save") /\ UNCHANGED saved
  /\ UNCHANGED <<disk, out, runs>>

\* ... then write.  source_file->data may be NULL here (the partition case saves
\* it even when the patch reads copy_file): its write() fails, unless the stale
\* source_file->size is 0 and an empty file counts as saved.
WriteCopy ==
  /\ pc = "saving"
  /\ \/ /\ saved' = IF source_file = NoFile THEN Junk ELSE source_file
        /\ made_copy' = 1
        /\ Goto(IF InPartition(call.target) THEN "open" ELSE "unlink")
        /\ UNCHANGED <<source_file, copy_file, retry>>
     \/ source_file = NoFile /\ Fail /\ UNCHANGED saved
     \/ Fault("save") /\ saved' \in {Junk, source_file} \ {NoFile}
  /\ UNCHANGED <<disk, out, runs>>

UnlinkSource ==
  /\ pc = "unlink"
  /\ disk' = [disk EXCEPT ![call.source] = NoFile]
  /\ Goto("open")
  /\ UNCHANGED <<out, saved, local, runs>>

\* Open "<target>.patch", or allocate the memory sink of a partition.
OpenOutput ==
  /\ pc = "open"
  /\ \/ /\ out' = IF InPartition(call.target) THEN out
                  ELSE [out EXCEPT ![call.target] = Junk]
        /\ Goto("patching") /\ UNCHANGED local
     \/ Fault("patch") /\ UNCHANGED out
  /\ UNCHANGED <<disk, saved, runs>>

\* ApplyBSDiffPatch / ApplyImagePatch into the sink, and the check of its SHA-1.
Patched ==
  /\ pc = "patching"
  /\ out' = IF InPartition(call.target) THEN out
            ELSE [out EXCEPT ![call.target] = call.result]
  /\ Goto("publish")
  /\ UNCHANGED <<disk, saved, local, runs>>

\* Mutant: the SHA-1 of the patched data is not compared.
UnverifiedOutput ==
  /\ pc = "patching" /\ "patch" \in Faults
  /\ Goto("publish")
  /\ UNCHANGED <<persistent, local, runs>>

PatchFailed ==
  /\ pc = "patching" /\ "patch" \in Faults
  /\ \/ Fault("patch") /\ UNCHANGED out  \* wrong SHA-1, or no retry left
     \/ /\ retry = 1 /\ retry' = 0
        /\ out' = [out EXCEPT ![call.target] = NoFile]
        /\ Goto("generate")
        /\ UNCHANGED <<source_file, copy_file, made_copy>>
  /\ UNCHANGED <<disk, saved, runs>>

\* chmod, chown and rename of the .patch file over the target.
RenameOutput ==
  /\ pc = "publish" /\ ~InPartition(call.target)
  /\ \/ /\ disk' = [disk EXCEPT ![call.target] = out[call.target]]
        /\ out' = [out EXCEPT ![call.target] = NoFile]
        /\ Goto("cleanup") /\ UNCHANGED local
     \/ Fault("publish") /\ UNCHANGED <<disk, out>>
  /\ UNCHANGED <<saved, runs>>

\* WriteToPartition: from its first block to its last the partition holds junk.
BeginFlash ==
  /\ pc = "publish" /\ InPartition(call.target)
  /\ \/ /\ disk' = [disk EXCEPT ![call.target] = Junk]
        /\ Goto("flashing") /\ UNCHANGED local
     \/ Fault("flash") /\ UNCHANGED disk
  /\ UNCHANGED <<out, saved, runs>>

\* Mutant: an error of mtd_write_data or of the verification is ignored.
FlashErrorIgnored ==
  /\ pc = "flashing"
  /\ \/ disk' = [disk EXCEPT ![call.target] = call.result]
     \/ "flash" \in Faults /\ UNCHANGED disk
  /\ Goto("cleanup")
  /\ UNCHANGED <<out, saved, local, runs>>

EndFlash ==
  /\ pc = "flashing"
  /\ \/ /\ disk' = [disk EXCEPT ![call.target] = call.result]
        /\ Goto("cleanup") /\ UNCHANGED local
     \/ Fault("flash") /\ UNCHANGED disk
  /\ UNCHANGED <<out, saved, runs>>

RemoveCopy ==
  /\ pc = "cleanup"
  /\ saved' = IF made_copy = 1 THEN NoFile ELSE saved
  /\ NextCall("apply", "done")
  /\ UNCHANGED <<disk, out, runs>>

\* Power loss at any point, or the user starting a failed update again: recovery
\* runs the script from its first line, with nothing but the flash to go by.
Restart ==
  /\ runs < MaxRuns
  /\ pc # "done"
  /\ runs' = runs + 1
  /\ pc' = "check" /\ cur' = 1
  /\ source_file' = NoFile /\ copy_file' = NoFile
  /\ made_copy' = 0 /\ retry' = 1
  /\ UNCHANGED persistent

Step ==
  \/ ApplyPatchCheck \/ PickSource
  \/ EnoughSpace \/ NotEnoughSpace \/ BackUpForPartition
  \/ TruncateCopy \/ WriteCopy \/ UnlinkSource
  \/ OpenOutput \/ Patched \/ PatchFailed
  \/ RenameOutput \/ BeginFlash \/ EndFlash \/ RemoveCopy

Next == Step \/ Restart

Spec == Init /\ [][Next]_vars
\* The updater process runs on until it is done, fails, or loses power.
FairSpec == Spec /\ WF_vars(Step)
-----------------------------------------------------------------------------
Calls == {Script[i] : i \in 1..Len(Script)}
IsPatched(c) == disk[c.target] = c.result

\* Wherever the power fails, every call of the script can still be carried out:
\* its target is already patched, its source is still there, or /cache holds the
\* source.  (applypatch.c: "the original file is not touched until we have the
\* desired replacement for it".)
Recoverable ==
  \A c \in Calls :
    IsPatched(c) \/ disk[c.source] \in c.accept \/ saved \in c.accept

\* A script that ran to its end left every target with the contents its SHA-1
\* promised, whatever the interrupted runs before it left behind.
DoneMeansPatched == pc = "done" => \A c \in Calls : IsPatched(c)

\* While a partition is being overwritten from its own old contents, /cache
\* holds those contents (GenerateTarget saves them before WriteToPartition).
BackedUpWhileFlashing ==
  pc = "flashing" /\ source_file # NoFile => saved = source_file

\* A target once patched is never touched again, in this run of the script or in
\* a later one: applying a patch twice does nothing (the "already" early exit).
PatchedStaysPatched ==
  [][\A c \in Calls : IsPatched(c) => IsPatched(c)']_vars

\* Once the restarts end, the last run of the script completes the update, or an
\* operation of the environment failed in it: whatever earlier runs left behind,
\* after power loss, without room or after an error, applypatch never refuses.
Completes == <>[](pc \in {"done", "aborted"})

\* What the user of a script sees: a file has its new version, or its old one, in
\* place or as the rescue copy; "lost" is neither.
Version(i) ==
  LET entry == Script[i] IN
  IF IsPatched(entry) THEN "new"
  ELSE IF disk[entry.source] \in entry.accept \/ saved \in entry.accept THEN "old" ELSE "lost"

Atomic == INSTANCE AtomicUpdate WITH
  N <- Len(Script),
  version <- [i \in 1..Len(Script) |-> Version(i)],
  phase <- IF pc = "done" THEN "finished" ELSE "running"

\* Whatever fails and however often power does, a script implements the update
\* without crashes: old files become new one after the other, in order, and none is
\* lost, changes back or is still old at the end.
UpdatesAtomically == Atomic!Spec
=============================================================================
