-------------------------- MODULE ApplyPatchProofs --------------------------
(***************************************************************************)
(* For any environment faults and any number of restarts: whatever script, *)
(* a partition is overwritten only with its old contents saved; scripts of *)
(* which no call undoes another leave every target patched, and patched    *)
(* for good; and for scripts that patch files in place, any number of      *)
(* them, no power loss leaves a file that can neither be used as it is nor *)
(* be patched again.                                                       *)
(***************************************************************************)
EXTENDS ApplyPatch, TLAPS

Indices == 1..Len(Script)

\* apply_patch(file, "-", ...): each call has a regular file of its own as its
\* source and its target.
InPlaceScript ==
  /\ \A i \in Indices :
       Script[i].source \in Files /\ Script[i].target = Script[i].source
  /\ \A i, j \in Indices : Script[i].source = Script[j].source => i = j

Content(i) == disk[Script[i].source]
HasResult(i) == Content(i) = Script[i].result
Settled(i) == Content(i) \in Script[i].accept \/ HasResult(i)

Applying == {"apply", "generate", "save", "saving", "unlink", "open",
             "patching", "publish", "cleanup"}
Generating == {"generate", "save", "saving", "unlink", "open", "patching",
               "publish"}

\* Only one file at a time depends on the rescue copy, and every file before it
\* in the script is patched already.
Frontier ==
  \A i \in Indices : ~Settled(i) =>
    saved \in Script[i].accept /\ \A j \in Indices : j < i => HasResult(j)

\* The script works through the calls in order ...
Progress ==
  /\ pc \in Applying => \A j \in Indices : j < cur => HasResult(j)
  /\ pc \in Generating => ~HasResult(cur)
  /\ pc # "flashing"
  /\ pc = "cleanup" => HasResult(cur)
  /\ pc = "done" => \A j \in Indices : HasResult(j)

\* ... and until the copy is complete the source is where it was.
SourceIntact ==
  /\ source_file # NoFile /\ ( \/ pc \in {"generate", "save", "saving", "unlink"}
                               \/ pc \in {"open", "patching"} /\ retry = 1 )
       => source_file \in Script[cur].accept /\ Content(cur) = source_file
  /\ pc \in {"save", "saving", "unlink"} => source_file # NoFile
  /\ pc \in {"save", "saving", "unlink"} => retry = 0
  /\ pc = "unlink" => saved = source_file

\* Whoever overwrites or removes the rescue copy is the only one to need it.
Alone ==
  pc \in {"saving", "unlink"} \/ made_copy = 1 =>
    \A i \in Indices : i # cur => Settled(i)

OutputVerified == pc = "publish" => out[Script[cur].source] = Script[cur].result

IInv ==
  TypeOK /\ Frontier /\ Progress /\ SourceIntact /\ Alone /\ OutputVerified

-----------------------------------------------------------------------------
LEMMA CallType ==
  /\ Len(Script) \in Nat /\ 1 \in Indices
  /\ \A i \in Indices : /\ Script[i] \in PatchCall
                        /\ Script[i].source \in Locations
                        /\ Script[i].target \in Locations
                        /\ Script[i].result \in Values
                        /\ Script[i].accept \in SUBSET Values
                        /\ Script[i].result # NoFile
                        /\ NoFile \notin Script[i].accept
                        /\ Junk \notin Script[i].accept
                        /\ Script[i].result # Junk
<1>1. Len(Script) \in Nat /\ Len(Script) # 0
  BY ConstantsAssumption
<1>2. \A i \in Indices : Script[i] \in PatchCall
  BY <1>1, ConstantsAssumption DEF Indices
<1>3. ASSUME NEW c \in PatchCall
      PROVE  /\ c.source \in Locations /\ c.target \in Locations
             /\ c.result \in Values /\ c.accept \in SUBSET Values
  BY Zenon DEF PatchCall
<1>4. QED
  BY <1>1, <1>2, <1>3, ConstantsAssumption DEF Indices

LEMMA InPlaceTarget ==
  ASSUME InPlaceScript, NEW i \in Indices
  PROVE  /\ Script[i].source \in Files /\ Script[i].source \in Locations
         /\ Script[i].source \notin Partitions
         /\ Script[i].target = Script[i].source
  BY ConstantsAssumption, Zenon DEF InPlaceScript, Locations

LEMMA InitIInv == ASSUME InPlaceScript, Init PROVE IInv
<1>1. TypeOK
  <2>1. 1 \in 1..Len(Script)
    BY CallType, Zenon DEF Indices
  <2>2. MaxRuns \in Nat
    BY ConstantsAssumption, Zenon
  <2>3. QED
    BY <2>1, <2>2 DEF Init, TypeOK, PCs, Contents
<1>2. \A i \in Indices : Settled(i)
  BY InPlaceTarget, Zenon DEF Init, Settled, HasResult, Content, Indices
<1>3. QED
  BY <1>1, <1>2, CallType, Zenon DEF Init, IInv, Frontier, Progress, SourceIntact, Alone,
     OutputVerified, Applying, Generating

-----------------------------------------------------------------------------
\* Type correctness, for every script.  It needs to know that a partition is
\* never unlinked.
UnlinksFiles ==
  /\ pc = "unlink" => ~InPartition(call.target)
  /\ pc \in {"save", "saving", "unlink"} /\ ~InPartition(call.target)
       => ~InPartition(call.source)

TypeInv == TypeOK /\ UnlinksFiles

LEMMA TypeStep == ASSUME TypeInv, Next PROVE TypeInv'
<1> USE DEF TypeInv, UnlinksFiles, TypeOK, PCs, Contents, Goto, Fail, Fault,
        persistent, local, call, InPartition
<1>1. /\ Len(Script) \in Nat /\ MaxRuns \in Nat /\ 1 \in 1..Len(Script)
      /\ Junk # NoFile
  BY CallType, ConstantsAssumption, Zenon DEF Indices
<1>2. /\ call.source \in Locations /\ call.target \in Locations
      /\ call.result \in Values /\ call.result # NoFile
      /\ call.target \notin Partitions => call.target \in Files
      /\ NoFile \notin call.accept
  BY CallType, Zenon DEF Indices, Locations
<1>3. CASE ApplyPatchCheck
  BY <1>1, <1>2, <1>3 DEF ApplyPatchCheck, NextCall
<1>4. CASE PickSource
  BY <1>1, <1>2, <1>4 DEF PickSource, NextCall
<1>5. CASE EnoughSpace
  BY <1>1, <1>2, <1>5, Zenon DEF EnoughSpace, NextCall
<1>6. CASE NotEnoughSpace
  BY <1>1, <1>2, <1>6 DEF NotEnoughSpace, NextCall
<1>7. CASE BackUpForPartition
  BY <1>1, <1>2, <1>7 DEF BackUpForPartition, NextCall
<1>8. CASE TruncateCopy
  BY <1>1, <1>2, <1>8, Zenon DEF TruncateCopy, NextCall
<1>9. CASE WriteCopy
  BY <1>1, <1>2, <1>9 DEF WriteCopy, NextCall
<1>10. CASE UnlinkSource
  BY <1>1, <1>2, <1>10 DEF UnlinkSource, NextCall
<1>11. CASE OpenOutput
  BY <1>1, <1>2, <1>11, Zenon DEF OpenOutput, NextCall
<1>12. CASE Patched
  BY <1>1, <1>2, <1>12, Zenon DEF Patched, NextCall
<1>13. CASE PatchFailed
  BY <1>1, <1>2, <1>13 DEF PatchFailed, NextCall
<1>14. CASE RenameOutput
  <2>1. disk' = disk \/ disk' = [disk EXCEPT ![call.target] = out[call.target]]
    BY <1>14, Zenon DEF RenameOutput
  <2>2. disk' \in [Locations -> Contents] /\ \A p \in Partitions : disk'[p] # NoFile
    BY <2>1, <1>1, <1>2, <1>14, Zenon DEF RenameOutput, Locations
  <2>3. QED
    BY <2>2, <1>1, <1>2, <1>14, Zenon DEF RenameOutput
<1>15. CASE BeginFlash
  <2>1. disk' = disk \/ disk' = [disk EXCEPT ![call.target] = Junk]
    BY <1>15, Zenon DEF BeginFlash
  <2>2. disk' \in [Locations -> Contents] /\ \A p \in Partitions : disk'[p] # NoFile
    BY <2>1, <1>1, <1>2, <1>15, Zenon DEF BeginFlash, Locations
  <2>3. QED
    BY <2>2, <1>1, <1>2, <1>15, Zenon DEF BeginFlash
<1>16. CASE EndFlash
  <2>1. disk' = disk \/ disk' = [disk EXCEPT ![call.target] = call.result]
    BY <1>16, Zenon DEF EndFlash
  <2>2. disk' \in [Locations -> Contents] /\ \A p \in Partitions : disk'[p] # NoFile
    BY <2>1, <1>1, <1>2, <1>16, Zenon DEF EndFlash, Locations
  <2>3. QED
    BY <2>2, <1>1, <1>2, <1>16, Zenon DEF EndFlash
<1>17. CASE RemoveCopy
  BY <1>1, <1>2, <1>17 DEF RemoveCopy, NextCall
<1>18. CASE Restart
  BY <1>1, <1>2, <1>18 DEF Restart
<1>19. QED
  BY <1>3, <1>4, <1>5, <1>6, <1>7, <1>8, <1>9, <1>10, <1>11, <1>12, <1>13,
     <1>14, <1>15, <1>16, <1>17, <1>18, Zenon DEF Next, Step

LEMMA TypeInvariant == Spec => []TypeInv
<1>1. Init => TypeInv
  <2>1. 1 \in 1..Len(Script) /\ MaxRuns \in Nat
    BY CallType, ConstantsAssumption, Zenon DEF Indices
  <2>2. QED
    BY <2>1 DEF Init, TypeInv, TypeOK, UnlinksFiles, PCs, Contents
<1>2. TypeInv /\ [Next]_vars => TypeInv'
  <2>1. TypeInv /\ UNCHANGED vars => TypeInv'
    BY Zenon DEF TypeInv, TypeOK, UnlinksFiles, vars, local, call, InPartition
  <2>2. QED
    BY <2>1, TypeStep, Zenon
<1>3. QED
  BY <1>1, <1>2, PTL DEF Spec

\* Every call works on regular types, whatever the script (TypeOK holds through
\* every interleaving of steps, faults and restarts).
THEOREM TypeCorrect == Spec => []TypeOK
<1>1. TypeInv => TypeOK
  BY Zenon DEF TypeInv
<1>2. QED
  BY <1>1, TypeInvariant, PTL

-----------------------------------------------------------------------------
\* Any script, files and partitions: the copy on /cache is what is being overwritten
\* from the moment it is complete until the partition has been written.
HeldBack ==
  \/ pc \in {"unlink", "flashing"}
  \/ pc \in {"open", "patching", "publish"} /\ InPartition(call.target)

BackupInv == HeldBack /\ source_file # NoFile => saved = source_file

LEMMA BackupStep == ASSUME BackupInv, Next PROVE BackupInv'
<1> USE DEF BackupInv, HeldBack, Goto, Fail, Fault, persistent, local, call, InPartition
<1>1. CASE ApplyPatchCheck \/ PickSource \/ RemoveCopy
  BY <1>1, Zenon DEF ApplyPatchCheck, PickSource, RemoveCopy, NextCall
<1>2. CASE EnoughSpace \/ NotEnoughSpace \/ BackUpForPartition
  BY <1>2, Zenon DEF EnoughSpace, NotEnoughSpace, BackUpForPartition
<1>3. CASE TruncateCopy \/ WriteCopy \/ UnlinkSource
  BY <1>3 DEF TruncateCopy, WriteCopy, UnlinkSource
<1>4. CASE OpenOutput \/ Patched \/ PatchFailed
  BY <1>4, Zenon DEF OpenOutput, Patched, PatchFailed
<1>5. CASE RenameOutput \/ BeginFlash \/ EndFlash
  BY <1>5, Zenon DEF RenameOutput, BeginFlash, EndFlash
<1>6. CASE Restart
  BY <1>6, Zenon DEF Restart
<1> QED BY <1>1, <1>2, <1>3, <1>4, <1>5, <1>6, Zenon DEF Next, Step

\* BackedUpWhileFlashing, for every script: while WriteToPartition overwrites a
\* partition, CACHE_TEMP_SOURCE holds the contents that the patch was made from.
THEOREM BacksUpWhileFlashing == Spec => []BackedUpWhileFlashing
<1>1. Init => BackupInv
  BY Zenon DEF Init, BackupInv, HeldBack
<1>2. BackupInv /\ [Next]_vars => BackupInv'
  <2>1. BackupInv /\ UNCHANGED vars => BackupInv'
    BY Zenon DEF BackupInv, HeldBack, vars, local, call, InPartition
  <2> QED BY <2>1, BackupStep, Zenon
<1>3. BackupInv => BackedUpWhileFlashing
  BY Zenon DEF BackupInv, HeldBack, BackedUpWhileFlashing
<1> QED BY <1>1, <1>2, <1>3, PTL DEF Spec

-----------------------------------------------------------------------------
\* Scripts in which no call undoes another one: every call has a target of its own,
\* a file that one call makes is not the source (which may be unlinked) of another,
\* and the name of a partition lists the contents it is to get.
OwnTargets ==
  /\ \A m, n \in Indices : m # n =>
       /\ Script[m].target # Script[n].target
       /\ Script[m].target \in Files => Script[m].target # Script[n].source
  /\ \A n \in Indices : Script[n].target \in Partitions =>
       Script[n].result \in Listed[Script[n].target]

Made(n) == disk[Script[n].target] = Script[n].result

\* The script makes the targets in order, and only ever writes one that is not made.
MadeInv ==
  /\ pc \in Generating => ~Made(cur)
  /\ pc \in Applying \cup {"flashing"} => \A n \in Indices : n < cur => Made(n)
  /\ pc = "cleanup" => Made(cur)
  /\ pc = "done" => \A n \in Indices : Made(n)
  /\ pc = "publish" /\ ~InPartition(call.target) => out[call.target] = call.result

\* The steps that write a location that a call names.
LEMMA WriteSteps ==
  ASSUME Next
  PROVE  \/ UNCHANGED disk
         \/ pc = "unlink" /\ disk' = [disk EXCEPT ![call.source] = NoFile]
         \/ pc = "publish" /\ ~InPartition(call.target)
              /\ disk' = [disk EXCEPT ![call.target] = out[call.target]]
         \/ pc = "publish" /\ disk' = [disk EXCEPT ![call.target] = Junk]
         \/ pc = "flashing" /\ disk' = [disk EXCEPT ![call.target] = call.result]
<1>1. CASE UnlinkSource
  BY <1>1, Zenon DEF UnlinkSource
<1>2. CASE RenameOutput
  BY <1>2, Zenon DEF RenameOutput
<1>3. CASE BeginFlash
  BY <1>3, Zenon DEF BeginFlash
<1>4. CASE EndFlash
  BY <1>4, Zenon DEF EndFlash
<1>5. ASSUME ~UnlinkSource, ~RenameOutput, ~BeginFlash, ~EndFlash PROVE UNCHANGED disk
  BY <1>5, ZenonT(30) DEF Next, Step, ApplyPatchCheck, PickSource, EnoughSpace,
     NotEnoughSpace, BackUpForPartition, TruncateCopy, WriteCopy, OpenOutput,
     Patched, PatchFailed, RemoveCopy, Restart, persistent
<1> QED BY <1>1, <1>2, <1>3, <1>4, <1>5, Zenon

\* A target that was made stays as it is.
LEMMA MadeStays ==
  ASSUME OwnTargets, TypeInv, MadeInv, Next, NEW n \in Indices, Made(n)
  PROVE  Made(n)'
<1>1. cur \in Indices /\ disk \in [Locations -> Contents]
  BY Zenon DEF TypeInv, TypeOK, Indices
<1>2. /\ call.source \in Locations /\ call.target \in Locations
      /\ Script[n].target \in Locations
  BY <1>1, CallType, Zenon DEF call
<1>3. CASE UNCHANGED disk
  BY <1>3, Zenon DEF Made
<1>4. CASE pc = "unlink" /\ disk' = [disk EXCEPT ![call.source] = NoFile]
  <2>1. n # cur /\ call.source \notin Partitions
    BY <1>4, Zenon DEF MadeInv, Generating, TypeInv, UnlinksFiles, InPartition
  <2>2. Script[n].target # call.source
    BY <2>1, <1>1, <1>2, Zenon DEF OwnTargets, Locations, call
  <2> QED BY <2>2, <1>1, <1>2, <1>4, Zenon DEF Made
<1>5. ASSUME NEW v, pc = "publish", disk' = [disk EXCEPT ![call.target] = v]
      PROVE  Made(n)'
  <2>1. n # cur
    BY <1>5, Zenon DEF MadeInv, Generating
  <2>2. Script[n].target # call.target
    BY <2>1, <1>1, Zenon DEF OwnTargets, call
  <2> QED BY <2>2, <1>1, <1>2, <1>5, Zenon DEF Made
<1>6. CASE pc = "flashing" /\ disk' = [disk EXCEPT ![call.target] = call.result]
  <2>1. CASE n = cur
    BY <2>1, <1>1, <1>2, <1>6, Zenon DEF Made, call
  <2>2. CASE n # cur
    <3>1. Script[n].target # call.target
      BY <2>2, <1>1, Zenon DEF OwnTargets, call
    <3> QED BY <3>1, <1>1, <1>2, <1>6, Zenon DEF Made
  <2> QED BY <2>1, <2>2, Zenon
<1> QED BY <1>3, <1>4, <1>5, <1>6, WriteSteps, Zenon

LEMMA MadeStep ==
  ASSUME OwnTargets, TypeInv, MadeInv, Next
  PROVE  MadeInv'
<1> USE DEF Goto, Fail, Fault, persistent, local, InPartition, Applying, Generating
<1>1. /\ cur \in Indices /\ Len(Script) \in Nat /\ cur \in Nat /\ Indices = 1..Len(Script)
      /\ disk \in [Locations -> Contents] /\ out \in [Files -> Contents] /\ retry \in 0..1
  BY CallType DEF TypeInv, TypeOK, Indices
<1>2. /\ call.target \in Locations /\ call.source \in Locations
      /\ call.result \in Values /\ call.result # NoFile /\ call.result # Junk
      /\ call.target \notin Partitions => call.target \in Files
  BY <1>1, CallType, Zenon DEF call, Locations
<1>3. \A n \in Indices : Made(n) => Made(n)'
  BY MadeStays, Zenon
<1>4. UNCHANGED disk => \A n \in Indices : Made(n)' <=> Made(n)
  BY Zenon DEF Made
<1>5. CASE ApplyPatchCheck
  BY <1>1, <1>5 DEF ApplyPatchCheck, NextCall, MadeInv
<1>6. CASE PickSource
  <2>1. UNCHANGED disk /\ pc = "apply"
    BY <1>6, Zenon DEF PickSource
  <2>2. AlreadyPatched <=> Made(cur)
    BY <1>1, <1>2, ConstantsAssumption
, Zenon       DEF AlreadyPatched, Made, Loads, call, OwnTargets
  <2>3. \A n \in Indices : n < cur => Made(n)
    BY <2>1, Zenon DEF MadeInv
  <2>4. CASE AlreadyPatched /\ NextCall("apply", "done")
    BY <2>1, <2>2, <2>3, <2>4, <1>1, <1>4 DEF NextCall, MadeInv
  <2>5. CASE ~AlreadyPatched /\ pc' \in {"generate", "failed"} /\ UNCHANGED cur
    BY <2>1, <2>2, <2>3, <2>5, <1>1, <1>4, Zenon DEF MadeInv
  <2> QED BY <2>4, <2>5, <1>6, Zenon DEF PickSource
<1>7. CASE \/ EnoughSpace \/ NotEnoughSpace \/ BackUpForPartition \/ TruncateCopy \/ WriteCopy
           \/ OpenOutput
  <2>1. /\ UNCHANGED <<disk, cur>> /\ pc \in Generating
        /\ pc' \in {"open", "save", "saving", "unlink", "patching", "failed", "aborted"}
    BY <1>7, Zenon DEF EnoughSpace, NotEnoughSpace, BackUpForPartition, TruncateCopy, WriteCopy,
       OpenOutput
  <2> QED BY <2>1, <1>1, <1>4, Zenon DEF MadeInv
<1>8. CASE UnlinkSource
  <2>1. pc = "unlink" /\ pc' = "open" /\ UNCHANGED cur /\ ~Made(cur)
    BY <1>8, Zenon DEF UnlinkSource, MadeInv
  <2>2. disk' = [disk EXCEPT ![call.source] = NoFile]
    BY <1>8, Zenon DEF UnlinkSource
  <2>3. ~Made(cur)'
    BY <2>1, <2>2, <1>1, <1>2, Zenon DEF Made, call
  <2> QED BY <2>1, <2>3, <1>1, <1>3, Zenon DEF MadeInv
<1>9. CASE Patched
  <2>1. /\ UNCHANGED <<disk, cur>> /\ pc = "patching" /\ pc' = "publish"
        /\ ~InPartition(call.target) => out'[call.target] = call.result
    BY <1>9, <1>1, <1>2, Zenon DEF Patched
  <2>2. call' = call
    BY <2>1, Zenon DEF call
  <2> QED BY <2>1, <2>2, <1>1, <1>4, Zenon DEF MadeInv
<1>10. CASE PatchFailed
  <2>1. UNCHANGED <<disk, cur>> /\ pc = "patching" /\ pc' \in {"aborted", "generate"}
    BY <1>10, Zenon DEF PatchFailed
  <2> QED BY <2>1, <1>1, <1>4, Zenon DEF MadeInv
<1>11. CASE RenameOutput
  <2>1. CASE pc' = "aborted"
    BY <2>1, Zenon DEF MadeInv
  <2>2. CASE pc' = "cleanup"
    <3>1. /\ pc = "publish" /\ UNCHANGED cur /\ out[call.target] = call.result
          /\ disk' = [disk EXCEPT ![call.target] = out[call.target]]
      BY <1>11, <2>2, Zenon DEF RenameOutput, MadeInv
    <3>2. Made(cur)'
      BY <3>1, <1>1, <1>2, Zenon DEF Made, call
    <3> QED BY <2>2, <3>1, <3>2, <1>1, <1>3, Zenon DEF MadeInv
  <2> QED BY <2>1, <2>2, <1>11, Zenon DEF RenameOutput
<1>12. CASE BeginFlash
  <2>1. pc = "publish" /\ pc' \in {"flashing", "aborted"} /\ UNCHANGED cur
    BY <1>12, Zenon DEF BeginFlash
  <2> QED BY <2>1, <1>1, <1>3, Zenon DEF MadeInv
<1>13. CASE EndFlash
  <2>1. CASE pc' = "aborted"
    BY <2>1, Zenon DEF MadeInv
  <2>2. CASE pc' = "cleanup"
    <3>1. /\ pc = "flashing" /\ UNCHANGED cur
          /\ disk' = [disk EXCEPT ![call.target] = call.result]
      BY <1>13, <2>2, Zenon DEF EndFlash
    <3>2. Made(cur)'
      BY <3>1, <1>1, <1>2, Zenon DEF Made, call
    <3> QED BY <2>2, <3>1, <3>2, <1>1, <1>3, Zenon DEF MadeInv
  <2> QED BY <2>1, <2>2, <1>13, Zenon DEF EndFlash
<1>14. CASE RemoveCopy
  <2>1. UNCHANGED disk /\ pc = "cleanup" /\ NextCall("apply", "done")
    BY <1>14, Zenon DEF RemoveCopy
  <2>2. \A n \in Indices : n <= cur => Made(n)
    BY <2>1, <1>1 DEF MadeInv
  <2> QED BY <2>1, <2>2, <1>1, <1>4 DEF NextCall, MadeInv
<1>15. CASE Restart
  BY <1>15, Zenon DEF Restart, MadeInv
<1> QED BY <1>5, <1>6, <1>7, <1>8, <1>9, <1>10, <1>11, <1>12, <1>13, <1>14, <1>15, Zenon DEF Next, Step

LEMMA MadeInvariant == ASSUME OwnTargets PROVE Spec => [](TypeInv /\ MadeInv)
<1>1. Init => MadeInv
  BY Zenon DEF Init, MadeInv, Applying, Generating
<1>2. TypeInv /\ MadeInv /\ [Next]_vars => MadeInv'
  <2>1. MadeInv /\ UNCHANGED vars => MadeInv'
    BY Zenon DEF MadeInv, Made, vars, local, call, InPartition
  <2> QED BY <2>1, MadeStep, Zenon
<1> QED BY <1>1, <1>2, TypeInvariant, PTL DEF Spec

\* DoneMeansPatched, for every script of which no call undoes another: a run that
\* reaches its end found or left every target, file or partition, at the contents
\* its SHA-1 promises.
THEOREM DoneIsPatched == ASSUME OwnTargets PROVE Spec => []DoneMeansPatched
<1>1. MadeInv => DoneMeansPatched
  BY Zenon DEF MadeInv, Made, DoneMeansPatched, Calls, IsPatched, Indices
<1> QED BY <1>1, MadeInvariant, PTL

\* PatchedStaysPatched, for the same scripts: neither a later call nor a later run
\* of the script, after whatever faults, changes a target that has been made.
THEOREM PatchedStays == ASSUME OwnTargets PROVE Spec => PatchedStaysPatched
<1>1. TypeInv /\ MadeInv /\ [Next]_vars => [\A c \in Calls : IsPatched(c) => IsPatched(c)']_vars
  <2>1. ASSUME TypeInv, MadeInv, Next, NEW c \in Calls, IsPatched(c)
        PROVE  IsPatched(c)'
    <3>1. PICK n \in Indices : c = Script[n]
      BY Zenon DEF Calls, Indices
    <3>2. Made(n)'
      BY <2>1, <3>1, MadeStays, Zenon DEF IsPatched, Made
    <3> QED BY <3>1, <3>2, Zenon DEF IsPatched, Made
  <2> QED BY <2>1, Zenon
<1> QED BY <1>1, MadeInvariant, PTL DEF Spec, PatchedStaysPatched

-----------------------------------------------------------------------------
\* What the steps that leave the flash alone preserve.
LEMMA SameFlash ==
  ASSUME UNCHANGED <<disk, saved>>
  PROVE  /\ \A i \in Indices : /\ Content(i)' = Content(i)
                               /\ HasResult(i)' <=> HasResult(i)
                               /\ Settled(i)' <=> Settled(i)
         /\ Frontier => Frontier'
  BY Zenon DEF Content, HasResult, Settled, Frontier

\* What a step that changes only the current file leaves alone.
LEMMA OtherFiles ==
  ASSUME InPlaceScript, cur \in Indices, NEW v,
         disk' = [disk EXCEPT ![Script[cur].source] = v]
  PROVE  \A i \in Indices : i # cur => /\ Content(i)' = Content(i)
                                       /\ HasResult(i)' <=> HasResult(i)
                                       /\ Settled(i)' <=> Settled(i)
  BY DEF InPlaceScript, Content, HasResult, Settled

LEMMA IInvStep == ASSUME InPlaceScript, IInv, TypeOK', Next PROVE IInv'
<1> USE DEF Goto, Fail, Fault, persistent, local, call, InPartition,
        Applying, Generating
<1>1. /\ cur \in Indices /\ Len(Script) \in Nat /\ cur \in Nat /\ Junk # NoFile
      /\ retry \in 0..1 /\ made_copy \in 0..1
  BY CallType, ConstantsAssumption DEF IInv, TypeOK, Indices
<1>2. /\ call.target = call.source /\ call.target \notin Partitions
      /\ call.source \in Files /\ call.source \in Locations
      /\ NoFile \notin call.accept /\ Junk \notin call.accept
      /\ call.result # NoFile /\ call.result # Junk
  BY <1>1, CallType, InPlaceTarget, Zenon
<1>3. Frontier /\ Progress /\ SourceIntact /\ Alone /\ OutputVerified
  BY Zenon DEF IInv
<1>4. CASE ApplyPatchCheck
  <2>1. UNCHANGED <<disk, saved>>
    BY <1>4, Zenon DEF ApplyPatchCheck
  <2>2. Frontier'
    BY <2>1, <1>3, SameFlash, Zenon
  <2>3. Progress'
    BY <2>1, <1>1, <1>2, <1>3, <1>4, SameFlash
       DEF ApplyPatchCheck, NextCall, Progress, Indices
  <2>4. SourceIntact'
    BY <2>1, <1>1, <1>2, <1>3, <1>4, SameFlash
, Zenon       DEF ApplyPatchCheck, NextCall, SourceIntact
  <2>5. Alone'
    <3>1. CASE UNCHANGED <<cur, made_copy>>
      BY <3>1, <2>1, <1>3, <1>4, SameFlash, Zenon DEF ApplyPatchCheck, NextCall, Alone
    <3>2. CASE made_copy' = 0
      BY <3>2, <1>4 DEF ApplyPatchCheck, NextCall, Alone
    <3>3. QED
      BY <3>1, <3>2, <1>4, Zenon DEF ApplyPatchCheck, NextCall
  <2>6. OutputVerified'
    BY <2>1, <1>1, <1>2, <1>3, <1>4, Zenon DEF ApplyPatchCheck, NextCall, OutputVerified
  <2>7. QED
    BY <2>2, <2>3, <2>4, <2>5, <2>6, Zenon DEF IInv
<1>5. CASE PickSource
  <2>1. UNCHANGED <<disk, saved>>
    BY <1>5, Zenon DEF PickSource
  <2>2. Frontier'
    BY <2>1, <1>3, SameFlash, Zenon
  <2>3. Progress'
    <3>1. CASE AlreadyPatched /\ NextCall("apply", "done")
      <4>1. \A j \in Indices : j < cur \/ j = cur => HasResult(j)
        BY <3>1, <1>1, <1>2, <1>3, <1>5
, Zenon           DEF PickSource, AlreadyPatched, Progress, HasResult, Content
      <4>2. QED
        BY <4>1, <3>1, <2>1, <1>1, SameFlash DEF NextCall, Progress, Indices
    <3>2. CASE ~AlreadyPatched /\ UNCHANGED cur /\ pc' \in {"generate", "failed"}
      <4>1. ~HasResult(cur)
        BY <3>2, <1>1, <1>2
, Zenon           DEF AlreadyPatched, Loads, HasResult, Content
      <4>2. QED
        BY <4>1, <3>2, <2>1, <1>1, <1>3, <1>5, SameFlash, ZenonT(30) DEF PickSource, Progress
    <3>3. QED
      BY <3>1, <3>2, <1>5, Zenon DEF PickSource
  <2>4. SourceIntact'
    BY <2>1, <1>1, <1>5, Zenon DEF PickSource, NextCall, SourceIntact, SourceMatches,
       Content
  <2>5. Alone'
    BY <2>1, <1>1, <1>2, <1>3, <1>5, SameFlash DEF PickSource, NextCall, Alone
  <2>6. OutputVerified'
    BY <2>1, <1>1, <1>2, <1>3, <1>5, Zenon DEF PickSource, NextCall, OutputVerified
  <2>7. QED
    BY <2>2, <2>3, <2>4, <2>5, <2>6, Zenon DEF IInv
<1>6. CASE EnoughSpace
  <2>1. UNCHANGED <<disk, saved>>
    BY <1>6, Zenon DEF EnoughSpace
  <2>2. Frontier'
    BY <2>1, <1>3, SameFlash, Zenon
  <2>3. Progress'
    BY <2>1, <1>1, <1>2, <1>3, <1>6, SameFlash, Zenon DEF EnoughSpace, Progress
  <2>4. SourceIntact'
    BY <2>1, <1>1, <1>2, <1>3, <1>6, SameFlash, Zenon DEF EnoughSpace, SourceIntact
  <2>5. Alone'
    BY <2>1, <1>1, <1>2, <1>3, <1>6, SameFlash, Zenon DEF EnoughSpace, Alone
  <2>6. OutputVerified'
    BY <2>1, <1>1, <1>2, <1>3, <1>6, Zenon DEF EnoughSpace, OutputVerified
  <2>7. QED
    BY <2>2, <2>3, <2>4, <2>5, <2>6, Zenon DEF IInv
<1>7. CASE NotEnoughSpace
  <2>1. UNCHANGED <<disk, saved>>
    BY <1>7, Zenon DEF NotEnoughSpace
  <2>2. Frontier'
    BY <2>1, <1>3, SameFlash, Zenon
  <2>3. Progress'
    BY <2>1, <1>1, <1>2, <1>3, <1>7, SameFlash, Zenon DEF NotEnoughSpace, Progress
  <2>4. SourceIntact'
    BY <2>1, <1>1, <1>2, <1>3, <1>7, SameFlash, Zenon DEF NotEnoughSpace, SourceIntact
  <2>5. Alone'
    BY <2>1, <1>1, <1>2, <1>3, <1>7, SameFlash, Zenon DEF NotEnoughSpace, Alone
  <2>6. OutputVerified'
    BY <2>1, <1>1, <1>2, <1>3, <1>7, Zenon DEF NotEnoughSpace, OutputVerified
  <2>7. QED
    BY <2>2, <2>3, <2>4, <2>5, <2>6, Zenon DEF IInv
<1>8. CASE BackUpForPartition
  <2>1. UNCHANGED <<disk, saved>>
    BY <1>8, Zenon DEF BackUpForPartition
  <2>2. Frontier'
    BY <2>1, <1>3, SameFlash, Zenon
  <2>3. Progress'
    BY <2>1, <1>1, <1>2, <1>3, <1>8, SameFlash, Zenon DEF BackUpForPartition, Progress
  <2>4. SourceIntact'
    BY <2>1, <1>1, <1>2, <1>3, <1>8, SameFlash, Zenon DEF BackUpForPartition, SourceIntact
  <2>5. Alone'
    BY <2>1, <1>1, <1>2, <1>3, <1>8, SameFlash, Zenon DEF BackUpForPartition, Alone
  <2>6. OutputVerified'
    BY <2>1, <1>1, <1>2, <1>3, <1>8, Zenon DEF BackUpForPartition, OutputVerified
  <2>7. QED
    BY <2>2, <2>3, <2>4, <2>5, <2>6, Zenon DEF IInv
<1>9. CASE TruncateCopy
  <2>1. CASE saved' = Junk /\ pc' = "saving"
    <3>1. UNCHANGED <<disk, out, cur, source_file, made_copy, retry>> /\ pc = "save"
      BY <2>1, <1>9, Zenon DEF TruncateCopy
    <3>2. Settled(cur) /\ ~HasResult(cur) /\ source_file # NoFile
      BY <3>1, <1>3, Zenon DEF Progress, SourceIntact, Settled
    <3>3. \A i \in Indices : Settled(i)
      <4>1. \A i \in Indices : i < cur => HasResult(i)
        BY <3>1, <1>3, Zenon DEF Progress
      <4>2. \A i \in Indices : ~Settled(i) /\ cur < i => HasResult(cur)
        BY <1>1, <1>3, Zenon DEF Frontier
      <4>3. \A i \in Indices : i < cur \/ i = cur \/ cur < i
        BY <1>1 DEF Indices
      <4>4. QED
        BY <4>1, <4>2, <4>3, <3>2, Zenon DEF Settled
    <3>4. \A i \in Indices : /\ Content(i)' = Content(i)
                             /\ HasResult(i)' <=> HasResult(i)
                             /\ Settled(i)' <=> Settled(i)
      BY <3>1, Zenon DEF Content, HasResult, Settled
    <3>5. Frontier' /\ Alone' /\ OutputVerified'
      BY <3>3, <3>4, <2>1, Zenon DEF Frontier, Alone, OutputVerified
    <3>6. Progress' /\ SourceIntact'
      BY <3>1, <3>4, <2>1, <1>1, <1>3, Zenon DEF Progress, SourceIntact
    <3>7. QED
      BY <3>5, <3>6, Zenon DEF IInv
  <2>2. CASE Fault("save") /\ UNCHANGED saved
    <3>1. UNCHANGED <<disk, saved, cur, made_copy>> /\ pc' = "aborted"
      BY <2>2, <1>9, Zenon DEF TruncateCopy
    <3>2. QED
      BY <3>1, <1>1, <1>3, SameFlash
, Zenon         DEF IInv, Progress, SourceIntact, Alone, OutputVerified
  <2>3. QED
    BY <2>1, <2>2, <1>9, Zenon DEF TruncateCopy
<1>10. CASE WriteCopy
  <2>1. UNCHANGED <<disk, out, cur, source_file, retry>> /\ pc = "saving"
    BY <1>10, Zenon DEF WriteCopy
  <2>2. \A i \in Indices : Settled(i)
    BY <2>1, <1>1, <1>3, Zenon DEF Alone, SourceIntact, Settled
  <2>3. \A i \in Indices : /\ Content(i)' = Content(i)
                           /\ HasResult(i)' <=> HasResult(i)
                           /\ Settled(i)' <=> Settled(i)
    BY <2>1, Zenon DEF Content, HasResult, Settled
  <2>4. Frontier' /\ Alone'
    BY <2>2, <2>3, Zenon DEF Frontier, Alone
  <2>5. pc' \in {"failed", "aborted"} \/ (pc' = "unlink" /\ saved' = source_file)
    <3>1. source_file # NoFile
      BY <2>1, <1>3, Zenon DEF SourceIntact
    <3>2. \/ pc' \in {"failed", "aborted"}
          \/ /\ saved' = IF source_file = NoFile THEN Junk ELSE source_file
             /\ pc' = IF InPartition(call.target) THEN "open" ELSE "unlink"
      BY <1>10, Zenon DEF WriteCopy
    <3>3. QED
      BY <3>1, <3>2, <1>2, Zenon
  <2>6. Progress' /\ SourceIntact' /\ OutputVerified'
    BY <2>1, <2>3, <2>5, <1>1, <1>3, Zenon DEF Progress, SourceIntact, OutputVerified
  <2>7. QED
    BY <2>4, <2>6, Zenon DEF IInv
<1>11. CASE UnlinkSource
  <2>1. /\ UNCHANGED <<saved, cur, source_file, made_copy, retry>> /\ pc = "unlink"
        /\ pc' = "open" /\ disk' = [disk EXCEPT ![Script[cur].source] = NoFile]
    BY <1>11, Zenon DEF UnlinkSource
  <2>2. \A i \in Indices : i # cur => /\ HasResult(i)' <=> HasResult(i)
                                      /\ Settled(i)' <=> Settled(i)
    BY <2>1, <1>1, OtherFiles, ZenonT(30)
  <2>3. Content(cur)' = NoFile
    BY <2>1, <1>1, <1>2, Zenon DEF Content, IInv, TypeOK
  <2>4. saved \in Script[cur].accept /\ \A i \in Indices : i # cur => Settled(i)
    BY <2>1, <1>3, Zenon DEF SourceIntact, Alone
  <2>5. \A j \in Indices : j < cur => HasResult(j)'
    BY <2>1, <2>2, <1>1, <1>3, Zenon DEF Progress, Indices
  <2>6. Frontier' /\ Alone'
    BY <2>1, <2>2, <2>4, <2>5, Zenon DEF Frontier, Alone
  <2>7. ~HasResult(cur)'
    BY <2>1, <2>3, <1>2, Zenon DEF HasResult
  <2>8. retry' = 0
    BY <2>1, <1>3, Zenon DEF SourceIntact
  <2>9. Progress' /\ SourceIntact' /\ OutputVerified'
    BY <2>1, <2>5, <2>7, <2>8 DEF Progress, SourceIntact, OutputVerified
  <2>10. QED
    BY <2>6, <2>9, Zenon DEF IInv
<1>12. CASE OpenOutput
  <2>1. UNCHANGED <<disk, saved>>
    BY <1>12, Zenon DEF OpenOutput
  <2>2. Frontier'
    BY <2>1, <1>3, SameFlash, Zenon
  <2>3. Progress'
    BY <2>1, <1>1, <1>2, <1>3, <1>12, SameFlash, Zenon DEF OpenOutput, Progress
  <2>4. SourceIntact'
    BY <2>1, <1>1, <1>2, <1>3, <1>12, SameFlash, Zenon DEF OpenOutput, SourceIntact
  <2>5. Alone'
    BY <2>1, <1>1, <1>2, <1>3, <1>12, SameFlash, Zenon DEF OpenOutput, Alone
  <2>6. OutputVerified'
    BY <2>1, <1>1, <1>2, <1>3, <1>12, Zenon DEF OpenOutput, OutputVerified
  <2>7. QED
    BY <2>2, <2>3, <2>4, <2>5, <2>6, Zenon DEF IInv
<1>13. CASE Patched
  <2>1. UNCHANGED <<disk, saved>>
    BY <1>13, Zenon DEF Patched
  <2>2. Frontier'
    BY <2>1, <1>3, SameFlash, Zenon
  <2>3. Progress'
    BY <2>1, <1>1, <1>2, <1>3, <1>13, SameFlash, Zenon DEF Patched, Progress
  <2>4. SourceIntact'
    BY <2>1, <1>1, <1>2, <1>3, <1>13, SameFlash, Zenon DEF Patched, SourceIntact
  <2>5. Alone'
    BY <2>1, <1>1, <1>2, <1>3, <1>13, SameFlash, Zenon DEF Patched, Alone
  <2>6. OutputVerified'
    BY <1>2, <1>13, Zenon DEF Patched, OutputVerified, IInv, TypeOK
  <2>7. QED
    BY <2>2, <2>3, <2>4, <2>5, <2>6, Zenon DEF IInv
<1>14. CASE PatchFailed
  <2>1. UNCHANGED <<disk, saved>>
    BY <1>14, Zenon DEF PatchFailed
  <2>2. Frontier'
    BY <2>1, <1>3, SameFlash, Zenon
  <2>3. Progress'
    BY <2>1, <1>1, <1>2, <1>3, <1>14, SameFlash, Zenon DEF PatchFailed, Progress
  <2>4. SourceIntact'
    BY <2>1, <1>1, <1>2, <1>3, <1>14, SameFlash, Zenon DEF PatchFailed, SourceIntact
  <2>5. Alone'
    BY <2>1, <1>1, <1>2, <1>3, <1>14, SameFlash, Zenon DEF PatchFailed, Alone
  <2>6. OutputVerified'
    BY <2>1, <1>1, <1>2, <1>3, <1>14, Zenon DEF PatchFailed, OutputVerified
  <2>7. QED
    BY <2>2, <2>3, <2>4, <2>5, <2>6, Zenon DEF IInv
<1>15. CASE RenameOutput
  <2>1. CASE /\ pc' = "cleanup" /\ UNCHANGED local
             /\ disk' = [disk EXCEPT ![call.target] = out[call.target]]
    <3>1. /\ UNCHANGED <<saved, cur, made_copy>> /\ pc = "publish"
          /\ disk' = [disk EXCEPT ![Script[cur].source] = Script[cur].result]
      BY <2>1, <1>2, <1>3, <1>15, ZenonT(30) DEF RenameOutput, OutputVerified
    <3>2. \A i \in Indices : i # cur => /\ HasResult(i)' <=> HasResult(i)
                                        /\ Settled(i)' <=> Settled(i)
      BY <3>1, <1>1, OtherFiles, ZenonT(30)
    <3>3. HasResult(cur)' /\ Settled(cur)'
      BY <3>1, <1>1, <1>2, Zenon DEF HasResult, Settled, Content, IInv, TypeOK
    <3>4. Frontier' /\ Alone'
      BY <3>1, <3>2, <3>3, <2>1, <1>1, <1>3, Zenon DEF Frontier, Alone
    <3>5. Progress'
      BY <3>1, <3>2, <3>3, <2>1, <1>1, <1>3, Zenon DEF Progress, Indices
    <3>6. QED
      BY <3>4, <3>5, <2>1, Zenon DEF IInv, SourceIntact, OutputVerified
  <2>2. CASE Fault("publish") /\ UNCHANGED <<disk, out>>
    <3>1. UNCHANGED <<disk, saved, cur, made_copy>> /\ pc' = "aborted"
      BY <2>2, <1>15, Zenon DEF RenameOutput
    <3>2. QED
      BY <3>1, <1>1, <1>3, SameFlash
, Zenon         DEF IInv, Progress, SourceIntact, Alone, OutputVerified
  <2>3. QED
    BY <2>1, <2>2, <1>15, Zenon DEF RenameOutput
<1>16. CASE BeginFlash
  BY <1>2, <1>16, Zenon DEF BeginFlash
<1>17. CASE EndFlash
  BY <1>3, <1>17, Zenon DEF EndFlash, Progress
<1>18. CASE RemoveCopy
  <2>1. /\ UNCHANGED disk /\ pc = "cleanup" /\ NextCall("apply", "done")
        /\ saved' = IF made_copy = 1 THEN NoFile ELSE saved
    BY <1>18, Zenon DEF RemoveCopy
  <2>2. \A i \in Indices : /\ HasResult(i)' <=> HasResult(i)
                           /\ Settled(i)' <=> Settled(i)
    BY <2>1, Zenon DEF Content, HasResult, Settled
  <2>3. \A j \in Indices : j < cur \/ j = cur => HasResult(j)
    BY <2>1, <1>1, <1>3, Zenon DEF Progress
  <2>4. made_copy = 1 => \A i \in Indices : Settled(i)
    BY <2>3, <1>1, <1>3, ZenonT(30) DEF Alone, Settled
  <2>5. Frontier'
    BY <2>1, <2>2, <2>4, <1>1, <1>3, Zenon DEF Frontier
  <2>6. Progress'
    BY <2>1, <2>2, <2>3, <1>1 DEF NextCall, Progress, Indices
  <2>7. SourceIntact' /\ Alone' /\ OutputVerified'
    BY <2>1 DEF NextCall, SourceIntact, Alone, OutputVerified
  <2>8. QED
    BY <2>5, <2>6, <2>7, Zenon DEF IInv
<1>19. CASE Restart
  <2>1. UNCHANGED <<disk, saved>>
    BY <1>19, Zenon DEF Restart
  <2>2. Frontier'
    BY <2>1, <1>3, SameFlash, Zenon
  <2>3. Progress'
    BY <2>1, <1>1, <1>2, <1>3, <1>19, SameFlash, Zenon DEF Restart, Progress
  <2>4. SourceIntact'
    BY <2>1, <1>1, <1>2, <1>3, <1>19, SameFlash, Zenon DEF Restart, SourceIntact
  <2>5. Alone'
    BY <2>1, <1>1, <1>2, <1>3, <1>19, SameFlash DEF Restart, Alone
  <2>6. OutputVerified'
    BY <2>1, <1>1, <1>2, <1>3, <1>19, Zenon DEF Restart, OutputVerified
  <2>7. QED
    BY <2>2, <2>3, <2>4, <2>5, <2>6, Zenon DEF IInv
<1>20. QED
  BY <1>4, <1>5, <1>6, <1>7, <1>8, <1>9, <1>10, <1>11, <1>12, <1>13, <1>14,
     <1>15, <1>16, <1>17, <1>18, <1>19, Zenon DEF Next, Step

LEMMA IInvInvariant == ASSUME InPlaceScript PROVE Spec => []IInv
<1>1. Init => IInv
  BY InitIInv, Zenon
<1>2. IInv /\ TypeOK' /\ [Next]_vars => IInv'
  <2>1. IInv /\ UNCHANGED vars => IInv'
    BY Zenon DEF IInv, TypeOK, Frontier, Progress, SourceIntact, Alone,
       OutputVerified, Settled, HasResult, Content, vars, local
  <2>2. QED
    BY <2>1, IInvStep, Zenon
<1>3. QED
  BY <1>1, <1>2, TypeCorrect, PTL DEF Spec

\* Recoverable, for every script that patches files in place: no crash and no
\* fault, at any step of any run, loses the only copy of a file that still has
\* to be patched.
THEOREM NeverLosesSource == ASSUME InPlaceScript PROVE Spec => []Recoverable
<1>1. IInv => Recoverable
  <2>1. SUFFICES ASSUME IInv, NEW i \in Indices
                 PROVE  \/ IsPatched(Script[i])
                        \/ disk[Script[i].source] \in Script[i].accept
                        \/ saved \in Script[i].accept
    BY Zenon DEF Recoverable, Calls, Indices
  <2>2. QED
    BY <2>1, InPlaceTarget, Zenon DEF IInv, Frontier, Settled, HasResult, Content,
       IsPatched
<1>2. QED
  BY <1>1, IInvInvariant, PTL

-----------------------------------------------------------------------------
\* The refinement: the only steps that change what is visible are the rename, which
\* makes one file new, and the step that ends the script.
LEMMA VersionOf ==
  ASSUME InPlaceScript, IInv, NEW i \in Indices
  PROVE  Version(i) = IF HasResult(i) THEN "new" ELSE "old"
<1>1. Settled(i) \/ saved \in Script[i].accept
  BY Zenon DEF IInv, Frontier
<1> QED BY <1>1, InPlaceTarget, Zenon DEF Version, IsPatched, HasResult, Settled, Content

LEMMA DiskSteps ==
  ASSUME InPlaceScript, IInv, TypeOK', [Next]_vars
  PROVE  \/ UNCHANGED disk
         \/ pc = "unlink" /\ disk' = [disk EXCEPT ![call.source] = NoFile]
         \/ pc = "publish" /\ disk' = [disk EXCEPT ![call.target] = out[call.target]]
<1>1. call \in PatchCall /\ ~InPartition(call.target)
  BY CallType, InPlaceTarget, Zenon DEF IInv, TypeOK, call, Indices, InPartition
<1>2. ~BeginFlash /\ ~EndFlash
  BY <1>1, Zenon DEF BeginFlash, EndFlash, IInv, Progress
<1>3. CASE UnlinkSource
  BY <1>3, Zenon DEF UnlinkSource
<1>4. CASE RenameOutput
  BY <1>4, Zenon DEF RenameOutput
<1>5. CASE UNCHANGED vars
  BY <1>5, SMTT(30) DEF vars
<1>6. ASSUME Next, ~UnlinkSource, ~RenameOutput PROVE UNCHANGED disk
  BY <1>2, <1>6, ZenonT(30) DEF Next, Step, ApplyPatchCheck, PickSource, EnoughSpace,
     NotEnoughSpace, BackUpForPartition, TruncateCopy, WriteCopy, OpenOutput,
     Patched, PatchFailed, RemoveCopy, Restart, persistent
<1> QED BY <1>3, <1>4, <1>5, <1>6, Zenon

LEMMA DoneSteps ==
  ASSUME IInv, [Next]_vars
  PROVE  /\ pc = "done" => pc' = "done" /\ UNCHANGED disk
         /\ pc' = "done" => UNCHANGED disk
<1>1. CASE UNCHANGED vars
  BY <1>1, SMTT(30) DEF vars
<1>2. ASSUME Next PROVE pc # "done"
  BY <1>2, ZenonT(30) DEF Next, Step, ApplyPatchCheck, PickSource, EnoughSpace,
     NotEnoughSpace, BackUpForPartition, TruncateCopy, WriteCopy, UnlinkSource,
     OpenOutput, Patched, PatchFailed, RenameOutput, BeginFlash, EndFlash,
     RemoveCopy, Restart
<1>3. ASSUME UnlinkSource \/ RenameOutput \/ BeginFlash \/ EndFlash
      PROVE  pc' # "done"
  BY <1>3, SMTT(30) DEF UnlinkSource, RenameOutput, BeginFlash, EndFlash, Goto, Fault
<1>4. ASSUME Next, ~(UnlinkSource \/ RenameOutput \/ BeginFlash \/ EndFlash)
      PROVE  UNCHANGED disk
  BY <1>4, ZenonT(30) DEF Next, Step, ApplyPatchCheck, PickSource, EnoughSpace,
     NotEnoughSpace, BackUpForPartition, TruncateCopy, WriteCopy, OpenOutput,
     Patched, PatchFailed, RemoveCopy, Restart, persistent
<1> QED BY <1>1, <1>2, <1>3, <1>4, Zenon

LEMMA RefinesStep ==
  ASSUME InPlaceScript, IInv, IInv', [Next]_vars
  PROVE  [Atomic!Next]_<<[i \in 1..Len(Script) |-> Version(i)],
                         IF pc = "done" THEN "finished" ELSE "running">>
<1> DEFINE ver == [i \in Indices |-> Version(i)]
           ph == IF pc = "done" THEN "finished" ELSE "running"
<1>1. /\ TypeOK /\ TypeOK' /\ cur \in Indices
      /\ \A i \in Indices : /\ Version(i) = IF HasResult(i) THEN "new" ELSE "old"
                            /\ Version(i)' = IF HasResult(i)' THEN "new" ELSE "old"
  <2>1. ASSUME NEW i \in Indices
        PROVE  Version(i)' = IF HasResult(i)' THEN "new" ELSE "old"
    <3>1. Settled(i)' \/ saved' \in Script[i].accept
      BY Zenon DEF IInv, Frontier
    <3> QED BY <3>1, InPlaceTarget, Zenon DEF Version, IsPatched, HasResult, Settled, Content
  <2> QED BY <2>1, VersionOf, Zenon DEF IInv, TypeOK, Indices
<1>2. CASE UNCHANGED disk
  <2>1. \A i \in Indices : Version(i)' = Version(i)
    BY <1>1, <1>2, Zenon DEF HasResult, Content
  <2>2. ver' = ver
    BY <2>1, Zenon
  <2>3. CASE pc' = "done" /\ pc # "done"
    <3>1. \A i \in Indices : HasResult(i)'
      BY <2>3, Zenon DEF IInv, Progress
    <3>2. \A i \in Indices : ver[i] = "new"
      BY <3>1, <2>1, <1>1, Zenon
    <3>3. Atomic!Finish
      BY <2>2, <2>3, <3>2, Zenon DEF Atomic!Finish, Indices
    <3> QED BY <3>3, Zenon DEF Atomic!Next
  <2>4. CASE pc' = "done" <=> pc = "done"
    BY <2>2, <2>4, Zenon DEF Indices
  <2> QED BY <2>3, <2>4, DoneSteps, Zenon
<1>3. CASE /\ pc = "unlink" /\ pc' # "done"
           /\ disk' = [disk EXCEPT ![call.source] = NoFile]
  <2>1. \A i \in Indices : HasResult(i)' <=> HasResult(i)
    <3>1. ~HasResult(cur)
      BY <1>3, Zenon DEF IInv, Progress, Generating
    <3>2. ASSUME NEW i \in Indices
          PROVE  Content(i)' = IF i = cur THEN NoFile ELSE Content(i)
      BY <1>1, <1>3, <3>2, InPlaceTarget
, Zenon         DEF Content, InPlaceScript, call, TypeOK
    <3> QED BY <1>1, <3>1, <3>2, CallType, Zenon DEF HasResult
  <2>2. ver' = ver
    BY <1>1, <2>1, Zenon
  <2> QED BY <1>3, <2>2, Zenon DEF Indices
<1>4. CASE /\ pc = "publish" /\ pc' # "done"
           /\ disk' = [disk EXCEPT ![call.target] = out[call.target]]
  <2>1. /\ ~HasResult(cur) /\ out[Script[cur].source] = Script[cur].result
        /\ \A j \in Indices : j < cur => HasResult(j)
    BY <1>4, Zenon DEF IInv, Progress, Generating, Applying, OutputVerified
  <2>2. ASSUME NEW i \in Indices
        PROVE  Content(i)' = IF i = cur THEN Script[cur].result ELSE Content(i)
    BY <1>1, <1>4, <2>1, <2>2, InPlaceTarget DEF Content, InPlaceScript, call, TypeOK
  <2>3. \A i \in Indices : HasResult(i)' <=> (i = cur \/ HasResult(i))
    BY <1>1, <2>1, <2>2, Zenon DEF HasResult
  <2>4. ver' = [ver EXCEPT ![cur] = "new"]
    BY <1>1, <2>3, ZenonT(30)
  <2>5. Atomic!Update(cur)
    BY <1>1, <1>4, <2>1, <2>4, Zenon DEF Atomic!Update, Indices
  <2> QED BY <1>1, <2>5, Zenon DEF Atomic!Next, Indices
<1> QED BY <1>1, <1>2, <1>3, <1>4, DiskSteps, DoneSteps, Zenon

\* UpdatesAtomically, for every script that patches files in place, any faults and any
\* number of restarts: ApplyPatch implements the update without crashes.
THEOREM ImplementsAtomicUpdate == ASSUME InPlaceScript PROVE Spec => UpdatesAtomically
<1>1. Init => Atomic!Init
  <2> SUFFICES ASSUME Init PROVE Atomic!Init
    BY Zenon
  <2>1. \A i \in Indices : Version(i) \in {"old", "new"}
    BY InitIInv, VersionOf, Zenon
  <2>2. [i \in 1..Len(Script) |-> Version(i)] \in [1..Len(Script) -> {"old", "new"}]
    BY <2>1, Zenon DEF Indices
  <2>3. pc # "done"
    BY Zenon DEF Init
  <2> QED BY <2>2, <2>3, Zenon DEF Atomic!Init
<1>2. IInv /\ IInv' /\ [Next]_vars
        => [Atomic!Next]_<<[i \in 1..Len(Script) |-> Version(i)],
                           IF pc = "done" THEN "finished" ELSE "running">>
  BY RefinesStep, Zenon
<1> QED BY <1>1, <1>2, IInvInvariant, PTL DEF Spec, UpdatesAtomically, Atomic!Spec
=============================================================================
