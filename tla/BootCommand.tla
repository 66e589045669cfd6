---------------------------- MODULE BootCommand ----------------------------
(***************************************************************************)
(* How a request reaches recovery and is carried out: Android leaves the   *)
(* arguments in /cache/recovery/command or a script in                     *)
(* /cache/recovery/openrecoveryscript and reboots; main() of twrp.cpp takes*)
(* the arguments with get_args(), which copies them to the bootloader      *)
(* control block (BCB, partition /misc), turns them into a script in /tmp, *)
(* erases the BCB and the command file with Update_Log_File(), runs the    *)
(* scripts and reboots or shows the GUI.  Power may fail between any two   *)
(* steps, the recovery process may die and be started again by init (its   *)
(* service is not "oneshot"), with /tmp as it was.                         *)
(*                                                                         *)
(* A command is <<request, line, kind>>.  The arguments of a request are a *)
(* set, as main() only sets flags from them; a script is a sequence.  An   *)
(* absent file is the empty set or sequence.  The values of arguments are  *)
(* left out but for what is done to them: main() keeps the value of        *)
(* --update_package and only the '=' of --restore and --partition.         *)
(***************************************************************************)
EXTENDS Integers, Sequences

CONSTANTS
  Requests,     \* the sets of arguments Android may write to the command file
  Scripts,      \* the scripts Android may write to /cache
  Faults,       \* what may go wrong
  MaxRequests,  \* bound: requests and scripts
  MaxFaults     \* bound: faults

ArgKinds == {"install", "wipe_data", "wipe_cache", "backup", "restore_arg"}
LineKinds == {"install", "wipe_data", "wipe_cache", "backup", "restore", "mkdir",
              "mount", "sideload", "unknown"}
FaultKinds == {"power", "killed", "hot", "mount", "misc", "tmp", "copy", "wipe", "parted"}

ASSUME ConstantsAssumption ==
  /\ Requests \subseteq SUBSET ArgKinds
  /\ Scripts \subseteq Seq(LineKinds) \ {<<>>}
  /\ Faults \subseteq FaultKinds
  /\ MaxRequests \in Nat /\ MaxFaults \in Nat

Commands == (1..MaxRequests) \X Nat \X (ArgKinds \cup LineKinds \cup {"partition"})

VARIABLES
  boot_command,  \* the BCB: its command (1: "boot-recovery")
  boot_args,     \* the BCB: the arguments after "recovery"
  command,   \* /cache/recovery/command
  ors,       \* /cache/recovery/openrecoveryscript
  tmp,       \* /tmp/openrecoveryscript
  argv,      \* main()'s arguments, until they are in the script
  pc,        \* where recovery is; "android", "off": it does not run
  after,     \* where Update_Log_File() returns to
  reason,    \* the reboot reason the boot loader sees; "user" after a power-up
  cache,     \* 1: /cache can be mounted in this run of recovery
  line,      \* position in tmp of run_script_file()
  second,    \* 1: the running script is the one from /cache
  ret,       \* ret_val of run_script_file()
  sideload,  \* its local variable
  reboot,    \* local variable of the GUI action
  requests,  \* number of requests made
  asked,     \* history: the commands asked for
  started,   \* history: the commands run, once or more
  again,     \* history: the commands run more than once
  dropped,   \* history: the commands given up in a way the code provides for
  seen,      \* history: the kinds of faults so far
  faults     \* their number

misc == <<boot_command, boot_args>>
vars == <<misc, command, ors, tmp, argv, pc, after, reason, cache, line, second, ret,
          sideload, reboot, requests, asked, started, again, dropped, seen, faults>>
disk == <<misc, command, ors>>
script == <<line, second, ret, sideload, reboot>>
history == <<requests, asked, started, again, dropped>>

Elems(s) == {s[i] : i \in DOMAIN s}
Of(args, kind) == {c \in args : c[3] = kind}
EmptyMessage == boot_command' = 0 /\ boot_args' = {}

Labels == {"insert", "script", "tw_reboot", "system", "recovery", "hot", "poweroff"}

FilesType ==
  /\ boot_command \in 0..1 /\ boot_args \in SUBSET Commands
  /\ command \in SUBSET Commands
  /\ ors \in Seq(Commands)
  /\ tmp \in Seq(Commands)
  /\ argv \in SUBSET Commands
  /\ line \in 1..(Len(tmp) + 1)

ControlType ==
  /\ pc \in Labels \cup {"android", "off", "get_args", "erase", "write", "main", "log",
                         "unlink", "check", "delete", "run", "decide", "gui", "set_msg"}
  /\ after \in Labels
  /\ reason \in {"system", "recovery", "user"}
  /\ cache \in 0..1 /\ second \in 0..1 /\ ret \in 0..1 /\ sideload \in 0..1 /\ reboot \in 0..1

HistoryType ==
  /\ requests \in 0..MaxRequests
  /\ asked \in SUBSET Commands /\ dropped \in SUBSET asked
  /\ started \in SUBSET asked /\ again \in SUBSET started
  /\ seen \in SUBSET Faults /\ faults \in 0..MaxFaults

\* Every variable keeps its type; in particular line stays inside the script
\* file and the commands of the files are ones somebody asked for.
TypeOK ==
  /\ FilesType /\ ControlType /\ HistoryType
  /\ boot_args \cup command \cup Elems(ors) \cup argv \cup Elems(tmp) \subseteq asked

Init ==
  /\ boot_command = 0 /\ boot_args = {}
  /\ command = {} /\ ors = <<>> /\ tmp = <<>> /\ argv = {}
  /\ pc = "android" /\ after = "script" /\ reason = "user" /\ cache = 1
  /\ line = 1 /\ second = 0 /\ ret = 0 /\ sideload = 0 /\ reboot = 0
  /\ requests = 0 /\ asked = {} /\ started = {} /\ again = {} /\ dropped = {}
  /\ seen = {} /\ faults = 0

\* The fault f happens now, or none does.
Fault(f) ==
  /\ f \in Faults /\ faults < MaxFaults
  /\ seen' = seen \cup {f} /\ faults' = faults + 1
NoFault == UNCHANGED <<seen, faults>>

----------------------------------------------------------------------------
(* Android and the boot loader *)

\* Android (or an app) writes the command file.
WriteCommand(kinds) ==
  /\ pc = "android" /\ command = {} /\ requests < MaxRequests
  /\ requests' = requests + 1
  /\ command' = {<<requests + 1, 0, k>> : k \in kinds}
  /\ asked' = asked \cup command'
  /\ NoFault
  /\ UNCHANGED <<misc, ors, tmp, argv, pc, after, reason, cache, script, started, again, dropped>>

\* An app writes an OpenRecoveryScript.
WriteScript(s) ==
  /\ pc = "android" /\ ors = <<>> /\ requests < MaxRequests
  /\ requests' = requests + 1
  /\ ors' = [i \in 1..Len(s) |-> <<requests + 1, i, s[i]>>]
  /\ asked' = asked \cup Elems(ors')
  /\ NoFault
  /\ UNCHANGED <<misc, command, tmp, argv, pc, after, reason, cache, script, started, again, dropped>>

AndroidReboots(why) ==
  /\ pc = "android"
  /\ pc' = "off" /\ reason' = why
  /\ NoFault
  /\ UNCHANGED <<disk, tmp, argv, after, cache, script, history>>

\* The variables of a recovery process that starts, or of none.
NewProcess ==
  /\ argv' = {} /\ after' = "script"
  /\ line' = 1 /\ second' = 0 /\ ret' = 0 /\ sideload' = 0 /\ reboot' = 0

\* The boot loader starts recovery when the kernel's reboot reason or the BCB
\* says so; after a power-up without either the user chooses.  main() mounts
\* /cache before it calls get_args().
BootRecovery ==
  /\ pc = "off"
  /\ boot_command = 1 \/ reason \in {"recovery", "user"}
  /\ pc' = "get_args"
  /\ (cache' = 1 /\ NoFault) \/ (cache' = 0 /\ Fault("mount"))
  /\ UNCHANGED <<disk, tmp, argv, after, reason, script, history>>

BootAndroid ==
  /\ pc = "off"
  /\ boot_command = 0 /\ reason \in {"system", "user"}
  /\ pc' = "android"
  /\ NoFault
  /\ UNCHANGED <<disk, tmp, argv, after, reason, cache, script, history>>

----------------------------------------------------------------------------
(* get_args() *)

\* Arguments from the BCB, else from the command file.
Arguments ==
  IF boot_args # {} THEN boot_args
  ELSE IF cache = 1 THEN command ELSE {}

ReadArgs ==
  /\ pc = "get_args"
  /\ argv' = Arguments
  /\ pc' = "erase"
  /\ NoFault
  /\ UNCHANGED <<disk, tmp, after, reason, cache, script, history>>

\* set_bootloader_msg() on an MTD partition: the block is erased, then written.
\* Its result is not looked at.
EraseBCB ==
  /\ pc = "erase"
  /\ \/ EmptyMessage /\ pc' = "write" /\ NoFault
     \/ UNCHANGED misc /\ pc' = "main" /\ Fault("misc")
  /\ UNCHANGED <<command, ors, tmp, argv, after, reason, cache, script, history>>

WriteBCB ==
  /\ pc = "write"
  /\ boot_command' = 1 /\ boot_args' = argv
  /\ pc' = "main"
  /\ NoFault
  /\ UNCHANGED <<command, ors, tmp, argv, after, reason, cache, script, history>>

----------------------------------------------------------------------------
(* main(), from the arguments to the script in /tmp *)

\* --partition: Format_SDCard() gets "=", finds no "device:filesystem" in it and
\* only calls Update_Log_File().
Format_SDCard ==
  /\ pc = "main"
  /\ dropped' = dropped \cup Of(argv, "partition")
  /\ argv' = argv \ Of(argv, "partition")
  /\ IF Of(argv, "partition") # {}
     THEN pc' = "log" /\ after' = "insert"
     ELSE pc' = "insert" /\ after' = after
  /\ NoFault
  /\ UNCHANGED <<disk, tmp, reason, cache, script, requests, asked, started, again>>

\* The commands main() inserts: a backup or else a restore, an installation, a
\* wipe of data or else of the cache.  Insert_ORS_Command() truncates the file,
\* so the last one inserted is what the script holds.
FirstInsert(args) ==
  IF Of(args, "backup") # {} THEN Of(args, "backup") ELSE Of(args, "restore_arg")
WipeInsert(args) ==
  IF Of(args, "wipe_data") # {} THEN Of(args, "wipe_data") ELSE Of(args, "wipe_cache")
LastInsert(args) ==
  IF WipeInsert(args) # {} THEN WipeInsert(args)
  ELSE IF Of(args, "install") # {} THEN Of(args, "install") ELSE FirstInsert(args)

\* With the fault an open fails: what was inserted before it, if anything, stays.
Insert_ORS_Command ==
  /\ pc = "insert"
  /\ \/ /\ NoFault
        /\ \/ \E c \in LastInsert(argv) : tmp' = <<c>>
           \/ LastInsert(argv) = {} /\ tmp' = tmp
     \/ /\ LastInsert(argv) # {} /\ Fault("tmp")
        /\ \/ tmp' = tmp
           \/ \E c \in (FirstInsert(argv) \cup Of(argv, "install")) \ LastInsert(argv) : tmp' = <<c>>
  /\ argv' = {}
  /\ dropped' = dropped \cup ((argv \cup Elems(tmp)) \ Elems(tmp'))
  /\ pc' = "log" /\ after' = "script" /\ line' = 1
  /\ UNCHANGED <<disk, reason, cache, second, ret, sideload, reboot, requests, asked, started, again>>

----------------------------------------------------------------------------
(* Update_Log_File(): the BCB is erased, then the command file is removed. *)

\* An erased and a zeroed block say the same, nothing.
ClearBCB ==
  /\ pc = "log"
  /\ pc' = "unlink"
  /\ \/ EmptyMessage /\ NoFault
     \/ UNCHANGED misc /\ Fault("misc")
  /\ UNCHANGED <<command, ors, tmp, argv, after, reason, cache, script, history>>

\* Mutant: the command file is not removed.
UnlinkCommand_Forgotten ==
  /\ pc = "unlink" /\ pc' = after
  /\ NoFault
  /\ UNCHANGED <<misc, command, ors, tmp, argv, after, reason, cache, script, history>>

UnlinkCommand ==
  /\ pc = "unlink"
  /\ command' = IF cache = 1 THEN {} ELSE command
  /\ pc' = after
  /\ NoFault
  /\ UNCHANGED <<misc, ors, tmp, argv, after, reason, cache, script, history>>

----------------------------------------------------------------------------
(* The GUI action "openrecoveryscript" *)

\* main() starts the action when either file is there.
Run_OpenRecoveryScript ==
  /\ pc = "script"
  /\ pc' = IF tmp # <<>> THEN "run" ELSE IF cache = 1 /\ ors # <<>> THEN "check" ELSE "gui"
  /\ NoFault
  /\ UNCHANGED <<disk, tmp, argv, after, reason, cache, script, history>>

\* What a line may leave in ret_val: a wipe's failure is ignored, mkdir reports
\* success as failure, a restore from the arguments looks for a folder "=".
Results(kind) ==
  CASE kind \in {"wipe_data", "wipe_cache", "mount"} -> {0}
    [] kind \in {"unknown", "restore_arg", "partition"} -> {1}
    [] OTHER -> {0, 1}

\* Whether the line formats /cache; a package may ask for it.
FormatsCache(kind) ==
  CASE kind \in {"wipe_data", "wipe_cache"} -> {1}
    [] kind \in {"install", "sideload"} -> {0, 1}
    [] OTHER -> {0}

\* One line of run_script_file().
RunLine ==
  /\ pc = "run" /\ line <= Len(tmp) /\ ret = 0
  /\ LET c == tmp[line] IN
     /\ ret' \in Results(c[3])
     /\ sideload' = IF c[3] = "sideload" THEN 1 ELSE sideload
     /\ started' = started \cup {c}
     /\ again' = again \cup ({c} \cap started)
     /\ \E formats \in FormatsCache(c[3]) :
        \/ /\ formats = 1 /\ ret' = 0 /\ NoFault
           /\ command' = {} /\ ors' = <<>>
           /\ dropped' = dropped \cup command \cup Elems(ors)
        \/ /\ formats = 0 /\ NoFault
           /\ UNCHANGED <<command, ors, dropped>>
        \/ /\ formats = 1 /\ ret' = 0 /\ Fault("wipe")
           /\ UNCHANGED <<command, ors, dropped>>
  /\ line' = line + 1
  /\ UNCHANGED <<misc, tmp, argv, pc, after, reason, cache, second, reboot, requests, asked>>

\* Mutant: the scripts that succeeded are counted.
EndScript_Counts ==
  /\ pc = "run" /\ (line > Len(tmp) \/ ret # 0)
  /\ reboot' = IF ret = 0 /\ sideload = 0 THEN reboot + 1 ELSE reboot
  /\ dropped' = dropped \cup {tmp[i] : i \in line..Len(tmp)}
  /\ line' = Len(tmp) + 1
  /\ pc' = IF second = 0 THEN "check" ELSE "decide"
  /\ NoFault
  /\ UNCHANGED <<disk, tmp, argv, after, reason, cache, second, ret, sideload, requests, asked,
                 started, again>>

\* The end of run_script_file(): the lines after a failed one are not run, and a
\* sideload makes any script fail.
EndScript ==
  /\ pc = "run" /\ (line > Len(tmp) \/ ret # 0)
  /\ reboot' = IF ret = 0 /\ sideload = 0 THEN 1 ELSE reboot
  /\ dropped' = dropped \cup {tmp[i] : i \in line..Len(tmp)}
  /\ line' = Len(tmp) + 1
  /\ pc' = IF second = 0 THEN "check" ELSE "decide"
  /\ NoFault
  /\ UNCHANGED <<disk, tmp, argv, after, reason, cache, second, ret, sideload, requests, asked,
                 started, again>>

\* Mutant: the script is removed from /cache before it is copied.
CopyScript_DeleteFirst ==
  /\ pc = "check" /\ cache = 1 /\ ors # <<>>
  /\ ors' = <<>>
  /\ tmp' = <<>> /\ pc' = "delete" /\ line' = 1
  /\ NoFault
  /\ UNCHANGED <<misc, command, argv, after, reason, cache, second, ret, sideload, reboot, history>>

\* check_for_script_file(): the script of /cache replaces the one in /tmp.  The
\* result of the copy is not looked at.
CopyScript ==
  /\ pc = "check" /\ cache = 1 /\ ors # <<>>
  /\ \/ tmp' = ors /\ NoFault
     \/ tmp' = tmp /\ Fault("copy")
  /\ line' = 1 /\ pc' = "delete"
  /\ UNCHANGED <<disk, argv, after, reason, cache, second, ret, sideload, reboot, history>>

DeleteScript ==
  /\ pc = "delete"
  /\ ors' = <<>>
  /\ second' = 1 /\ ret' = 0 /\ sideload' = 0
  /\ pc' = IF tmp = <<>> THEN "decide" ELSE "run"
  /\ NoFault
  /\ UNCHANGED <<misc, command, tmp, argv, after, reason, cache, line, reboot, history>>

NoScript ==
  /\ pc = "check" /\ (cache = 0 \/ ors = <<>>)
  /\ pc' = "decide"
  /\ NoFault
  /\ UNCHANGED <<disk, tmp, argv, after, reason, cache, script, history>>

\* Mutant: after a failure the page starts over.
Decide_Retries ==
  /\ pc = "decide"
  /\ pc' = IF reboot = 1 THEN "tw_reboot" ELSE "script"
  /\ NoFault
  /\ UNCHANGED <<disk, tmp, argv, after, reason, cache, script, history>>

\* A script that succeeded reboots the device, otherwise the GUI comes up.
Decide ==
  /\ pc = "decide"
  /\ pc' = IF reboot = 1 THEN "tw_reboot" ELSE "gui"
  /\ NoFault
  /\ UNCHANGED <<disk, tmp, argv, after, reason, cache, script, history>>

----------------------------------------------------------------------------
(* The GUI and the ways out of recovery *)

\* The user leaves the GUI: main() calls Update_Log_File() and tw_reboot().
UserReboots(how) ==
  /\ pc = "gui"
  /\ pc' = "log" /\ after' = how
  /\ IF how = "hot" THEN Fault("hot") ELSE NoFault
  /\ UNCHANGED <<disk, tmp, argv, reason, cache, script, history>>

\* tw_reboot(rb_system) calls Update_Log_File() itself.
Tw_Reboot ==
  /\ pc = "tw_reboot"
  /\ pc' = "log" /\ after' = "system"
  /\ NoFault
  /\ UNCHANGED <<disk, tmp, argv, reason, cache, script, history>>

\* The RAM's contents are gone.
SwitchOff(why) == pc' = "off" /\ reason' = why /\ tmp' = <<>> /\ NewProcess

Restart ==
  /\ pc \in {"system", "recovery", "poweroff"}
  /\ SwitchOff(IF pc = "poweroff" THEN "user" ELSE pc)
  /\ NoFault
  /\ UNCHANGED <<disk, cache, history>>

\* Partition_SDCard() when parted failed: the rest is left to recovery's next
\* start, with --partition in the BCB but no boot command.  (When the message
\* cannot be written it goes on without a reboot, which changes nothing here.)
Partition_SDCard ==
  /\ pc = "gui" /\ requests < MaxRequests /\ Fault("parted")
  /\ requests' = requests + 1
  /\ argv' = {<<requests + 1, 0, "partition">>}
  /\ asked' = asked \cup argv'
  /\ EmptyMessage /\ pc' = "set_msg"
  /\ UNCHANGED <<command, ors, tmp, after, reason, cache, script, started, again, dropped>>

Partition_SetMsg ==
  /\ pc = "set_msg"
  /\ boot_command' = 0 /\ boot_args' = argv
  /\ argv' = {} /\ pc' = "recovery"
  /\ NoFault
  /\ UNCHANGED <<command, ors, tmp, after, reason, cache, script, history>>

\* rb_hot kills recovery; init starts it again, /tmp is what it was.
HotReboot ==
  /\ pc = "hot"
  /\ pc' = "get_args" /\ NewProcess
  /\ NoFault
  /\ UNCHANGED <<disk, tmp, reason, cache, history>>

----------------------------------------------------------------------------
(* Power failure, death of the process *)

Running == pc \notin {"android", "off"}

\* The commands that only /tmp holds are given up.
PowerFails ==
  /\ Running /\ Fault("power")
  /\ SwitchOff("user")
  /\ dropped' = dropped \cup (Elems(tmp) \ (started \cup boot_args \cup command \cup Elems(ors)))
  /\ UNCHANGED <<disk, cache, requests, asked, started, again>>

ProcessDies ==
  /\ Running /\ Fault("killed")
  /\ pc' = "get_args" /\ NewProcess
  /\ UNCHANGED <<disk, tmp, reason, cache, history>>

----------------------------------------------------------------------------
Startup ==
  \/ BootRecovery \/ BootAndroid
  \/ ReadArgs \/ EraseBCB \/ WriteBCB
  \/ Format_SDCard \/ Insert_ORS_Command
  \/ ClearBCB \/ UnlinkCommand
  \/ Run_OpenRecoveryScript \/ RunLine \/ EndScript
  \/ CopyScript \/ DeleteScript \/ NoScript \/ Decide
  \/ Tw_Reboot \/ Restart \/ HotReboot \/ Partition_SetMsg

Android ==
  \/ \E kinds \in Requests : WriteCommand(kinds)
  \/ \E s \in Scripts : WriteScript(s)
  \/ \E why \in {"recovery", "system"} : AndroidReboots(why)

User ==
  \/ \E how \in {"tw_reboot", "recovery", "hot", "poweroff"} : UserReboots(how)
  \/ Partition_SDCard

Next == Startup \/ Android \/ User \/ PowerFails \/ ProcessDies

Spec == Init /\ [][Next]_vars

\* The program and the boot loader go on by themselves; Android, the user and
\* the faults need not do anything.
FairSpec == Spec /\ WF_vars(Startup)

----------------------------------------------------------------------------
(* Properties *)

Stored == boot_args \cup command \cup Elems(ors)
InMemory == IF pc \in {"android", "off", "gui"} THEN {} ELSE argv \cup Elems(tmp)

\* No command is carried out twice, whatever power failures interrupt the run:
\* a script runs only after the BCB and the command file were erased, the script
\* of /cache only after it was removed there.  (Not when the process restarts
\* with its /tmp, when the BCB cannot be written, /cache cannot be mounted or the
\* script cannot be copied.)
AtMostOnce ==
  seen \cap {"killed", "hot", "mount", "misc", "copy"} = {} => again = {}

\* A command asked for is always still stored, in memory on its way to be run,
\* or was run, unless it was given up in one of four ways: a later insertion
\* replaced it, a line before it failed, power failed while only /tmp had it,
\* or a format of /cache took it.  (Not with Partition_SDCard's message, which hides
\* the command file, nor when the script cannot be copied or the BCB not written.)
Accounted ==
  seen \cap {"parted", "copy", "misc"} = {} =>
    asked \subseteq started \cup dropped \cup Stored \cup InMemory

\* recovery.cpp: after get_args() wrote the BCB, rebooting restarts the erase or
\* the installation: Android does not come up with one of them forgotten.
RestartsErase == pc = "android" => asked \subseteq started \cup Stored

\* Every start of recovery comes to the GUI or to Android: a request does not
\* keep the device rebooting into recovery.
StartupEnds == (pc = "get_args") ~> (pc \in {"gui", "android"})
============================================================================
