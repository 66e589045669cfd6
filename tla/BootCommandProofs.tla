------------------------- MODULE BootCommandProofs -------------------------
(***************************************************************************)
(* Theorems about BootCommand, for any requests, scripts, faults and any   *)
(* number of them.                                                         *)
(***************************************************************************)
EXTENDS BootCommand, TLAPS

----------------------------------------------------------------------------
(* Types *)

LEMMA Bounds == MaxRequests \in Nat /\ MaxFaults \in Nat
  BY ConstantsAssumption, Zenon

LEMMA ElemsEmpty == Elems(<<>>) = {}
  BY DEF Elems

LEMMA ElemsOne == \A c : Elems(<<c>>) = {c}
  BY DEF Elems

LEMMA ElemsHas == \A s \in Seq(Commands) : \A i \in 1..Len(s) : s[i] \in Elems(s)
  BY DEF Elems

LEMMA NewCommand ==
  ASSUME HistoryType, requests < MaxRequests, NEW i \in Nat,
         NEW k \in ArgKinds \cup LineKinds \cup {"partition"}
  PROVE  <<requests + 1, i, k>> \in Commands /\ requests + 1 \in 0..MaxRequests
  BY Bounds DEF HistoryType, Commands

LEMMA InitType == Init => TypeOK
<1> SUFFICES ASSUME Init PROVE TypeOK
  BY Zenon
<1>1. FilesType
  BY DEF Init, FilesType
<1>2. ControlType
  BY DEF Init, ControlType, Labels
<1>3. HistoryType
  BY Bounds DEF Init, HistoryType
<1> QED
  BY <1>1, <1>2, <1>3, ElemsEmpty, Zenon DEF Init, TypeOK

LEMMA StepType == TypeOK /\ [Next]_vars => TypeOK'
<1> SUFFICES ASSUME TypeOK, [Next]_vars PROVE TypeOK'
  BY Zenon
<1>1. CASE BootRecovery
  <2>1. FilesType'
    BY <1>1, Zenon DEF BootRecovery, misc, disk, script, history, NoFault, TypeOK, Fault, FilesType
  <2>2. ControlType'
    BY <1>1 DEF BootRecovery, misc, disk, script, history, NoFault, TypeOK, Fault, ControlType,
       Labels
  <2>3. HistoryType'
    BY <1>1, Bounds DEF BootRecovery, misc, disk, script, history, NoFault, TypeOK, Fault,
       FilesType, HistoryType
  <2> QED
    BY <1>1, <2>1, <2>2, <2>3, Zenon DEF BootRecovery, misc, disk, script, history, NoFault, TypeOK,
       Fault, FilesType
<1>2. CASE BootAndroid
  <2>1. FilesType'
    BY <1>2, Zenon DEF BootAndroid, misc, disk, script, history, NoFault, TypeOK, FilesType
  <2>2. ControlType'
    BY <1>2, Zenon DEF BootAndroid, misc, disk, script, history, NoFault, TypeOK, ControlType, Labels
  <2>3. HistoryType'
    BY <1>2, Bounds, Zenon DEF BootAndroid, misc, disk, script, history, NoFault, TypeOK, FilesType,
       HistoryType
  <2> QED
    BY <1>2, <2>1, <2>2, <2>3, Zenon DEF BootAndroid, misc, disk, script, history, NoFault, TypeOK,
       FilesType
<1>3. CASE ReadArgs
  <2>1. FilesType'
    BY <1>3, Zenon DEF ReadArgs, Arguments, misc, disk, script, history, NoFault, TypeOK, FilesType
  <2>2. ControlType'
    BY <1>3, Zenon DEF ReadArgs, Arguments, misc, disk, script, history, NoFault, TypeOK, ControlType,
       Labels
  <2>3. HistoryType'
    BY <1>3, Bounds, Zenon DEF ReadArgs, Arguments, misc, disk, script, history, NoFault, TypeOK,
       FilesType, HistoryType
  <2> QED
    BY <1>3, <2>1, <2>2, <2>3, Zenon DEF ReadArgs, Arguments, misc, disk, script, history, NoFault,
       TypeOK, FilesType
<1>4. CASE EraseBCB
  <2>1. FilesType'
    BY <1>4 DEF EraseBCB, misc, disk, script, history, NoFault, TypeOK, EmptyMessage, Fault,
       FilesType
  <2>2. ControlType'
    BY <1>4, Zenon DEF EraseBCB, misc, disk, script, history, NoFault, TypeOK, EmptyMessage, Fault,
       ControlType, Labels
  <2>3. HistoryType'
    BY <1>4, Bounds DEF EraseBCB, misc, disk, script, history, NoFault, TypeOK, EmptyMessage,
       Fault, FilesType, HistoryType
  <2> QED
    BY <1>4, <2>1, <2>2, <2>3, Zenon DEF EraseBCB, misc, disk, script, history, NoFault, TypeOK,
       EmptyMessage, Fault, FilesType
<1>5. CASE WriteBCB
  <2>1. FilesType'
    BY <1>5 DEF WriteBCB, misc, disk, script, history, NoFault, TypeOK, FilesType
  <2>2. ControlType'
    BY <1>5, Zenon DEF WriteBCB, misc, disk, script, history, NoFault, TypeOK, ControlType, Labels
  <2>3. HistoryType'
    BY <1>5, Bounds, Zenon DEF WriteBCB, misc, disk, script, history, NoFault, TypeOK, FilesType,
       HistoryType
  <2> QED
    BY <1>5, <2>1, <2>2, <2>3, Zenon DEF WriteBCB, misc, disk, script, history, NoFault, TypeOK, FilesType
<1>6. CASE Format_SDCard
  <2>1. FilesType'
    BY <1>6, Zenon DEF Format_SDCard, Of, misc, disk, script, history, NoFault, TypeOK, FilesType
  <2>2. ControlType'
    BY <1>6, Zenon DEF Format_SDCard, Of, misc, disk, script, history, NoFault, TypeOK, ControlType, Labels
  <2>3. HistoryType'
    BY <1>6, Bounds, Zenon DEF Format_SDCard, Of, misc, disk, script, history, NoFault, TypeOK,
       FilesType, HistoryType
  <2> QED
    BY <1>6, <2>1, <2>2, <2>3, Zenon DEF Format_SDCard, Of, misc, disk, script, history, NoFault,
       TypeOK, FilesType
<1>7. CASE Insert_ORS_Command
  <2>1. tmp' = tmp \/ \E c \in argv : tmp' = <<c>>
    BY <1>7, Zenon DEF Insert_ORS_Command, LastInsert, FirstInsert, WipeInsert, Of
  <2>2. tmp' \in Seq(Commands) /\ 1 \in 1..(Len(tmp') + 1)
    <3>1. CASE tmp' = tmp
      BY <3>1 DEF TypeOK, FilesType
    <3>2. ASSUME NEW c \in argv, tmp' = <<c>> PROVE tmp' \in Seq(Commands) /\ Len(tmp') = 1
      BY <3>2 DEF TypeOK, FilesType
    <3> QED
      BY <2>1, <3>1, <3>2
  <2>3. FilesType'
    BY <1>7, <2>2, Zenon DEF Insert_ORS_Command, misc, disk, TypeOK, FilesType
  <2>4. ControlType'
    BY <1>7, Zenon DEF Insert_ORS_Command, TypeOK, ControlType, Labels
  <2>5. Elems(tmp') \subseteq asked
    BY <2>1, ElemsOne DEF TypeOK
  <2>6. HistoryType'
    BY <1>7, <2>5, Bounds DEF Insert_ORS_Command, NoFault, Fault, TypeOK, HistoryType
  <2> QED
    BY <1>7, <2>3, <2>4, <2>5, <2>6, Zenon DEF Insert_ORS_Command, misc, disk, TypeOK
<1>8. CASE ClearBCB
  <2>1. FilesType'
    BY <1>8 DEF ClearBCB, misc, disk, script, history, NoFault, TypeOK, EmptyMessage, Fault,
       FilesType
  <2>2. ControlType'
    BY <1>8, Zenon DEF ClearBCB, misc, disk, script, history, NoFault, TypeOK, EmptyMessage, Fault,
       ControlType, Labels
  <2>3. HistoryType'
    BY <1>8, Bounds DEF ClearBCB, misc, disk, script, history, NoFault, TypeOK, EmptyMessage,
       Fault, FilesType, HistoryType
  <2> QED
    BY <1>8, <2>1, <2>2, <2>3, Zenon DEF ClearBCB, misc, disk, script, history, NoFault, TypeOK,
       EmptyMessage, Fault, FilesType
<1>9. CASE UnlinkCommand
  <2>1. FilesType'
    BY <1>9, Zenon DEF UnlinkCommand, misc, disk, script, history, NoFault, TypeOK, FilesType
  <2>2. ControlType'
    BY <1>9, Zenon DEF UnlinkCommand, misc, disk, script, history, NoFault, TypeOK, ControlType, Labels
  <2>3. HistoryType'
    BY <1>9, Bounds, Zenon DEF UnlinkCommand, misc, disk, script, history, NoFault, TypeOK, FilesType,
       HistoryType
  <2> QED
    BY <1>9, <2>1, <2>2, <2>3, Zenon DEF UnlinkCommand, misc, disk, script, history, NoFault, TypeOK,
       FilesType
<1>10. CASE Run_OpenRecoveryScript
  <2>1. FilesType'
    BY <1>10, Zenon DEF Run_OpenRecoveryScript, misc, disk, script, history, NoFault, TypeOK, FilesType
  <2>2. ControlType'
    BY <1>10, Zenon DEF Run_OpenRecoveryScript, misc, disk, script, history, NoFault, TypeOK,
       ControlType, Labels
  <2>3. HistoryType'
    BY <1>10, Bounds, Zenon DEF Run_OpenRecoveryScript, misc, disk, script, history, NoFault, TypeOK,
       FilesType, HistoryType
  <2> QED
    BY <1>10, <2>1, <2>2, <2>3, Zenon DEF Run_OpenRecoveryScript, misc, disk, script, history, NoFault,
       TypeOK, FilesType
<1>11. CASE RunLine
  <2>1. tmp[line] \in asked
    BY <1>11, ElemsHas DEF RunLine, TypeOK, FilesType
  <2>2. FilesType'
    <3>1. (ors' = ors \/ ors' = <<>>) /\ (command' = command \/ command' = {})
      BY <1>11, Zenon DEF RunLine
    <3>2. line + 1 \in 1..(Len(tmp) + 1)
      BY <1>11 DEF RunLine, TypeOK, FilesType
    <3>3. line' = line + 1 /\ UNCHANGED <<boot_command, boot_args, tmp, argv>>
      BY <1>11, Zenon DEF RunLine, misc
    <3>4. ors' \in Seq(Commands)
      <4>1. <<>> \in Seq(Commands) /\ ors \in Seq(Commands)
        BY DEF TypeOK, FilesType
      <4> QED
        BY <3>1, <4>1, Zenon
    <3>5. command' \in SUBSET Commands
      BY <3>1, Zenon DEF TypeOK, FilesType
    <3> QED
      BY <3>2, <3>3, <3>4, <3>5, Zenon DEF TypeOK, FilesType
  <2>3. ControlType'
    BY <1>11 DEF RunLine, Results, TypeOK, ControlType, Labels
  <2>4. HistoryType'
    BY <1>11, <2>1, Bounds DEF RunLine, NoFault, Fault, TypeOK, HistoryType
  <2> QED
    BY <1>11, <2>2, <2>3, <2>4, ElemsEmpty, Zenon DEF RunLine, misc, TypeOK
<1>12. CASE EndScript
  <2>1. FilesType'
    BY <1>12, ElemsHas DEF EndScript, misc, disk, script, history, NoFault, TypeOK, FilesType
  <2>2. ControlType'
    BY <1>12 DEF EndScript, misc, disk, script, history, NoFault, TypeOK, ControlType, Labels
  <2>3. HistoryType'
    BY <1>12, Bounds, ElemsHas DEF EndScript, misc, disk, script, history, NoFault, TypeOK,
       FilesType, HistoryType
  <2> QED
    BY <1>12, <2>1, <2>2, <2>3, ElemsHas, Zenon DEF EndScript, misc, disk, script, history, NoFault,
       TypeOK, FilesType
<1>13. CASE CopyScript
  <2>1. FilesType'
    BY <1>13 DEF CopyScript, misc, disk, script, history, NoFault, TypeOK, Fault, FilesType
  <2>2. ControlType'
    BY <1>13, Zenon DEF CopyScript, misc, disk, script, history, NoFault, TypeOK, Fault, ControlType,
       Labels
  <2>3. HistoryType'
    BY <1>13, Bounds DEF CopyScript, misc, disk, script, history, NoFault, TypeOK, Fault,
       FilesType, HistoryType
  <2> QED
    BY <1>13, <2>1, <2>2, <2>3, Zenon DEF CopyScript, misc, disk, script, history, NoFault, TypeOK,
       Fault, FilesType
<1>14. CASE DeleteScript
  <2>1. FilesType'
    BY <1>14 DEF DeleteScript, misc, disk, script, history, NoFault, TypeOK, FilesType
  <2>2. ControlType'
    BY <1>14 DEF DeleteScript, misc, disk, script, history, NoFault, TypeOK, ControlType, Labels
  <2>3. HistoryType'
    BY <1>14, Bounds, ElemsEmpty, Zenon DEF DeleteScript, misc, disk, script, history, NoFault, TypeOK,
       FilesType, HistoryType
  <2> QED
    BY <1>14, <2>1, <2>2, <2>3, ElemsEmpty, Zenon DEF DeleteScript, misc, disk, script, history,
       NoFault, TypeOK, FilesType
<1>15. CASE NoScript
  <2>1. FilesType'
    BY <1>15, Zenon DEF NoScript, misc, disk, script, history, NoFault, TypeOK, FilesType
  <2>2. ControlType'
    BY <1>15, Zenon DEF NoScript, misc, disk, script, history, NoFault, TypeOK, ControlType, Labels
  <2>3. HistoryType'
    BY <1>15, Bounds, Zenon DEF NoScript, misc, disk, script, history, NoFault, TypeOK, FilesType,
       HistoryType
  <2> QED
    BY <1>15, <2>1, <2>2, <2>3, Zenon DEF NoScript, misc, disk, script, history, NoFault, TypeOK, FilesType
<1>16. CASE Decide
  <2>1. FilesType'
    BY <1>16, Zenon DEF Decide, misc, disk, script, history, NoFault, TypeOK, FilesType
  <2>2. ControlType'
    BY <1>16, Zenon DEF Decide, misc, disk, script, history, NoFault, TypeOK, ControlType, Labels
  <2>3. HistoryType'
    BY <1>16, Bounds, Zenon DEF Decide, misc, disk, script, history, NoFault, TypeOK, FilesType,
       HistoryType
  <2> QED
    BY <1>16, <2>1, <2>2, <2>3, Zenon DEF Decide, misc, disk, script, history, NoFault, TypeOK, FilesType
<1>17. CASE Tw_Reboot
  <2>1. FilesType'
    BY <1>17, Zenon DEF Tw_Reboot, misc, disk, script, history, NoFault, TypeOK, FilesType
  <2>2. ControlType'
    BY <1>17, Zenon DEF Tw_Reboot, misc, disk, script, history, NoFault, TypeOK, ControlType, Labels
  <2>3. HistoryType'
    BY <1>17, Bounds, Zenon DEF Tw_Reboot, misc, disk, script, history, NoFault, TypeOK, FilesType,
       HistoryType
  <2> QED
    BY <1>17, <2>1, <2>2, <2>3, Zenon DEF Tw_Reboot, misc, disk, script, history, NoFault, TypeOK,
       FilesType
<1>18. CASE Restart
  <2>1. FilesType'
    BY <1>18, ElemsEmpty DEF Restart, SwitchOff, NewProcess, misc, disk, script, history,
       NoFault, TypeOK, FilesType
  <2>2. ControlType'
    BY <1>18 DEF Restart, SwitchOff, NewProcess, misc, disk, script, history, NoFault, TypeOK,
       ControlType, Labels
  <2>3. HistoryType'
    BY <1>18, Bounds, ElemsEmpty, Zenon DEF Restart, SwitchOff, NewProcess, misc, disk, script, history,
       NoFault, TypeOK, FilesType, HistoryType
  <2> QED
    BY <1>18, <2>1, <2>2, <2>3, ElemsEmpty, Zenon DEF Restart, SwitchOff, NewProcess, misc, disk,
       script, history, NoFault, TypeOK, FilesType
<1>19. CASE HotReboot
  <2>1. FilesType'
    BY <1>19 DEF HotReboot, NewProcess, misc, disk, script, history, NoFault, TypeOK, FilesType
  <2>2. ControlType'
    BY <1>19 DEF HotReboot, NewProcess, misc, disk, script, history, NoFault, TypeOK,
       ControlType, Labels
  <2>3. HistoryType'
    BY <1>19, Bounds, Zenon DEF HotReboot, NewProcess, misc, disk, script, history, NoFault, TypeOK,
       FilesType, HistoryType
  <2> QED
    BY <1>19, <2>1, <2>2, <2>3, Zenon DEF HotReboot, NewProcess, misc, disk, script, history, NoFault,
       TypeOK, FilesType
<1>20. CASE Partition_SetMsg
  <2>1. FilesType'
    BY <1>20 DEF Partition_SetMsg, misc, disk, script, history, NoFault, TypeOK, FilesType
  <2>2. ControlType'
    BY <1>20, Zenon DEF Partition_SetMsg, misc, disk, script, history, NoFault, TypeOK, ControlType, Labels
  <2>3. HistoryType'
    BY <1>20, Bounds, Zenon DEF Partition_SetMsg, misc, disk, script, history, NoFault, TypeOK,
       FilesType, HistoryType
  <2> QED
    BY <1>20, <2>1, <2>2, <2>3, Zenon DEF Partition_SetMsg, misc, disk, script, history, NoFault,
       TypeOK, FilesType
<1>21. ASSUME NEW kinds \in Requests, WriteCommand(kinds) PROVE TypeOK'
  <2>1. command' \in SUBSET Commands /\ requests + 1 \in 0..MaxRequests
    <3>1. requests + 1 \in 0..MaxRequests
      BY <1>21, Bounds DEF WriteCommand, TypeOK, HistoryType
    <3>2. ASSUME NEW k \in kinds PROVE <<requests + 1, 0, k>> \in Commands
      BY <1>21, <3>1, NewCommand, ConstantsAssumption, Zenon DEF WriteCommand, TypeOK
    <3> QED
      BY <1>21, <3>1, <3>2, Zenon DEF WriteCommand
  <2>2. FilesType'
    BY <1>21, <2>1, Zenon DEF WriteCommand, misc, script, TypeOK, FilesType
  <2>3. ControlType'
    BY <1>21, Zenon DEF WriteCommand, script, TypeOK, ControlType
  <2>4. HistoryType'
    BY <1>21, <2>1, Zenon DEF WriteCommand, NoFault, TypeOK, HistoryType
  <2> QED
    BY <1>21, <2>2, <2>3, <2>4, Zenon DEF WriteCommand, misc, TypeOK
<1>22. ASSUME NEW s \in Scripts, WriteScript(s) PROVE TypeOK'
  <2>1. s \in Seq(LineKinds)
    BY ConstantsAssumption, Zenon
  <2>2. requests + 1 \in 0..MaxRequests
    BY <1>22, Bounds DEF WriteScript, TypeOK, HistoryType
  <2>3. ASSUME NEW i \in 1..Len(s) PROVE <<requests + 1, i, s[i]>> \in Commands
    <3>1. i \in Nat /\ s[i] \in LineKinds
      BY <2>1
    <3> QED
      BY <1>22, <3>1, NewCommand, Zenon DEF WriteScript, TypeOK
  <2>4. ors' \in Seq(Commands)
    <3>1. Len(s) \in Nat
      BY <2>1
    <3> QED
      BY <1>22, <2>3, <3>1 DEF WriteScript
  <2>5. Elems(ors') \subseteq Commands
    BY <2>4 DEF Elems
  <2>6. FilesType'
    BY <1>22, <2>4, Zenon DEF WriteScript, misc, script, TypeOK, FilesType
  <2>7. ControlType'
    BY <1>22, Zenon DEF WriteScript, script, TypeOK, ControlType
  <2>8. HistoryType'
    BY <1>22, <2>2, <2>5, Zenon DEF WriteScript, NoFault, TypeOK, HistoryType
  <2> QED
    BY <1>22, <2>6, <2>7, <2>8, Zenon DEF WriteScript, misc, TypeOK
<1>23. ASSUME NEW why \in {"recovery", "system"}, AndroidReboots(why) PROVE TypeOK'
  <2>1. FilesType'
    BY <1>23, Zenon DEF AndroidReboots, misc, disk, script, history, NoFault, TypeOK, FilesType
  <2>2. ControlType'
    BY <1>23, Zenon DEF AndroidReboots, misc, disk, script, history, NoFault, TypeOK, ControlType, Labels
  <2>3. HistoryType'
    BY <1>23, Bounds, Zenon DEF AndroidReboots, misc, disk, script, history, NoFault, TypeOK, FilesType,
       HistoryType
  <2> QED
    BY <1>23, <2>1, <2>2, <2>3, Zenon DEF AndroidReboots, misc, disk, script, history, NoFault, TypeOK,
       FilesType
<1>24. ASSUME NEW how \in {"tw_reboot", "recovery", "hot", "poweroff"}, UserReboots(how) PROVE TypeOK'
  <2>1. FilesType'
    BY <1>24, Zenon DEF UserReboots, misc, disk, script, history, NoFault, TypeOK, Fault, FilesType
  <2>2. ControlType'
    BY <1>24, Zenon DEF UserReboots, misc, disk, script, history, NoFault, TypeOK, Fault, ControlType,
       Labels
  <2>3. HistoryType'
    BY <1>24, Bounds DEF UserReboots, misc, disk, script, history, NoFault, TypeOK, Fault,
       FilesType, HistoryType
  <2> QED
    BY <1>24, <2>1, <2>2, <2>3, Zenon DEF UserReboots, misc, disk, script, history, NoFault, TypeOK,
       Fault, FilesType
<1>25. CASE Partition_SDCard
  <2>1. argv' \in SUBSET Commands /\ requests + 1 \in 0..MaxRequests
    BY <1>25, NewCommand, Zenon DEF Partition_SDCard, TypeOK
  <2>2. FilesType'
    BY <1>25, <2>1 DEF Partition_SDCard, EmptyMessage, script, TypeOK, FilesType
  <2>3. ControlType'
    BY <1>25, Zenon DEF Partition_SDCard, script, TypeOK, ControlType
  <2>4. HistoryType'
    BY <1>25, <2>1, Bounds DEF Partition_SDCard, Fault, TypeOK, HistoryType
  <2> QED
    BY <1>25, <2>2, <2>3, <2>4, Zenon DEF Partition_SDCard, EmptyMessage, TypeOK
<1>26. CASE PowerFails
  <2>1. FilesType'
    BY <1>26, ElemsEmpty DEF PowerFails, SwitchOff, NewProcess, Running, misc, disk, script,
       history, NoFault, TypeOK, Fault, FilesType
  <2>2. ControlType'
    BY <1>26 DEF PowerFails, SwitchOff, NewProcess, Running, misc, disk, script, history,
       NoFault, TypeOK, Fault, ControlType, Labels
  <2>3. HistoryType'
    BY <1>26, Bounds, ElemsEmpty DEF PowerFails, SwitchOff, NewProcess, Running, misc, disk,
       script, history, NoFault, TypeOK, Fault, FilesType, HistoryType
  <2> QED
    BY <1>26, <2>1, <2>2, <2>3, ElemsEmpty, Zenon DEF PowerFails, SwitchOff, NewProcess, Running, misc,
       disk, script, history, NoFault, TypeOK, Fault, FilesType
<1>27. CASE ProcessDies
  <2>1. FilesType'
    BY <1>27 DEF ProcessDies, NewProcess, Running, misc, disk, script, history, NoFault, TypeOK,
       Fault, FilesType
  <2>2. ControlType'
    BY <1>27 DEF ProcessDies, NewProcess, Running, misc, disk, script, history, NoFault, TypeOK,
       Fault, ControlType, Labels
  <2>3. HistoryType'
    BY <1>27, Bounds DEF ProcessDies, NewProcess, Running, misc, disk, script, history, NoFault,
       TypeOK, Fault, FilesType, HistoryType
  <2> QED
    BY <1>27, <2>1, <2>2, <2>3, Zenon DEF ProcessDies, NewProcess, Running, misc, disk, script, history,
       NoFault, TypeOK, Fault, FilesType
<1>28. CASE UNCHANGED vars
  <2>1. FilesType'
    BY <1>28, Zenon DEF vars, misc, disk, script, history, NoFault, TypeOK, FilesType
  <2>2. ControlType'
    BY <1>28, Zenon DEF vars, misc, disk, script, history, NoFault, TypeOK, ControlType, Labels
  <2>3. HistoryType'
    BY <1>28, Bounds, Zenon DEF vars, misc, disk, script, history, NoFault, TypeOK, FilesType, HistoryType
  <2> QED
    BY <1>28, <2>1, <2>2, <2>3, Zenon DEF vars, misc, disk, script, history, NoFault, TypeOK, FilesType
<1> QED
  BY <1>1, <1>2, <1>3, <1>4, <1>5, <1>6, <1>7, <1>8, <1>9, <1>10, <1>11, <1>12, <1>13, <1>14,
     <1>15, <1>16, <1>17, <1>18, <1>19, <1>20, <1>21, <1>22, <1>23, <1>24, <1>25, <1>26, <1>27,
     <1>28, Zenon DEF Next, Startup, Android, User

\* Every variable keeps its type: run_script_file() stays inside the script, and
\* no command appears that nobody asked for.
THEOREM TypeCorrect == Spec => []TypeOK
  BY InitType, StepType, PTL DEF Spec

----------------------------------------------------------------------------
(* Numbers of commands *)

\* Requests are numbered; an argument has line 0, line i of a script line i.
NumberInv ==
  /\ \A c \in asked : c[1] \in 1..requests
  /\ \A c \in boot_args \cup command \cup argv : c[2] = 0
  /\ \A i \in DOMAIN ors : ors[i][2] = i
  /\ (\A i \in DOMAIN tmp : tmp[i][2] = i) \/ (Len(tmp) = 1 /\ tmp[1][2] = 0)

LEMMA NumberStep == TypeOK /\ NumberInv /\ [Next]_vars => NumberInv'
<1> SUFFICES ASSUME TypeOK, NumberInv, [Next]_vars PROVE NumberInv'
  BY Zenon
<1>1. CASE BootRecovery
  BY <1>1, Zenon DEF BootRecovery, misc, disk, script, history, NumberInv
<1>2. CASE BootAndroid
  BY <1>2, Zenon DEF BootAndroid, misc, disk, script, history, NumberInv
<1>3. CASE ReadArgs
  BY <1>3, Zenon DEF ReadArgs, Arguments, misc, disk, script, history, NumberInv
<1>4. CASE EraseBCB
  BY <1>4, Zenon DEF EraseBCB, EmptyMessage, misc, disk, script, history, NumberInv
<1>5. CASE WriteBCB
  BY <1>5, Zenon DEF WriteBCB, misc, disk, script, history, NumberInv
<1>6. CASE Format_SDCard
  BY <1>6, Zenon DEF Format_SDCard, Of, misc, disk, script, history, NumberInv
<1>7. CASE Insert_ORS_Command
  <2>1. tmp' = tmp \/ \E c \in argv : tmp' = <<c>>
    BY <1>7, Zenon DEF Insert_ORS_Command, LastInsert, FirstInsert, WipeInsert, Of
  <2>2. argv' = {} /\ UNCHANGED <<asked, requests, boot_args, command, ors>>
    BY <1>7, Zenon DEF Insert_ORS_Command, disk, misc
  <2> QED BY <2>1, <2>2 DEF NumberInv
<1>8. CASE ClearBCB
  BY <1>8, Zenon DEF ClearBCB, EmptyMessage, misc, disk, script, history, NumberInv
<1>9. CASE UnlinkCommand
  BY <1>9, Zenon DEF UnlinkCommand, misc, disk, script, history, NumberInv
<1>10. CASE Run_OpenRecoveryScript
  BY <1>10, Zenon DEF Run_OpenRecoveryScript, misc, disk, script, history, NumberInv
<1>11. CASE RunLine
  BY <1>11, SMTT(30) DEF RunLine, misc, disk, script, history, NumberInv
<1>12. CASE EndScript
  BY <1>12, Zenon DEF EndScript, misc, disk, script, history, NumberInv
<1>13. CASE CopyScript
  BY <1>13, Zenon DEF CopyScript, misc, disk, script, history, NumberInv
<1>14. CASE DeleteScript
  BY <1>14 DEF DeleteScript, misc, disk, script, history, NumberInv
<1>15. CASE NoScript
  BY <1>15, Zenon DEF NoScript, misc, disk, script, history, NumberInv
<1>16. CASE Decide
  BY <1>16, Zenon DEF Decide, misc, disk, script, history, NumberInv
<1>17. CASE Tw_Reboot
  BY <1>17, Zenon DEF Tw_Reboot, misc, disk, script, history, NumberInv
<1>18. CASE Restart
  BY <1>18 DEF Restart, SwitchOff, NewProcess, misc, disk, script, history, NumberInv
<1>19. CASE HotReboot
  BY <1>19, Zenon DEF HotReboot, NewProcess, misc, disk, script, history, NumberInv
<1>20. CASE Partition_SetMsg
  BY <1>20, Zenon DEF Partition_SetMsg, misc, disk, script, history, NumberInv
<1>21. ASSUME NEW kinds \in Requests, WriteCommand(kinds) PROVE NumberInv'
  <2>1. \A c \in command' : c[1] = requests + 1 /\ c[2] = 0
    BY <1>21 DEF WriteCommand
  <2>2. \A c \in asked' : c[1] \in 1..requests'
    <3>1. asked' = asked \cup command' /\ requests' = requests + 1 /\ requests \in Nat
      BY <1>21 DEF WriteCommand, TypeOK, HistoryType
    <3> QED BY <2>1, <3>1 DEF NumberInv
  <2> QED
    BY <1>21, <2>1, <2>2, Zenon DEF WriteCommand, misc, NumberInv
<1>22. ASSUME NEW s \in Scripts, WriteScript(s) PROVE NumberInv'
  <2>1. s \in Seq(LineKinds) /\ Len(s) \in Nat
    BY ConstantsAssumption
  <2>2. /\ DOMAIN ors' = 1..Len(s)
        /\ \A i \in 1..Len(s) : ors'[i] = <<requests + 1, i, s[i]>>
    BY <1>22, <2>1, Zenon DEF WriteScript
  <2>3. \A c \in Elems(ors') : c[1] = requests + 1
    BY <2>2 DEF Elems
  <2>4. \A c \in asked' : c[1] \in 1..requests'
    BY <1>22, <2>3 DEF WriteScript, TypeOK, HistoryType, NumberInv
  <2>5. \A i \in DOMAIN ors' : ors'[i][2] = i
    BY <2>2
  <2> QED
    BY <1>22, <2>4, <2>5, ZenonT(30) DEF WriteScript, misc, NumberInv
<1>23. ASSUME NEW why \in {"recovery", "system"}, AndroidReboots(why) PROVE NumberInv'
  BY <1>23, Zenon DEF AndroidReboots, misc, disk, script, history, NumberInv
<1>24. ASSUME NEW how \in {"tw_reboot", "recovery", "hot", "poweroff"}, UserReboots(how) PROVE NumberInv'
  BY <1>24, Zenon DEF UserReboots, misc, disk, script, history, NumberInv
<1>25. CASE Partition_SDCard
  <2>1. \A c \in asked' : c[1] \in 1..requests'
    BY <1>25 DEF Partition_SDCard, TypeOK, HistoryType, NumberInv
  <2> QED
    BY <1>25, <2>1 DEF Partition_SDCard, EmptyMessage, NumberInv
<1>26. CASE PowerFails
  BY <1>26 DEF PowerFails, SwitchOff, NewProcess, misc, disk, script, history, NumberInv
<1>27. CASE ProcessDies
  BY <1>27, Zenon DEF ProcessDies, NewProcess, misc, disk, script, history, NumberInv
<1>28. CASE UNCHANGED vars
  BY <1>28, Zenon DEF vars, misc, NumberInv
<1> QED
  BY <1>1, <1>2, <1>3, <1>4, <1>5, <1>6, <1>7, <1>8, <1>9, <1>10, <1>11, <1>12, <1>13, <1>14,
     <1>15, <1>16, <1>17, <1>18, <1>19, <1>20, <1>21, <1>22, <1>23, <1>24, <1>25, <1>26, <1>27,
     <1>28, Zenon DEF Next, Startup, Android, User

----------------------------------------------------------------------------
(* At most once *)

Early == {"get_args", "erase", "write", "main", "insert"}
Exits == {"tw_reboot", "system", "recovery", "hot", "poweroff"}
Logging == {"log", "unlink"}

Usual == seen \cap {"killed", "hot", "mount", "misc", "copy"} = {}

\* What is stored has not been started.
StoredInv ==
  /\ (boot_args \cup command \cup argv) \cap started = {}
  /\ \A i \in DOMAIN ors : ors[i] \notin started

\* Before the script is made there is none.
EarlyInv ==
  pc \in Early \cup {"off", "android"} \/ (pc \in Logging /\ after = "insert") =>
    tmp = <<>> /\ line = 1 /\ second = 0

\* The script is about to run or runs.
Script == (pc \in Logging /\ after = "script") \/ pc \in {"script", "run"}

\* Then its remaining lines have not been started, are not stored any more once
\* it runs, and stem from the arguments or, the second time, from /cache.
ScriptInv ==
  /\ Script => \A i \in line..Len(tmp) : tmp[i] \notin started
  /\ Script /\ second = 0 => \A i \in DOMAIN tmp : tmp[i][2] = 0
  /\ Script /\ second = 1 => pc = "run" /\ ors = <<>>
  /\ Script => argv = {}
  /\ pc = "unlink" => boot_args = {}
  /\ pc \in {"script", "run", "check", "delete", "decide"} =>
       boot_args = {} /\ command = {} /\ argv = {}
  /\ pc = "delete" => tmp = ors /\ line = 1

NotHot == pc # "hot" /\ (pc \in Logging => after # "hot")

OnceInv == cache = 1 /\ again = {} /\ NotHot /\ StoredInv /\ EarlyInv /\ ScriptInv

LEMMA OnceStep ==
  ASSUME TypeOK, NumberInv, OnceInv, Usual, [Next]_vars, Usual'
  PROVE  OnceInv'
<1>a. \A c : c[1] = requests + 1 => c \notin started
  BY DEF TypeOK, HistoryType, NumberInv
<1>1. CASE BootRecovery
  BY <1>1, Zenon DEF BootRecovery, Fault, Usual, NoFault, misc, disk, script, history, OnceInv, NotHot,
     StoredInv, EarlyInv, Script, ScriptInv, Early, Logging
<1>2. CASE BootAndroid
  BY <1>2, Zenon DEF BootAndroid, NoFault, misc, disk, script, history, OnceInv, NotHot, StoredInv,
     EarlyInv, Script, ScriptInv, Early, Logging
<1>3. CASE ReadArgs
  BY <1>3, Zenon DEF ReadArgs, Arguments, NoFault, misc, disk, script, history, OnceInv, NotHot,
     StoredInv, EarlyInv, Script, ScriptInv, Early, Logging
<1>4. CASE EraseBCB
  BY <1>4, Zenon DEF EraseBCB, EmptyMessage, Fault, Usual, NoFault, misc, disk, script, history,
     OnceInv, NotHot, StoredInv, EarlyInv, Script, ScriptInv, Early, Logging
<1>5. CASE WriteBCB
  BY <1>5, Zenon DEF WriteBCB, NoFault, misc, disk, script, history, OnceInv, NotHot, StoredInv,
     EarlyInv, Script, ScriptInv, Early, Logging
<1>6. CASE Format_SDCard
  BY <1>6, Zenon DEF Format_SDCard, Of, NoFault, misc, disk, script, history, OnceInv, NotHot,
     StoredInv, EarlyInv, Script, ScriptInv, Early, Logging
<1>7. CASE Insert_ORS_Command
  <2>1. tmp = <<>> /\ (tmp' = tmp \/ \E c \in argv : tmp' = <<c>>)
    BY <1>7, Zenon DEF Insert_ORS_Command, LastInsert, FirstInsert, WipeInsert, Of, OnceInv, EarlyInv,
       Early
  <2>2. /\ \A i \in 1..Len(tmp') : tmp'[i] \notin started /\ tmp'[i][2] = 0
        /\ DOMAIN tmp' = 1..Len(tmp')
    BY <2>1 DEF OnceInv, StoredInv, NumberInv
  <2>3. /\ pc' = "log" /\ after' = "script" /\ line' = 1 /\ argv' = {}
        /\ UNCHANGED <<boot_args, command, ors, started, again, cache, second>>
    BY <1>7, Zenon DEF Insert_ORS_Command, misc, disk
  <2>4. second = 0
    BY <1>7, Zenon DEF Insert_ORS_Command, OnceInv, EarlyInv, Early
  <2>5. StoredInv' /\ NotHot' /\ EarlyInv'
    BY <2>3, Zenon DEF OnceInv, StoredInv, NotHot, EarlyInv, Early, Logging
  <2>6. ScriptInv'
    BY <2>2, <2>3, <2>4 DEF Script, ScriptInv, Logging
  <2> QED BY <2>3, <2>5, <2>6, Zenon DEF OnceInv
<1>8. CASE ClearBCB
  BY <1>8, Zenon DEF ClearBCB, EmptyMessage, Fault, Usual, NoFault, misc, disk, script, history,
     OnceInv, NotHot, StoredInv, EarlyInv, Script, ScriptInv, Early, Logging
<1>9. CASE UnlinkCommand
  <2>1. after \in Labels \ {"hot"}
    BY <1>9, Zenon DEF UnlinkCommand, TypeOK, ControlType, OnceInv, NotHot, Logging
  <2> QED
    BY <1>9, <2>1, Zenon DEF UnlinkCommand, misc, script, history, Labels, OnceInv, NotHot, StoredInv,
       EarlyInv, Script, ScriptInv, Early, Logging
<1>10. CASE Run_OpenRecoveryScript
  BY <1>10, Zenon DEF Run_OpenRecoveryScript, NoFault, misc, disk, script, history, OnceInv, NotHot,
     StoredInv, EarlyInv, Script, ScriptInv, Early, Logging
<1>11. CASE RunLine
  <2> DEFINE c == tmp[line]
  <2>1. line \in 1..Len(tmp) /\ DOMAIN tmp = 1..Len(tmp)
    BY <1>11 DEF RunLine, TypeOK, FilesType
  <2>2. c \notin started
    BY <1>11, <2>1 DEF RunLine, OnceInv, Script, ScriptInv
  <2>3. boot_args = {} /\ command = {} /\ argv = {}
    BY <1>11, Zenon DEF RunLine, OnceInv, ScriptInv
  <2>4. \A i \in DOMAIN ors : ors[i] # c
    <3>1. second = 0 => c[2] = 0
      BY <1>11, <2>1, Zenon DEF RunLine, OnceInv, Script, ScriptInv
    <3>2. second = 1 => DOMAIN ors = {}
      BY <1>11 DEF RunLine, OnceInv, Script, ScriptInv
    <3>3. \A i \in DOMAIN ors : ors[i][2] = i /\ i # 0
      BY DEF TypeOK, FilesType, NumberInv
    <3> QED
      BY <3>1, <3>2, <3>3, SMTT(30) DEF TypeOK, ControlType
  <2>5. \A i \in (line + 1)..Len(tmp) : tmp[i] # c
    BY <2>1 DEF NumberInv
  <2>6. /\ pc = "run" /\ pc' = "run" /\ line' = line + 1 /\ started' = started \cup {c}
        /\ again' = again \cup ({c} \cap started)
        /\ UNCHANGED <<boot_args, tmp, argv, after, second, cache>>
        /\ command' = command \/ command' = {}
        /\ ors' = ors \/ ors' = <<>>
    BY <1>11, Zenon DEF RunLine, misc
  <2>7. StoredInv'
    BY <2>3, <2>4, <2>6 DEF OnceInv, StoredInv
  <2>8. ScriptInv'
    <3>1. \A i \in line'..Len(tmp') : tmp'[i] \notin started'
      BY <2>1, <2>5, <2>6 DEF OnceInv, Script, ScriptInv
    <3> QED BY <2>3, <2>6, <3>1, Zenon DEF OnceInv, Script, ScriptInv, Logging
  <2> QED
    BY <2>2, <2>6, <2>7, <2>8, Zenon DEF OnceInv, NotHot, EarlyInv, Early, Logging
<1>12. CASE EndScript
  BY <1>12, Zenon DEF EndScript, NoFault, misc, disk, script, history, OnceInv, NotHot, StoredInv,
     EarlyInv, Script, ScriptInv, Early, Logging
<1>13. CASE CopyScript
  BY <1>13, Zenon DEF CopyScript, Fault, Usual, NoFault, misc, disk, script, history, OnceInv, NotHot,
     StoredInv, EarlyInv, Script, ScriptInv, Early, Logging
<1>14. CASE DeleteScript
  <2>1. /\ pc = "delete" /\ pc' = (IF tmp = <<>> THEN "decide" ELSE "run") /\ ors' = <<>>
        /\ second' = 1
        /\ UNCHANGED <<boot_args, command, tmp, argv, after, cache, line, started, again>>
    BY <1>14, Zenon DEF DeleteScript, misc, history
  <2>2. /\ tmp = ors /\ line = 1 /\ boot_args = {} /\ command = {} /\ argv = {}
        /\ DOMAIN ors = 1..Len(ors) /\ \A i \in DOMAIN ors : ors[i] \notin started
    BY <2>1 DEF OnceInv, ScriptInv, StoredInv, TypeOK, FilesType
  <2> QED BY <2>1, <2>2 DEF OnceInv, NotHot, StoredInv, EarlyInv, Script, ScriptInv, Early, Logging
<1>15. CASE NoScript
  BY <1>15, Zenon DEF NoScript, NoFault, misc, disk, script, history, OnceInv, NotHot, StoredInv,
     EarlyInv, Script, ScriptInv, Early, Logging
<1>16. CASE Decide
  BY <1>16, Zenon DEF Decide, NoFault, misc, disk, script, history, OnceInv, NotHot, StoredInv,
     EarlyInv, Script, ScriptInv, Early, Logging
<1>17. CASE Tw_Reboot
  BY <1>17, Zenon DEF Tw_Reboot, NoFault, misc, disk, script, history, OnceInv, NotHot, StoredInv,
     EarlyInv, Script, ScriptInv, Early, Logging
<1>18. CASE Restart
  BY <1>18, Zenon DEF Restart, SwitchOff, NewProcess, NoFault, misc, disk, script, history, OnceInv,
     NotHot, StoredInv, EarlyInv, Script, ScriptInv, Early, Logging
<1>19. CASE HotReboot
  BY <1>19, Zenon DEF HotReboot, NewProcess, NoFault, misc, disk, script, history, OnceInv, NotHot,
     StoredInv, EarlyInv, Script, ScriptInv, Early, Logging
<1>20. CASE Partition_SetMsg
  BY <1>20, SMTT(30) DEF Partition_SetMsg, NoFault, misc, disk, script, history, OnceInv, NotHot,
     StoredInv, EarlyInv, Script, ScriptInv, Early, Logging
<1>21. ASSUME NEW kinds \in Requests, WriteCommand(kinds) PROVE OnceInv'
  <2>1. command' \cap started = {}
    BY <1>21, <1>a, ZenonT(30) DEF WriteCommand
  <2> QED
    BY <1>21, <2>1, Zenon DEF WriteCommand, misc, script, OnceInv, NotHot, StoredInv, EarlyInv, Script,
       ScriptInv, Early, Logging
<1>22. ASSUME NEW s \in Scripts, WriteScript(s) PROVE OnceInv'
  <2>1. \A i \in DOMAIN ors' : ors'[i] \notin started
    BY <1>22, <1>a, ZenonT(30) DEF WriteScript
  <2> QED
    BY <1>22, <2>1, Zenon DEF WriteScript, misc, script, OnceInv, NotHot, StoredInv, EarlyInv, Script,
       ScriptInv, Early, Logging
<1>23. ASSUME NEW why \in {"recovery", "system"}, AndroidReboots(why) PROVE OnceInv'
  BY <1>23, Zenon DEF AndroidReboots, NoFault, misc, disk, script, history, OnceInv, NotHot, StoredInv,
     EarlyInv, Script, ScriptInv, Early, Logging
<1>24. ASSUME NEW how \in {"tw_reboot", "recovery", "hot", "poweroff"}, UserReboots(how) PROVE OnceInv'
  BY <1>24, Zenon DEF UserReboots, Fault, Usual, NoFault, misc, disk, script, history, OnceInv, NotHot,
     StoredInv, EarlyInv, Script, ScriptInv, Early, Logging
<1>25. CASE Partition_SDCard
  <2>1. argv' \cap started = {}
    BY <1>25, <1>a, Zenon DEF Partition_SDCard
  <2> QED
    BY <1>25, <2>1, Zenon DEF Partition_SDCard, EmptyMessage, script, OnceInv, NotHot, StoredInv,
       EarlyInv, Script, ScriptInv, Early, Logging
<1>26. CASE PowerFails
  BY <1>26, Zenon DEF PowerFails, SwitchOff, NewProcess, Fault, Usual, NoFault, misc, disk, script,
     history, OnceInv, NotHot, StoredInv, EarlyInv, Script, ScriptInv, Early, Logging
<1>27. CASE ProcessDies
  BY <1>27, SMTT(30) DEF ProcessDies, NewProcess, Fault, Usual, NoFault, misc, disk, script, history,
     OnceInv, NotHot, StoredInv, EarlyInv, Script, ScriptInv, Early, Logging
<1>28. CASE UNCHANGED vars
  BY <1>28, Zenon DEF vars, misc, OnceInv, NotHot, StoredInv, EarlyInv, Script, ScriptInv, Early, Logging
<1> QED
  BY <1>1, <1>2, <1>3, <1>4, <1>5, <1>6, <1>7, <1>8, <1>9, <1>10, <1>11, <1>12, <1>13, <1>14,
     <1>15, <1>16, <1>17, <1>18, <1>19, <1>20, <1>21, <1>22, <1>23, <1>24, <1>25, <1>26, <1>27,
     <1>28, Zenon DEF Next, Startup, Android, User

\* A fault that happened stays on record.
LEMMA SeenGrows == [Next]_vars => seen \subseteq seen'
<1>1. UNCHANGED vars => seen \subseteq seen'
  BY Zenon DEF vars
<1>2. \A f : Fault(f) \/ NoFault => seen \subseteq seen'
  BY ZenonT(30) DEF Fault, NoFault
<1>3. Startup => \E f : Fault(f) \/ NoFault
  <2>1. BootRecovery \/ BootAndroid \/ ReadArgs \/ EraseBCB \/ WriteBCB \/ Format_SDCard
          => \E f : Fault(f) \/ NoFault
    BY ZenonT(30) DEF BootRecovery, BootAndroid, ReadArgs, EraseBCB, WriteBCB, Format_SDCard
  <2>2. Insert_ORS_Command \/ ClearBCB \/ UnlinkCommand \/ Run_OpenRecoveryScript \/ RunLine
          => \E f : Fault(f) \/ NoFault
    BY ZenonT(30) DEF Insert_ORS_Command, ClearBCB, UnlinkCommand, Run_OpenRecoveryScript, RunLine
  <2>3. EndScript \/ CopyScript \/ DeleteScript \/ NoScript \/ Decide
          => \E f : Fault(f) \/ NoFault
    BY ZenonT(30) DEF EndScript, CopyScript, DeleteScript, NoScript, Decide
  <2>4. Tw_Reboot \/ Restart \/ HotReboot \/ Partition_SetMsg => \E f : Fault(f) \/ NoFault
    BY ZenonT(30) DEF Tw_Reboot, Restart, HotReboot, Partition_SetMsg
  <2> QED BY <2>1, <2>2, <2>3, <2>4, Zenon DEF Startup
<1>4. Android \/ User \/ PowerFails \/ ProcessDies => \E f : Fault(f) \/ NoFault
  BY ZenonT(30) DEF Android, User, WriteCommand, WriteScript, AndroidReboots, UserReboots, Partition_SDCard,
     PowerFails, ProcessDies
<1> QED
  BY <1>1, <1>2, <1>3, <1>4, Zenon DEF Next

\* As long as none of the faults that AtMostOnce excludes has happened, no command
\* is run a second time: run_script_file() meets only lines that are neither
\* started nor stored any more.  For any number of requests and power failures.
THEOREM RunsAtMostOnce == Spec => []AtMostOnce
<1> DEFINE Inv == NumberInv /\ (Usual => OnceInv)
<1>1. Init => Inv
  BY DEF Init, NumberInv, OnceInv, NotHot, StoredInv, EarlyInv, Script, ScriptInv, Early, Logging
<1>2. TypeOK /\ Inv /\ [Next]_vars => Inv'
  <2> SUFFICES ASSUME TypeOK, Inv, [Next]_vars PROVE Inv'
    BY Zenon
  <2>1. NumberInv'
    BY NumberStep, Zenon
  <2>2. Usual' => Usual
    BY SeenGrows, Zenon DEF Usual
  <2> QED
    BY <2>1, <2>2, OnceStep, Zenon
<1>3. Inv => AtMostOnce
  BY Zenon DEF OnceInv, Usual, AtMostOnce
<1> QED
  BY <1>1, <1>2, <1>3, TypeCorrect, PTL DEF Spec

----------------------------------------------------------------------------
(* No command goes astray *)

Regular == seen \cap {"parted", "copy", "misc"} = {}

\* The command file holds what the BCB holds until both are erased.
CopiesInv ==
  /\ boot_args = {} \/ boot_args = command
  /\ boot_command = 0 => boot_args = {}
  /\ pc = "android" => boot_command = 0
  /\ \A c \in command : c[3] # "partition"
  /\ pc = "get_args" => argv = {}
  /\ pc \in {"erase", "write", "main", "insert"} => argv = {} \/ argv = command
  /\ pc \in {"erase", "write", "main", "insert"} /\ cache = 1 => argv = command
  /\ pc \notin Early => argv = {}
  /\ pc \in Logging => after # "insert"
  /\ pc # "set_msg"

\* What a step may forget was run or given up.
SettledInv ==
  /\ pc \notin Early \cup {"log", "android", "off"} => boot_args = {}
  /\ pc \in Logging /\ cache = 1 => command \subseteq started \cup dropped \cup Elems(tmp)
  /\ pc = "run" => \A i \in 1..(line - 1) : tmp[i] \in started \cup dropped
  /\ pc = "delete" => tmp = ors /\ line = 1
  /\ pc = "script" \/ (pc \in Logging /\ after = "script") => line = 1
  /\ cache = 1 /\ pc \notin Early \cup Logging \cup {"android", "off"} => command = {}
  /\ pc \in {"check", "decide", "gui", "android", "off"} \cup Exits
       \/ (pc \in Logging /\ after \in Exits) =>
       Elems(tmp) \subseteq started \cup dropped

AccountedInv == CopiesInv /\ SettledInv /\ Accounted

LEMMA AccountedStep ==
  ASSUME TypeOK, AccountedInv, Regular, [Next]_vars, Regular'
  PROVE  AccountedInv'
<1>1. CASE BootRecovery
  BY <1>1, ElemsEmpty, Zenon DEF BootRecovery, Fault, NoFault, misc, disk, script, history,
     AccountedInv, CopiesInv, SettledInv, Accounted, Regular, Stored, InMemory, Early, Exits,
     Logging
<1>2. CASE BootAndroid
  BY <1>2, ElemsEmpty, Zenon DEF BootAndroid, NoFault, misc, disk, script, history, AccountedInv,
     CopiesInv, SettledInv, Accounted, Regular, Stored, InMemory, Early, Exits, Logging
<1>3. CASE ReadArgs
  BY <1>3, ElemsEmpty, Zenon DEF ReadArgs, Arguments, NoFault, misc, disk, script, history,
     AccountedInv, CopiesInv, SettledInv, Accounted, Regular, Stored, InMemory, Early, Exits,
     Logging
<1>4. CASE EraseBCB
  BY <1>4, ElemsEmpty, Zenon DEF EraseBCB, EmptyMessage, Fault, NoFault, misc, disk, script, history,
     AccountedInv, CopiesInv, SettledInv, Accounted, Regular, Stored, InMemory, Early, Exits,
     Logging
<1>5. CASE WriteBCB
  BY <1>5, ElemsEmpty DEF WriteBCB, NoFault, misc, disk, script, history, AccountedInv,
     CopiesInv, SettledInv, Accounted, Regular, Stored, InMemory, Early, Exits, Logging
<1>6. CASE Format_SDCard
  BY <1>6, ElemsEmpty, Zenon DEF Format_SDCard, Of, NoFault, misc, disk, script, history, AccountedInv,
     CopiesInv, SettledInv, Accounted, Regular, Stored, InMemory, Early, Exits, Logging
<1>7. CASE Insert_ORS_Command
  BY <1>7, ElemsEmpty, Zenon DEF Insert_ORS_Command, Fault, LastInsert, FirstInsert, WipeInsert, Of,
     NoFault, misc, disk, script, history, AccountedInv, CopiesInv, SettledInv, Accounted,
     Regular, Stored, InMemory, Early, Exits, Logging
<1>8. CASE ClearBCB
  BY <1>8, ElemsEmpty, Zenon DEF ClearBCB, EmptyMessage, Fault, NoFault, misc, disk, script, history,
     AccountedInv, CopiesInv, SettledInv, Accounted, Regular, Stored, InMemory, Early, Exits,
     Logging
<1>9. CASE UnlinkCommand
  <2>1. after \in Labels \ {"insert"} /\ cache \in 0..1
    BY <1>9, Zenon DEF UnlinkCommand, TypeOK, ControlType, AccountedInv, CopiesInv, Logging
  <2> QED
    BY <1>9, <2>1, Zenon DEF UnlinkCommand, NoFault, misc, script, history, Labels,
       AccountedInv, CopiesInv, SettledInv, Accounted, Regular, Stored, InMemory, Early, Exits,
       Logging
<1>10. CASE Run_OpenRecoveryScript
  BY <1>10, ElemsEmpty DEF Run_OpenRecoveryScript, NoFault, misc, disk, script, history,
     AccountedInv, CopiesInv, SettledInv, Accounted, Regular, Stored, InMemory, Early, Exits,
     Logging
<1>11. CASE RunLine
  <2> DEFINE c == tmp[line]
  <2>a. pc = "run" /\ line <= Len(tmp)
    BY <1>11, Zenon DEF RunLine
  <2>b. line \in 1..(Len(tmp) + 1) /\ Len(tmp) \in Nat
    BY DEF TypeOK, FilesType
  <2>1. line \in 1..Len(tmp)
    BY <2>a, <2>b
  <2>2. /\ pc' = "run" /\ line' = line + 1 /\ started' = started \cup {c}
        /\ UNCHANGED <<boot_command, boot_args, tmp, argv, after, cache, asked>>
        /\ \/ UNCHANGED <<command, ors, dropped>>
           \/ /\ command' = {} /\ ors' = <<>>
              /\ dropped' = dropped \cup command \cup Elems(ors)
    BY <1>11, Zenon DEF RunLine, misc
  <2>3. CopiesInv'
    BY <2>a, <2>2, Zenon DEF AccountedInv, CopiesInv, SettledInv, Early, Logging
  <2>4. \A i \in 1..(line' - 1) : tmp[i] \in started' \cup dropped'
    BY <2>a, <2>1, <2>2 DEF AccountedInv, SettledInv
  <2>5. SettledInv'
    BY <2>a, <2>2, <2>4, Zenon DEF AccountedInv, SettledInv, Early, Exits, Logging
  <2>6. Accounted'
    BY <2>a, <2>2, ElemsEmpty, Zenon DEF AccountedInv, Accounted, Regular, Stored, InMemory
  <2> QED
    BY <2>3, <2>5, <2>6, Zenon DEF AccountedInv
<1>12. CASE EndScript
  <2>1. line \in 1..(Len(tmp) + 1) /\ DOMAIN tmp = 1..Len(tmp) /\ Len(tmp) \in Nat
    BY DEF TypeOK, FilesType
  <2>2. \A i \in DOMAIN tmp : tmp[i] \in started \cup dropped'
    BY <1>12, <2>1 DEF EndScript, AccountedInv, SettledInv
  <2>3. Elems(tmp) \subseteq started \cup dropped'
    BY <2>2, Zenon DEF Elems
  <2> QED
    BY <1>12, <2>3, Zenon DEF EndScript, NoFault, misc, disk, AccountedInv, CopiesInv, SettledInv,
       Accounted, Regular, Stored, InMemory, Early, Exits, Logging
<1>13. CASE CopyScript
  BY <1>13, ElemsEmpty, Zenon DEF CopyScript, Fault, NoFault, misc, disk, script, history, AccountedInv,
     CopiesInv, SettledInv, Accounted, Regular, Stored, InMemory, Early, Exits, Logging
<1>14. CASE DeleteScript
  BY <1>14, ElemsEmpty DEF DeleteScript, NoFault, misc, disk, script, history, AccountedInv,
     CopiesInv, SettledInv, Accounted, Regular, Stored, InMemory, Early, Exits, Logging
<1>15. CASE NoScript
  BY <1>15, ElemsEmpty, Zenon DEF NoScript, NoFault, misc, disk, script, history, AccountedInv,
     CopiesInv, SettledInv, Accounted, Regular, Stored, InMemory, Early, Exits, Logging
<1>16. CASE Decide
  BY <1>16, ElemsEmpty, Zenon DEF Decide, NoFault, misc, disk, script, history, AccountedInv, CopiesInv,
     SettledInv, Accounted, Regular, Stored, InMemory, Early, Exits, Logging
<1>17. CASE Tw_Reboot
  BY <1>17, ElemsEmpty, Zenon DEF Tw_Reboot, NoFault, misc, disk, script, history, AccountedInv,
     CopiesInv, SettledInv, Accounted, Regular, Stored, InMemory, Early, Exits, Logging
<1>18. CASE Restart
  BY <1>18, ElemsEmpty, Zenon DEF Restart, SwitchOff, NewProcess, NoFault, misc, disk, script, history,
     AccountedInv, CopiesInv, SettledInv, Accounted, Regular, Stored, InMemory, Early, Exits,
     Logging
<1>19. CASE HotReboot
  BY <1>19, ElemsEmpty, Zenon DEF HotReboot, NewProcess, NoFault, misc, disk, script, history,
     AccountedInv, CopiesInv, SettledInv, Accounted, Regular, Stored, InMemory, Early, Exits,
     Logging
<1>20. CASE Partition_SetMsg
  BY <1>20, ElemsEmpty, Zenon DEF Partition_SetMsg, NoFault, misc, disk, script, history, AccountedInv,
     CopiesInv, SettledInv, Accounted, Regular, Stored, InMemory, Early, Exits, Logging
<1>21. ASSUME NEW kinds \in Requests, WriteCommand(kinds) PROVE AccountedInv'
  <2>1. "partition" \notin kinds
    BY ConstantsAssumption, Zenon DEF ArgKinds
  <2>2. \A c \in command' : c[3] # "partition"
    BY <1>21, <2>1 DEF WriteCommand
  <2>3. boot_args = {} /\ command = {}
    BY <1>21, Zenon DEF WriteCommand, AccountedInv, CopiesInv
  <2> QED
    BY <1>21, <2>2, <2>3, Zenon DEF WriteCommand, NoFault, misc, script, AccountedInv, CopiesInv,
       SettledInv, Accounted, Regular, Stored, InMemory, Early, Exits, Logging
<1>22. ASSUME NEW s \in Scripts, WriteScript(s) PROVE AccountedInv'
  BY <1>22, ElemsEmpty, Zenon DEF WriteScript, NoFault, misc, disk, script, history, AccountedInv,
     CopiesInv, SettledInv, Accounted, Regular, Stored, InMemory, Early, Exits, Logging
<1>23. ASSUME NEW why \in {"recovery", "system"}, AndroidReboots(why) PROVE AccountedInv'
  BY <1>23, ElemsEmpty, Zenon DEF AndroidReboots, NoFault, misc, disk, script, history, AccountedInv,
     CopiesInv, SettledInv, Accounted, Regular, Stored, InMemory, Early, Exits, Logging
<1>24. ASSUME NEW how \in {"tw_reboot", "recovery", "hot", "poweroff"}, UserReboots(how) PROVE AccountedInv'
  BY <1>24, ElemsEmpty, Zenon DEF UserReboots, Fault, NoFault, misc, disk, script, history,
     AccountedInv, CopiesInv, SettledInv, Accounted, Regular, Stored, InMemory, Early, Exits,
     Logging
<1>25. CASE Partition_SDCard
  BY <1>25, Zenon DEF Partition_SDCard, Fault, Regular
<1>26. CASE PowerFails
  BY <1>26, ElemsEmpty, Zenon DEF PowerFails, SwitchOff, NewProcess, Fault, NoFault, misc, disk, script,
     history, AccountedInv, CopiesInv, SettledInv, Accounted, Regular, Stored, InMemory, Early,
     Exits, Logging
<1>27. CASE ProcessDies
  BY <1>27, ElemsEmpty, Zenon DEF ProcessDies, NewProcess, Fault, NoFault, misc, disk, script, history,
     AccountedInv, CopiesInv, SettledInv, Accounted, Regular, Stored, InMemory, Early, Exits,
     Logging
<1>28. CASE UNCHANGED vars
  BY <1>28 DEF vars, misc, AccountedInv, CopiesInv, SettledInv, Accounted, Regular, Stored,
     InMemory, Early, Exits, Logging
<1> QED
  BY <1>1, <1>2, <1>3, <1>4, <1>5, <1>6, <1>7, <1>8, <1>9, <1>10, <1>11, <1>12, <1>13, <1>14,
     <1>15, <1>16, <1>17, <1>18, <1>19, <1>20, <1>21, <1>22, <1>23, <1>24, <1>25, <1>26, <1>27,
     <1>28, Zenon DEF Next, Startup, Android, User

\* Every command asked for is started, given up in one of the ways the comment
\* of Accounted lists, still on the flash or on its way from memory into a run:
\* neither Update_Log_File(), nor check_for_script_file(), nor a restart at any
\* point loses one silently.  For any number of requests and faults.
THEOREM NothingGoesAstray == Spec => []Accounted
<1> DEFINE Inv == Regular => AccountedInv
<1>1. Init => Inv
  BY ElemsEmpty, Zenon DEF Init, AccountedInv, CopiesInv, SettledInv, Accounted, Early, Exits, Logging
<1>2. TypeOK /\ Inv /\ [Next]_vars => Inv'
  BY SeenGrows, AccountedStep, Zenon DEF Regular
<1>3. Inv => Accounted
  BY Zenon DEF AccountedInv, Regular, Accounted
<1> QED
  BY <1>1, <1>2, <1>3, TypeCorrect, PTL DEF Spec
=============================================================================
