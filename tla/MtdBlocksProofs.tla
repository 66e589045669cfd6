--------------------------- MODULE MtdBlocksProofs --------------------------
(***************************************************************************)
(* AgreeOnBlocks for every partition, every image and every failure of the  *)
(* driver.  Neither side knows which blocks the other used, so the invariant *)
(* says of each that it left out nothing but what it had to: a good block   *)
(* before the writer's position was written, a readable one before the      *)
(* reader's was delivered.                                                  *)
(* The second half is what MtdStreamProofs rests on: the blocks written so   *)
(* far and what is still to come are the image, and what was delivered and  *)
(* what is ready are the blocks the reader used, in order.                  *)
(****************************************************************************)
EXTENDS MtdStream, TLAPS

MediumType ==
  /\ flash \in [Blocks -> BlockData \cup {Torn}]
  /\ bad \subseteq Blocks /\ faults \in 0..MaxFaults
  /\ op \in Writers \cup Readers \cup {"none"} /\ pc \in PCs
  /\ off \in 0..N /\ pos \in 0..N
  /\ rv \in {0, 1}

WriterType ==
  /\ retry \in 0..1
  /\ input \in Seq(Unit) /\ data \in Seq(Unit)
  /\ stored \in Seq(Unit) /\ Len(stored) <= E
  /\ block \in BlockData /\ ret \in {"write_data", "erase_rest", "close"}

ReaderType ==
  /\ ready \in Seq(Unit) /\ Len(ready) <= E
  /\ want \in Nat /\ got \in Seq(Unit) /\ output \in Seq(Unit)

HistoryType ==
  /\ written \in Seq(BlockData) /\ at \in Seq(Blocks) /\ Len(at) = Len(written)
  /\ from \in Seq(Blocks)
  /\ image \in Seq(Unit) /\ told \in Writers \cup {"none"}
  /\ quiet \in 0..1 /\ rquiet \in 0..1

Writing == {"block", "erase", "program", "give_up", "erase_rest"}
Searching == {"erase", "program", "give_up"}
Reading == {"read_data", "read_block"}

WriterSteps == Writing \cup {"fread", "write_data", "flush", "close"}

\* Only programs that write take the writer's steps, and erase_image has nothing to
\* write.  The message of set_bootloader_msg is kept while it reads.  A block that is
\* being written is a block of the partition, and no bad one.
CallInv ==
  /\ pc \in WriterSteps => op \in Writers
  /\ op = "erase_image" => stored = <<>> /\ pc \in {"idle", "flush", "erase_rest", "close"}
  /\ op = "set_bootloader_msg" /\ pc \in Reading => Len(input) = 1
  /\ pc \in Searching => pos < N /\ pos \notin bad
  /\ pc = "give_up" => quiet = 0

TypeInv == MediumType /\ WriterType /\ ReaderType /\ HistoryType /\ CallInv

\* What the provers are to know of sequences.
LEMMA LenProperties ==
  ASSUME NEW S, NEW s \in Seq(S)
  PROVE  Len(s) \in Nat /\ s \in [1..Len(s) -> S] /\ DOMAIN s = 1..Len(s)
OBVIOUS

LEMMA ElementOfSeq ==
  ASSUME NEW S, NEW s \in Seq(S), NEW n \in 1..Len(s)
  PROVE  s[n] \in S
OBVIOUS

LEMMA AppendProperties ==
  ASSUME NEW S, NEW s \in Seq(S), NEW e \in S
  PROVE  /\ Append(s, e) \in Seq(S) /\ Len(Append(s, e)) = Len(s) + 1
         /\ \A i \in 1..Len(s) : Append(s, e)[i] = s[i]
         /\ Append(s, e)[Len(s) + 1] = e
OBVIOUS

LEMMA ConcatProperties ==
  ASSUME NEW S, NEW s \in Seq(S), NEW t \in Seq(S)
  PROVE  s \o t \in Seq(S) /\ Len(s \o t) = Len(s) + Len(t)
OBVIOUS

LEMMA SubSeqProperties ==
  ASSUME NEW S, NEW s \in Seq(S), NEW m \in 1..(Len(s) + 1), NEW n \in (m - 1)..Len(s)
  PROVE  SubSeq(s, m, n) \in Seq(S) /\ Len(SubSeq(s, m, n)) = n - m + 1
OBVIOUS

LEMMA ExceptSeq ==
  ASSUME NEW S, NEW s \in Seq(S), NEW i \in 1..Len(s), NEW e \in S
  PROVE  [s EXCEPT ![i] = e] \in Seq(S) /\ Len([s EXCEPT ![i] = e]) = Len(s)
OBVIOUS

LEMMA Constants ==
  /\ N \in Nat /\ E \in Nat /\ E > 0 /\ Erased \in BlockData /\ Junk \in BlockData
  /\ MaxFaults \in Nat /\ BufSiz \in Nat /\ Pages \in Nat
BY MtdAssumption DEF MtdAssumption, Erased, BlockData

\* Drop and SubSeq from the front cut a sequence in two.
LEMMA Cut ==
  ASSUME NEW S, NEW s \in Seq(S), NEW n \in 0..Len(s)
  PROVE  /\ SubSeq(s, 1, n) \in Seq(S) /\ Len(SubSeq(s, 1, n)) = n
         /\ Drop(s, n) \in Seq(S) /\ Len(Drop(s, n)) = Len(s) - n
<1>1. Len(s) \in Nat /\ \A i \in 1..Len(s) : s[i] \in S
  BY LenProperties, ElementOfSeq, Zenon
<1>2. SubSeq(s, 1, n) \in Seq(S) /\ Len(SubSeq(s, 1, n)) = n
  BY <1>1, SubSeqProperties
<1>3. SubSeq(s, n + 1, Len(s)) \in Seq(S) /\ Len(SubSeq(s, n + 1, Len(s))) = Len(s) - n
  BY <1>1, SubSeqProperties
<1> QED BY <1>2, <1>3, Zenon DEF Drop

LEMMA LeastIs ==
  ASSUME NEW m \in Nat, NEW n \in Nat
  PROVE  Least(m, n) \in Nat /\ Least(m, n) <= m /\ Least(m, n) <= n
BY DEF Least

\* A sequence of E units is a block.
LEMMA FullBlock ==
  ASSUME NEW s \in Seq(Unit), Len(s) = E
  PROVE  s \in BlockData
BY LenProperties, Zenon DEF BlockData

LEMMA PadBlock ==
  ASSUME NEW s \in Seq(Unit)
  PROVE  Pad(s) \in BlockData
<1>1. \A u \in 1..E : u <= Len(s) => s[u] \in Unit
  BY LenProperties, ElementOfSeq, Constants
<1> QED BY <1>1, MtdAssumption, Zenon DEF MtdAssumption, Pad, BlockData

LEMMA TypeInit == Init => TypeInv
BY Constants DEF Init, TypeInv, MediumType, WriterType, ReaderType, HistoryType, CallInv, Writers,
   Readers, PCs, Reading, Searching, WriterSteps, Writing
-----------------------------------------------------------------------------
\* The programs start.
LEMMA StartType ==
  ASSUME TypeInv, Start
  PROVE  TypeInv'
<1> USE Constants DEF TypeInv, MediumType, HistoryType, CallInv, Writers, Readers, PCs, Reading,
    Searching, WriterSteps, Writing, medium, Blocks
<1>1. ASSUME NEW img \in Seq(Unit), FlashImage(img) PROVE TypeInv'
  BY <1>1 DEF FlashImage, OpenWriter, WriterType, ReaderType
<1>2. ASSUME NEW img \in Seq(Unit), WriteToPartition(img) PROVE TypeInv'
  BY <1>2 DEF WriteToPartition, OpenWriter, WriterType, ReaderType
<1>3. ASSUME NEW m \in Messages, SetBootloaderMsg(m) PROVE TypeInv'
  <2>1. <<m>> \in Seq(Unit) /\ Len(<<m>>) = 1
    BY MtdAssumption DEF MtdAssumption
  <2> QED BY <1>3, <2>1 DEF SetBootloaderMsg, OpenReader, WriterType, ReaderType
<1>4. CASE EraseImage
  BY <1>4 DEF EraseImage, OpenWriter, WriterType, ReaderType
<1>5. CASE DumpImage
  BY <1>5 DEF DumpImage, OpenReader, writer, WriterType, ReaderType
<1>6. CASE LoadPartitionContents
  BY <1>6, MtdAssumption DEF MtdAssumption, LoadPartitionContents, OpenReader, writer, WriterType,
     ReaderType
<1> QED
  BY <1>1, <1>2, <1>3, <1>4, <1>5, <1>6, MtdAssumption, ZenonT(30) DEF Start, MtdAssumption, ReaderType

LEMMA ExitType ==
  ASSUME TypeInv, NEW r \in {0, 1}, Exit(r), UNCHANGED <<bad, op, got, output, written, at, from, image>>,
         flash' \in [Blocks -> BlockData \cup {Torn}], faults' \in 0..MaxFaults,
         told' \in Writers \cup {"none"}, quiet' \in 0..1, rquiet' \in 0..1
  PROVE  TypeInv'
<1>1. MediumType'
  BY Constants DEF Exit, TypeInv, MediumType, PCs
<1>2. WriterType' /\ ReaderType'
  BY Constants DEF Exit, TypeInv, WriterType, ReaderType
<1>3. HistoryType'
  BY Zenon DEF TypeInv, HistoryType
<1>4. CallInv'
  BY Zenon DEF Exit, TypeInv, CallInv, Reading, Searching, WriterSteps, Writing
<1> QED BY <1>1, <1>2, <1>3, <1>4, Zenon DEF TypeInv

\* What a step may do to a block of the partition.
LEMMA FlashType ==
  ASSUME TypeInv, NEW c, c \in BlockData \/ c = Torn \/ (pos < N /\ c = flash[pos]),
         flash' = [flash EXCEPT ![pos] = c]
  PROVE  flash' \in [Blocks -> BlockData \cup {Torn}]
BY Constants, ZenonT(30) DEF TypeInv, MediumType, Blocks

\* The writers' steps.
LEMMA WriteType ==
  ASSUME TypeInv, WriteStep
  PROVE  TypeInv'
<1> USE Constants DEF TypeInv, MediumType, HistoryType, CallInv, PCs, Reading, Searching, WriterSteps,
    Writing, medium, reader
<1>1. CASE Fread
  <2> DEFINE n == Least(BufSiz, Len(input))
  <2>1. Len(input) \in Nat
    BY DEF WriterType
  <2>2. n \in 0..Len(input)
    BY <2>1, LeastIs DEF Least
  <2>3. data' \in Seq(Unit) /\ Len(data') = n
    BY <1>1, <2>2, Cut, ZenonT(30) DEF Fread, WriterType
  <2>4. input' \in Seq(Unit)
    BY <1>1, <2>2, <2>3, Cut, Zenon DEF Fread, WriterType
  <2> QED BY <1>1, <2>3, <2>4, ZenonT(30) DEF Fread, WriterType, ReaderType, history
<1>2. CASE Coalesce
  <2> DEFINE n == Least(Len(data), E - Len(stored))
  <2>1. Len(data) \in Nat /\ Len(stored) \in Nat /\ E - Len(stored) \in Nat
    BY DEF WriterType
  <2>2. n \in 0..Len(data) /\ n <= E - Len(stored)
    BY <2>1 DEF Least
  <2>3. SubSeq(data, 1, n) \in Seq(Unit) /\ Len(SubSeq(data, 1, n)) = n /\ Drop(data, n) \in Seq(Unit)
    BY <2>2, Cut DEF WriterType
  <2>4. stored' \in Seq(Unit) /\ Len(stored') <= E
    <3>1. stored' = stored \o SubSeq(data, 1, n)
      BY <1>2, Zenon DEF Coalesce
    <3>2. /\ stored \o SubSeq(data, 1, n) \in Seq(Unit)
          /\ Len(stored \o SubSeq(data, 1, n)) = Len(stored) + n
      BY <2>3, ConcatProperties DEF WriterType
    <3> QED BY <2>1, <2>2, <3>1, <3>2
  <2>5. Len(stored') = E => stored' \in BlockData
    BY <2>4, FullBlock, Zenon
  <2>6. data' \in Seq(Unit)
    BY <1>2, <2>3, Zenon DEF Coalesce
  <2> QED
    BY <1>2, <2>4, <2>5, <2>6, ZenonT(30) DEF Coalesce, CallWriteBlock, WriterType, ReaderType, history
<1>3. CASE WriteDirectly
  <2>1. E \in 0..Len(data)
    BY <1>3 DEF WriteDirectly, WriterType
  <2>2. block' \in BlockData /\ data' \in Seq(Unit)
    BY <1>3, <2>1, Cut, FullBlock, ZenonT(30) DEF WriteDirectly, WriterType
  <2> QED BY <1>3, <2>2, Zenon DEF WriteDirectly, CallWriteBlock, WriterType, ReaderType, history
<1>4. CASE DataWritten
  BY <1>4, SMTT(30) DEF DataWritten, Writers, writer, WriterType, ReaderType, history
<1>5. CASE WriteBlockFails
  <2>1. CASE UNCHANGED <<locals, told>> /\ pc' = "close" /\ rv' \in {0, 1}
    BY <1>5, <2>1, Zenon DEF WriteBlockFails, locals, WriterType, ReaderType
  <2>2. CASE \E r \in {0, 1} : Return(r)
    BY <1>5, <2>2, ExitType, Zenon DEF WriteBlockFails, Return, Writers
  <2> QED BY <1>5, <2>1, <2>2, Zenon DEF WriteBlockFails
<1>6. CASE FindBlock
  <2>1. /\ pos' \in 0..N /\ faults' \in 0..MaxFaults /\ retry' \in 0..1 /\ quiet' \in 0..1
        /\ pc' \in {"block", "erase"} /\ (pc' = "erase" => pos' < N /\ pos' \notin bad)
    <3>1. pc = "block" /\ pos \in 0..N /\ pos < N /\ pos + 1 \in 0..N
      BY <1>6 DEF FindBlock, WriterType
    <3>2. CASE pos' = pos + 1 /\ UNCHANGED <<pc, retry, quiet, faults>>
      BY <3>1, <3>2, Zenon DEF WriterType
    <3>3. CASE Fault("badblock") /\ pos' = pos + 1 /\ quiet' = 0 /\ UNCHANGED <<pc, retry>>
      BY <3>1, <3>3 DEF Fault, WriterType
    <3>4. CASE pos \notin bad /\ pc' = "erase" /\ retry' = 0 /\ UNCHANGED <<pos, quiet, faults>>
      BY <3>1, <3>4 DEF WriterType
    <3> QED BY <1>6, <3>2, <3>3, <3>4, Zenon DEF FindBlock
  <2> QED BY <1>6, <2>1, Zenon DEF FindBlock, WriterType, ReaderType
<1>7. CASE EraseBlock
  <2>1. flash' \in [Blocks -> BlockData \cup {Torn}]
    BY <1>7, FlashType, Zenon DEF EraseBlock
  <2>2. /\ faults' \in 0..MaxFaults /\ retry' \in 0..1 /\ quiet' \in 0..1
        /\ pc' \in Searching /\ (pc' = "give_up" => quiet' = 0)
    BY <1>7, SMTT(30) DEF EraseBlock, Retry, Fault, WriterType
  <2> QED BY <1>7, <2>1, <2>2, Zenon DEF EraseBlock, WriterType, ReaderType
<1>8. CASE Program
  <2>1. flash' \in [Blocks -> BlockData \cup {Torn}]
    BY <1>8, FlashType, ZenonT(30) DEF Program, WriterType
  <2>2. /\ written' \in Seq(BlockData) /\ at' \in Seq(Blocks) /\ Len(at') = Len(written')
    BY <1>8, AppendProperties DEF Program, WriterType, Blocks
  <2> QED BY <1>8, <2>1, <2>2 DEF Program, WriterType, ReaderType
<1>9. CASE ProgramFails
  <2>1. flash' \in [Blocks -> BlockData \cup {Torn}]
    BY <1>9, FlashType, ZenonT(30) DEF ProgramFails, WriterType
  <2> QED BY <1>9, <2>1 DEF ProgramFails, Retry, Fault, WriterType, ReaderType
<1>10. CASE GiveUp
  <2>1. flash' \in [Blocks -> BlockData \cup {Torn}]
    BY <1>10, FlashType, ZenonT(30) DEF GiveUp
  <2> QED BY <1>10, <2>1 DEF GiveUp, writer, history, WriterType, ReaderType
<1>11. CASE Flush
  <2>1. block' \in BlockData
    BY <1>11, PadBlock, Zenon DEF Flush, WriterType
  <2> QED BY <1>11, <2>1, ZenonT(30) DEF Flush, CallWriteBlock, history, WriterType, ReaderType
<1>12. CASE EraseRest
  <2>1. flash' \in [Blocks -> BlockData \cup {Torn}]
    BY <1>12, FlashType, Zenon DEF EraseRest
  <2>2. /\ pos' \in 0..N /\ faults' \in 0..MaxFaults /\ quiet' \in 0..1
        /\ pc' \in {"erase_rest", "close"}
    BY <1>12 DEF EraseRest, Fault
  <2> QED BY <1>12, <2>1, <2>2, Zenon DEF EraseRest, writer, WriterType, ReaderType
<1>13. CASE Close
  <2>1. CASE stored = <<>>
    BY <1>13, <2>1, ExitType, Zenon DEF Close, Return, Writers
  <2>2. CASE stored # <<>>
    BY <1>13, <2>2, PadBlock, SMTT(30) DEF Close, CallWriteBlock, WriterType, ReaderType
  <2> QED BY <2>1, <2>2, Zenon
<1> QED
  BY <1>1, <1>2, <1>3, <1>4, <1>5, <1>6, <1>7, <1>8, <1>9, <1>10, <1>11, <1>12, <1>13, Zenon DEF WriteStep

\* The readers' steps.
LEMMA ReadType ==
  ASSUME TypeInv, ReadStep
  PROVE  TypeInv'
<1> USE Constants DEF TypeInv, MediumType, HistoryType, CallInv, PCs, Reading, Searching, WriterSteps,
    Writing, medium, writer
<1>1. CASE CopyReady
  <2> DEFINE n == Least(want, Len(ready))
  <2>1. n \in 0..Len(ready) /\ n <= want /\ want - n \in Nat
    BY DEF Least, ReaderType
  <2>2. /\ SubSeq(ready, 1, n) \in Seq(Unit) /\ Drop(ready, n) \in Seq(Unit)
        /\ Len(Drop(ready, n)) = Len(ready) - n
    BY <2>1, Cut, SMTT(30) DEF ReaderType
  <2>3. got \o SubSeq(ready, 1, n) \in Seq(Unit)
    BY <2>2, ConcatProperties, Zenon DEF ReaderType
  <2>4. ReaderType'
    <3>1. got' = got \o SubSeq(ready, 1, n) /\ ready' = Drop(ready, n) /\ want' = want - n
      BY <1>1, Zenon DEF CopyReady
    <3>2. output' = output
      BY <1>1, Zenon DEF CopyReady
    <3> HIDE DEF n, TypeInv, MediumType, HistoryType, CallInv
    <3>3. ReaderType
      BY Zenon DEF TypeInv
    <3> QED BY <2>1, <2>2, <2>3, <3>1, <3>2, <3>3 DEF ReaderType
  <2> QED BY <1>1, <2>4, ZenonT(30) DEF CopyReady, WriterType, history
<1>2. CASE ReadBlock
  <2>1. pos \in Blocks /\ flash[pos] \in BlockData
    BY <1>2 DEF ReadBlock, Readable, Blocks
  <2>2. flash[pos] \in Seq(Unit) /\ Len(flash[pos]) = E
    BY <2>1 DEF BlockData
  <2>3. got \o flash[pos] \in Seq(Unit)
    BY <2>2, ConcatProperties, Zenon DEF ReaderType
  <2>4. ReaderType'
    <3>1. CASE want >= E
      <4>1. want' \in Nat /\ got' = got \o flash[pos] /\ UNCHANGED <<ready, output>>
        BY <1>2, <3>1 DEF ReadBlock, ReaderType
      <4> QED BY <2>3, <4>1, Zenon DEF ReaderType
    <3>2. CASE ~(want >= E)
      <4>1. ready' = flash[pos] /\ UNCHANGED <<want, got, output>>
        BY <1>2, <3>2, Zenon DEF ReadBlock
      <4> QED BY <2>2, <4>1 DEF ReaderType
    <3> QED BY <3>1, <3>2, Zenon
  <2>5. from' \in Seq(Blocks)
    BY <1>2, <2>1, AppendProperties, Zenon DEF ReadBlock
  <2> QED BY <1>2, <2>4, <2>5 DEF ReadBlock, WriterType
<1>3. CASE SkipBlock
  <2>1. pos' \in 0..N /\ faults' \in 0..MaxFaults /\ rquiet' \in 0..1
    BY <1>3 DEF SkipBlock, Fault
  <2> QED BY <1>3, <2>1, Zenon DEF SkipBlock, WriterType, ReaderType, reader
<1>4. CASE ReadFails
  <2>1. faults' \in 0..MaxFaults /\ rquiet' \in 0..1
    BY <1>4 DEF ReadFails, Fault
  <2> QED BY <1>4, <2>1, ExitType, Zenon DEF ReadFails
<1>5. CASE DumpRead
  BY <1>5, ConcatProperties DEF DumpRead, WriterType, ReaderType, history
<1>6. CASE SizeRead
  <2>1. CASE \E r \in {0, 1} : Exit(r)
    BY <1>6, <2>1, ExitType, Zenon DEF SizeRead, history
  <2>2. CASE UNCHANGED <<pc, off, pos, writer, ready, rv>>
    <3>1. want' \in Nat
      BY <1>6, <2>2, MtdAssumption DEF SizeRead, Exit, Larger, MtdAssumption, ReaderType
    <3> QED BY <1>6, <2>2, <3>1, Zenon DEF SizeRead, history, WriterType, ReaderType
  <2> QED BY <1>6, <2>1, <2>2, Zenon DEF SizeRead
<1>7. CASE MessageRead
  <2>1. input[1] \in Unit
    <3>1. pc = "read_data" /\ op = "set_bootloader_msg"
      BY <1>7, Zenon DEF MessageRead
    <3>2. input \in Seq(Unit) /\ Len(input) = 1
      BY <3>1, Zenon DEF WriterType
    <3>3. 1 \in 1..Len(input)
      BY <3>2
    <3> QED BY <3>2, <3>3, ElementOfSeq, ZenonT(30)
  <2>2. [got EXCEPT ![2] = input[1]] \in Seq(Unit)
    <3>1. got \in Seq(Unit) /\ got \in [1..Len(got) -> Unit]
      BY LenProperties, Zenon DEF ReaderType
    <3>2. CASE 2 \in 1..Len(got)
      BY <2>1, <3>1, <3>2, ExceptSeq, Zenon
    <3>3. CASE 2 \notin 1..Len(got)
      <4>1. [got EXCEPT ![2] = input[1]] = got
        BY <3>1, <3>3, Zenon
      <4> QED BY <3>1, <4>1, ZenonT(30)
    <3> QED BY <3>2, <3>3, Zenon
  <2> QED BY <1>7, <2>2 DEF MessageRead, OpenWriter, Writers, WriterType, ReaderType
<1> QED
  BY <1>1, <1>2, <1>3, <1>4, <1>5, <1>6, <1>7, Zenon DEF ReadStep

LEMMA CrashType ==
  ASSUME TypeInv, Crash
  PROVE  TypeInv'
<1>1. flash' \in [Blocks -> BlockData \cup {Torn}]
  BY FlashType, Constants, Zenon DEF Crash, TypeInv, MediumType, WriterType
<1>2. /\ faults' \in 0..MaxFaults /\ told' \in Writers \cup {"none"}
      /\ quiet' \in 0..1 /\ rquiet' \in 0..1
  BY Constants DEF Crash, Fault, TypeInv, MediumType, HistoryType
<1> QED BY <1>1, <1>2, ExitType, Zenon DEF Crash

LEMMA TypeStep == TypeInv /\ [Next]_vars => TypeInv'
<1> SUFFICES ASSUME TypeInv, [Next]_vars PROVE TypeInv' BY Zenon
<1>1. CASE UNCHANGED vars
  BY <1>1 DEF vars, medium, writer, reader, history, TypeInv, MediumType, WriterType, ReaderType,
     HistoryType, CallInv
<1> QED BY <1>1, StartType, WriteType, ReadType, CrashType, Zenon DEF Next

\* No program runs its position past the end of the partition or its buffers over a
\* block, and write_block works on blocks of the partition that are not bad.
THEOREM TypeCorrect == Spec => []TypeOK
<1>1. TypeInv => TypeOK
  <2> SUFFICES ASSUME TypeInv PROVE TypeOK
    BY Zenon
  <2>1. pc \in {"erase", "program", "give_up"} => pos \in Blocks \ bad
    BY Constants DEF TypeInv, MediumType, CallInv, Searching, Blocks
  <2> QED BY <2>1, Zenon DEF TypeInv, MediumType, WriterType, ReaderType, HistoryType, TypeOK
<1> QED BY <1>1, TypeInit, TypeStep, PTL DEF Spec
-----------------------------------------------------------------------------
\* What the writer wrote stays where it is: behind its position.
WrittenInv ==
  /\ \A k \in 1..Len(at) : flash[at[k]] = written[k] /\ at[k] \notin bad
  /\ \A j, k \in 1..Len(at) : j < k => at[j] < at[k]
  /\ pc \in WriterSteps => \A k \in 1..Len(at) : at[k] < off
  /\ pc \in Writing => \A k \in 1..Len(at) : at[k] < pos

InAt(b) == \E k \in 1..Len(at) : at[k] = b
InFrom(b) == \E k \in 1..Len(from) : from[k] = b

\* A writer that met no failure left out bad blocks only ...
NoGapInv ==
  quiet = 1 =>
    /\ \A b \in Blocks, k \in 1..Len(at) : b \notin bad /\ b <= at[k] => InAt(b)
    /\ pc \in WriterSteps => \A b \in Blocks : b \notin bad /\ b < off => InAt(b)
    /\ pc \in {"block", "erase", "program"} =>
         \A b \in Blocks : b \notin bad /\ b < pos => InAt(b)

\* ... and a reader that met none left out what cannot be read.
ReaderInv ==
  rquiet = 1 /\ pc \in Reading =>
    /\ \A k \in 1..Len(from) : from[k] < off
    /\ \A b \in Blocks : Readable(b) /\ b < off => InFrom(b)
    /\ pc = "read_block" =>
         off <= pos /\ \A b \in Blocks : Readable(b) /\ b < pos => InFrom(b)

AgreeInv ==
  /\ pc \in WriterSteps => from = <<>>
  /\ quiet = 1 /\ rquiet = 1 => \A k \in 1..Len(from) : k <= Len(at) => from[k] = at[k]

BlocksInv == WrittenInv /\ NoGapInv /\ ReaderInv /\ AgreeInv

LEMMA BlocksInit == Init => BlocksInv
BY SMTT(30) DEF Init, BlocksInv, WrittenInv, NoGapInv, ReaderInv, AgreeInv, WriterSteps, Writing, Reading

\* A program starts: nothing is written yet, or nothing is read.
LEMMA WriterOpens ==
  ASSUME TypeInv, BlocksInv, NEW img, OpenWriter(img), pc' \in WriterSteps \ Writing, UNCHANGED flash
  PROVE  BlocksInv'
BY SMTT(30) DEF OpenWriter, BlocksInv, WrittenInv, NoGapInv, ReaderInv, AgreeInv, WriterSteps, Writing,
   Reading, Blocks

LEMMA ReaderOpens ==
  ASSUME TypeInv, BlocksInv, NEW n, OpenReader(n),
         UNCHANGED <<flash, bad, written, at, quiet>>
  PROVE  BlocksInv'
BY DEF OpenReader, BlocksInv, WrittenInv, NoGapInv, ReaderInv, AgreeInv, WriterSteps, Writing,
   Reading, Blocks, InAt

LEMMA StartBlocks ==
  ASSUME TypeInv, BlocksInv, Start
  PROVE  BlocksInv'
<1>1. ASSUME NEW img, FlashImage(img) PROVE BlocksInv'
  <2>1. OpenWriter(img) /\ pc' \in WriterSteps \ Writing /\ UNCHANGED flash
    BY <1>1, Zenon DEF FlashImage, WriterSteps, Writing, medium
  <2> QED BY <2>1, WriterOpens, Zenon
<1>2. ASSUME NEW img, WriteToPartition(img) PROVE BlocksInv'
  <2>1. OpenWriter(img) /\ pc' \in WriterSteps \ Writing /\ UNCHANGED flash
    BY <1>2, Zenon DEF WriteToPartition, WriterSteps, Writing, medium
  <2> QED BY <2>1, WriterOpens, Zenon
<1>3. CASE EraseImage
  <2>1. OpenWriter(<<>>) /\ pc' \in WriterSteps \ Writing /\ UNCHANGED flash
    BY <1>3, Zenon DEF EraseImage, WriterSteps, Writing, medium
  <2> QED BY <2>1, WriterOpens, Zenon
<1>4. ASSUME NEW m, SetBootloaderMsg(m) PROVE BlocksInv'
  BY <1>4, ReaderOpens, Zenon DEF SetBootloaderMsg, medium
<1>5. CASE DumpImage
  BY <1>5, ReaderOpens, Zenon DEF DumpImage, medium
<1>6. CASE LoadPartitionContents
  BY <1>6, ReaderOpens, Zenon DEF LoadPartitionContents, medium
<1> QED BY <1>1, <1>2, <1>3, <1>4, <1>5, <1>6, Zenon DEF Start

\* A step that changes the block at the position changes nothing that was written.
LEMMA OneBlock ==
  ASSUME TypeInv, WrittenInv, pc \in Writing, NEW c, flash' = [flash EXCEPT ![pos] = c],
         UNCHANGED <<bad, at, written>>
  PROVE  \A k \in 1..Len(at) : flash'[at[k]] = written[k] /\ at[k] \notin bad'
<1>1. \A k \in 1..Len(at) : at[k] \in Blocks /\ at[k] < pos
  BY ElementOfSeq, Zenon DEF TypeInv, HistoryType, WrittenInv
<1>2. \A k \in 1..Len(at) : at[k] # pos
  BY <1>1, Constants DEF Blocks, TypeInv, MediumType
<1> QED BY <1>1, <1>2, Zenon DEF WrittenInv, TypeInv, MediumType

LEMMA ExitBlocks ==
  ASSUME TypeInv, BlocksInv, pc' = "idle", UNCHANGED <<bad, at, written, from>>,
         UNCHANGED flash \/ (pc \in Writing /\ \E c : flash' = [flash EXCEPT ![pos] = c]),
         quiet' = quiet \/ quiet' = 0, rquiet' = rquiet \/ rquiet' = 0
  PROVE  BlocksInv'
<1>1. \A k \in 1..Len(at) : flash'[at[k]] = written[k] /\ at[k] \notin bad'
  BY OneBlock, Zenon DEF BlocksInv, WrittenInv
<1>2. WrittenInv'
  BY <1>1, Zenon DEF BlocksInv, WrittenInv, WriterSteps, Writing
<1>3. NoGapInv'
  BY DEF BlocksInv, NoGapInv, WriterSteps, Writing, InAt
<1>4. ReaderInv' /\ AgreeInv'
  BY DEF BlocksInv, ReaderInv, AgreeInv, WriterSteps, Writing, Reading
<1> QED BY <1>2, <1>3, <1>4, Zenon DEF BlocksInv

\* Steps between two calls of write_block, and the call itself.
LEMMA BetweenBlocks ==
  ASSUME BlocksInv, pc \in WriterSteps, UNCHANGED <<flash, bad, off, written, at, from, quiet, rquiet>>,
         \/ pc' \in WriterSteps \ Writing
         \/ pc' \in {"block", "erase_rest"} /\ pos' = off
  PROVE  BlocksInv'
<1>1. WrittenInv'
  BY Zenon DEF BlocksInv, WrittenInv, WriterSteps, Writing
<1>2. NoGapInv'
  BY Zenon DEF BlocksInv, NoGapInv, WriterSteps, Writing, InAt
<1>3. ReaderInv' /\ AgreeInv'
  BY Zenon DEF BlocksInv, ReaderInv, AgreeInv, WriterSteps, Writing, Reading
<1> QED BY <1>1, <1>2, <1>3, Zenon DEF BlocksInv

\* Steps of write_block and mtd_erase_blocks that write nothing.
LEMMA AtBlock ==
  ASSUME TypeInv, BlocksInv, pc \in Writing, pc' \in WriterSteps,
         UNCHANGED <<bad, written, at, from, rquiet>>,
         UNCHANGED flash \/ \E c : flash' = [flash EXCEPT ![pos] = c],
         off' = off \/ off' = pos \/ off' = pos + 1,
         pos' = pos \/ pos' = pos + 1,
         quiet' = 0 \/ (quiet' = quiet /\ off' = off),
         quiet' = 1 =>
           \/ pc \in {"block", "erase"} /\ pos' = pos
           \/ pc = "block" /\ pos \in bad
           \/ pc = "erase_rest" /\ pc' \notin {"block", "erase", "program"}
  PROVE  BlocksInv'
<1>1. \A k \in 1..Len(at) : flash'[at[k]] = written[k] /\ at[k] \notin bad'
  BY OneBlock, Zenon DEF BlocksInv, WrittenInv
<1>2. WrittenInv'
  <2>1. \A k \in 1..Len(at) : at[k] \in Blocks
    BY ElementOfSeq, Zenon DEF TypeInv, HistoryType
  <2>2. pc \in WriterSteps
    BY Zenon DEF WriterSteps
  <2>3. \A k \in 1..Len(at) : at[k] < off /\ at[k] < pos
    BY <2>2, Zenon DEF BlocksInv, WrittenInv
  <2>4. \A k \in 1..Len(at) : at[k] < off' /\ at[k] < pos'
    BY <2>1, <2>3, Constants DEF TypeInv, MediumType, Blocks
  <2> QED BY <1>1, <2>4, Zenon DEF BlocksInv, WrittenInv
<1>3. NoGapInv'
  <2> SUFFICES ASSUME quiet' = 1 PROVE NoGapInv'
    BY Zenon DEF NoGapInv
  <2>1. quiet = 1 /\ off' = off
    OBVIOUS
  <2>2. \A b \in Blocks, k \in 1..Len(at) : b \notin bad /\ b <= at[k] => InAt(b)
    BY <2>1, Zenon DEF BlocksInv, NoGapInv
  <2>3. \A b \in Blocks : b \notin bad /\ b < off => InAt(b)
    BY <2>1, Zenon DEF BlocksInv, NoGapInv, WriterSteps
  <2>4. pc' \in {"block", "erase", "program"} => \A b \in Blocks : b \notin bad /\ b < pos' => InAt(b)
    <3>1. CASE pc \in {"block", "erase"} /\ pos' = pos
      BY <2>1, <3>1, Zenon DEF BlocksInv, NoGapInv
    <3>2. CASE pc = "block" /\ pos \in bad
      <4>1. \A b \in Blocks : b \notin bad /\ b < pos => InAt(b)
        BY <2>1, <3>2, Zenon DEF BlocksInv, NoGapInv
      <4>2. \A b \in Blocks : b < pos' => b < pos \/ b = pos
        BY Constants DEF TypeInv, MediumType, Blocks
      <4> QED BY <3>2, <4>1, <4>2, Zenon
    <3> QED BY <3>1, <3>2, Zenon
  <2>5. \A b : InAt(b)' <=> InAt(b)
    BY Zenon DEF InAt
  <2> QED BY <2>1, <2>2, <2>3, <2>4, <2>5, Zenon DEF NoGapInv
<1>4. ReaderInv' /\ AgreeInv'
  BY DEF BlocksInv, ReaderInv, AgreeInv, WriterSteps, Writing, Reading
<1> QED BY <1>2, <1>3, <1>4, Zenon DEF BlocksInv

\* The block is written, and the next position is the one after it.
LEMMA ProgramBlocks ==
  ASSUME TypeInv, BlocksInv, Program
  PROVE  BlocksInv'
<1> DEFINE n == Len(at)
<1>1. /\ n \in Nat /\ Len(at') = n + 1 /\ at'[n + 1] = pos
      /\ \A k \in 1..n : at'[k] = at[k] /\ at[k] \in Blocks
  <2>1. pos \in Blocks
    BY Constants DEF Program, TypeInv, MediumType, CallInv, Searching, Blocks
  <2>2. at \in Seq(Blocks) /\ at' = Append(at, pos)
    BY Zenon DEF Program, TypeInv, HistoryType
  <2> QED BY <2>1, <2>2, AppendProperties, LenProperties, ElementOfSeq
<1>2. /\ Len(written) = n /\ written'[n + 1] = block /\ \A k \in 1..n : written'[k] = written[k]
  BY AppendProperties, SMTT(30) DEF Program, TypeInv, HistoryType, WriterType
<1>3. /\ pos \in Blocks /\ pos \notin bad /\ off' = pos + 1 /\ pos' = pos + 1
      /\ flash' = [flash EXCEPT ![pos] = block]
      /\ UNCHANGED <<bad, from, quiet, rquiet>> /\ pc' \in WriterSteps
      /\ pc' \notin {"block", "erase", "program"}
  BY Constants DEF Program, TypeInv, MediumType, WriterType, CallInv, Searching, Blocks, WriterSteps, Writing
<1>4. \A k \in 1..n : at[k] < pos /\ flash[at[k]] = written[k] /\ at[k] \notin bad
  BY Zenon DEF Program, BlocksInv, WrittenInv, Writing
<1>5. \A k \in 1..(n + 1) : k = n + 1 \/ k \in 1..n
  BY <1>1
<1>6. WrittenInv'
  <2>1. \A k \in 1..(n + 1) : flash'[at'[k]] = written'[k] /\ at'[k] \notin bad'
    <3>1. flash'[pos] = block /\ \A b \in Blocks : b # pos => flash'[b] = flash[b]
      BY <1>3, Zenon DEF TypeInv, MediumType
    <3>2. \A k \in 1..n : at[k] # pos
      BY <1>1, <1>3, <1>4, Constants, SMTT(30) DEF Blocks
    <3>3. \A k \in 1..n : flash'[at'[k]] = written'[k] /\ at'[k] \notin bad'
      BY <1>1, <1>2, <1>3, <1>4, <3>1, <3>2, SMTT(30)
    <3>4. flash'[at'[n + 1]] = written'[n + 1] /\ at'[n + 1] \notin bad'
      BY <1>1, <1>2, <1>3, <3>1, SMTT(30)
    <3> QED BY <1>5, <3>3, <3>4, Zenon
  <2>2. \A j, k \in 1..(n + 1) : j < k => at'[j] < at'[k]
    <3>1. \A j, k \in 1..n : j < k => at[j] < at[k]
      BY Zenon DEF BlocksInv, WrittenInv
    <3> QED BY <1>1, <1>4, <1>5, <3>1, SMTT(30)
  <2>3. \A k \in 1..(n + 1) : at'[k] < pos + 1
    <3>1. \A k \in 1..n : at'[k] < pos + 1
      BY <1>1, <1>3, <1>4, Constants DEF Blocks
    <3>2. at'[n + 1] < pos + 1
      BY <1>1, <1>3, Constants DEF Blocks
    <3> QED BY <1>5, <3>1, <3>2, Zenon
  <2> QED BY <1>1, <1>3, <2>1, <2>2, <2>3, Zenon DEF WrittenInv
<1>7. NoGapInv'
  <2> SUFFICES ASSUME quiet' = 1 PROVE NoGapInv'
    BY Zenon DEF NoGapInv
  <2>1. \A b \in Blocks : b \notin bad /\ b < pos => \E k \in 1..n : at[k] = b
    BY <1>3, Zenon DEF Program, BlocksInv, NoGapInv, InAt
  <2>2. \A b \in Blocks : b \notin bad /\ b < pos + 1 => \E k \in 1..(n + 1) : at'[k] = b
    <3> SUFFICES ASSUME NEW b \in Blocks, b \notin bad, b < pos + 1
                 PROVE  \E k \in 1..(n + 1) : at'[k] = b
      BY Zenon
    <3>1. CASE b = pos
      <4>1. n + 1 \in 1..(n + 1)
        BY <1>1
      <4> QED BY <1>1, <3>1, <4>1, Zenon
    <3>2. CASE b # pos
      <4>1. b < pos
        BY <1>3, <3>2, Constants DEF Blocks
      <4>2. PICK k \in 1..n : at[k] = b
        BY <2>1, <4>1, Zenon
      <4>3. k \in 1..(n + 1)
        BY <1>1
      <4> QED BY <1>1, <4>2, <4>3, Zenon
    <3> QED BY <3>1, <3>2, Zenon
  <2>3. \A b \in Blocks, k \in 1..(n + 1) : b <= at'[k] => b < pos + 1
    <3>1. \A k \in 1..(n + 1) : at'[k] \in Blocks /\ at'[k] <= pos
      BY <1>1, <1>3, <1>4, <1>5, Constants, SMTT(30) DEF Blocks
    <3> QED BY <1>3, <3>1, Constants DEF Blocks
  <2> QED BY <1>1, <1>3, <2>2, <2>3, Zenon DEF NoGapInv, InAt
<1>8. ReaderInv' /\ AgreeInv'
  BY <1>3 DEF Program, BlocksInv, ReaderInv, AgreeInv, WriterSteps, Writing, Reading
<1> QED BY <1>6, <1>7, <1>8, SMTT(30) DEF BlocksInv

LEMMA WriteBlocks ==
  ASSUME TypeInv, BlocksInv, WriteStep
  PROVE  BlocksInv'
<1>1. CASE Fread \/ DataWritten
  <2>1. /\ pc \in WriterSteps /\ pc' \in WriterSteps \ Writing
        /\ UNCHANGED <<flash, bad, off, written, at, from, quiet, rquiet>>
    BY <1>1, Zenon DEF Fread, DataWritten, medium, history, WriterSteps, Writing, TypeInv, CallInv, Writers
  <2> QED BY <2>1, BetweenBlocks, Zenon
<1>2. CASE Coalesce \/ WriteDirectly \/ Flush
  <2>1. /\ pc \in WriterSteps
        /\ pc' \in WriterSteps \ Writing \/ (pc' \in {"block", "erase_rest"} /\ pos' = off)
        /\ UNCHANGED <<flash, bad, off, written, at, from, quiet, rquiet>>
    BY <1>2, Zenon DEF Coalesce, WriteDirectly, Flush, CallWriteBlock, medium, history, WriterSteps, Writing
  <2> QED BY <2>1, BetweenBlocks, SMTT(30)
<1>3. CASE WriteBlockFails
  <2>1. CASE pc' = "idle"
    BY <1>3, <2>1, ExitBlocks, SMTT(30) DEF WriteBlockFails, medium
  <2>2. CASE pc' = "close" /\ UNCHANGED locals
    <3>1. /\ pc \in WriterSteps /\ pc' \in WriterSteps \ Writing
          /\ UNCHANGED <<flash, bad, off, written, at, from, quiet, rquiet>>
      BY <1>3, <2>2, Zenon DEF WriteBlockFails, medium, locals, WriterSteps, Writing
    <3> QED BY <3>1, BetweenBlocks, Zenon
  <2> QED BY <1>3, <2>1, <2>2, Zenon DEF WriteBlockFails, Return, Exit
<1>4. CASE FindBlock
  <2>1. /\ pc = "block" /\ pc' \in {"block", "erase"} /\ quiet' \in {0, quiet}
        /\ pos' = pos \/ pos' = pos + 1
        /\ quiet' = 1 => pos' = pos \/ pos \in bad
        /\ UNCHANGED <<flash, bad, off, written, at, from, rquiet>>
    BY <1>4 DEF FindBlock
  <2> QED BY <2>1, AtBlock, Zenon DEF Writing, WriterSteps
<1>5. CASE EraseBlock
  <2>1. /\ pc = "erase" /\ pc' \in Searching /\ quiet' \in {0, quiet}
        /\ \E c : flash' = [flash EXCEPT ![pos] = c]
        /\ UNCHANGED <<bad, off, pos, written, at, from, rquiet>>
    BY <1>5, Zenon DEF EraseBlock, Retry, Searching
  <2> QED BY <2>1, AtBlock, ZenonT(30) DEF Writing, WriterSteps, Searching
<1>6. CASE ProgramFails
  <2>1. /\ pc = "program" /\ pc' \in Searching /\ quiet' = 0
        /\ \E c : flash' = [flash EXCEPT ![pos] = c]
        /\ off' = pos \/ off' = pos + 1
        /\ UNCHANGED <<bad, pos, written, at, from, rquiet>>
    BY <1>6, ZenonT(30) DEF ProgramFails, Retry, Searching
  <2>2. pc \in Writing /\ pc' \in WriterSteps /\ quiet' # 1
    BY <2>1 DEF Writing, WriterSteps, Searching
  <2> QED BY <2>1, <2>2, AtBlock, ZenonT(30)
<1>7. CASE GiveUp
  <2>1. /\ pc = "give_up" /\ pc' = "block" /\ quiet' = 0 /\ pos' = pos + 1
        /\ \E c : flash' = [flash EXCEPT ![pos] = c]
        /\ UNCHANGED <<bad, off, written, at, from, rquiet>>
    BY <1>7, ZenonT(30) DEF GiveUp, history, TypeInv, CallInv
  <2>2. pc \in Writing /\ pc' \in WriterSteps /\ quiet' # 1
    BY <2>1 DEF Writing, WriterSteps
  <2> QED BY <2>1, <2>2, AtBlock, ZenonT(30)
<1>8. CASE EraseRest
  <2>1. /\ pc = "erase_rest" /\ pc' \in {"erase_rest", "close"} /\ quiet' \in {0, quiet}
        /\ UNCHANGED flash \/ \E c : flash' = [flash EXCEPT ![pos] = c]
        /\ pos' = pos \/ pos' = pos + 1
        /\ UNCHANGED <<bad, off, written, at, from, rquiet>>
    BY <1>8, Zenon DEF EraseRest
  <2> QED BY <2>1, AtBlock, Zenon DEF Writing, WriterSteps
<1>9. CASE Close
  <2>1. CASE stored = <<>>
    BY <1>9, <2>1, ExitBlocks, Zenon DEF Close, Return, Exit, medium
  <2>2. CASE stored # <<>>
    <3>1. /\ pc \in WriterSteps /\ pc' = "block" /\ pos' = off
          /\ UNCHANGED <<flash, bad, off, written, at, from, quiet, rquiet>>
      BY <1>9, <2>2, Zenon DEF Close, CallWriteBlock, medium, WriterSteps
    <3> QED BY <3>1, BetweenBlocks, Zenon
  <2> QED BY <2>1, <2>2, Zenon
<1> QED
  BY <1>1, <1>2, <1>3, <1>4, <1>5, <1>6, <1>7, <1>8, <1>9, ProgramBlocks, Zenon DEF WriteStep

\* The block a reader gets next is the block that was written next.
LEMMA ReadBlockAgrees ==
  ASSUME TypeInv, BlocksInv, ReadBlock, quiet = 1, rquiet = 1, Len(from) + 1 <= Len(at)
  PROVE  pos = at[Len(from) + 1]
<1> DEFINE n == Len(from) + 1
<1>1. n \in 1..Len(at) /\ \A k \in 1..Len(at) : at[k] \in Blocks
  BY ElementOfSeq, LenProperties, SMTT(30) DEF TypeInv, HistoryType
<1>2. \A k \in 1..Len(from) : k \in 1..Len(at) /\ k < n /\ from[k] = at[k] /\ from[k] < off
  BY LenProperties, SMTT(30) DEF BlocksInv, AgreeInv, ReaderInv, ReadBlock, Reading, TypeInv, HistoryType
<1>3. \A j, k \in 1..Len(at) : j < k => at[j] < at[k]
  BY ZenonT(30) DEF BlocksInv, WrittenInv
<1>4. /\ off <= pos /\ pos \in Blocks /\ pos \notin bad /\ pos \in Nat
      /\ \A b \in Blocks : Readable(b) /\ b < pos => InFrom(b)
  BY Constants, SMTT(30) DEF BlocksInv, ReaderInv, ReadBlock, Readable, Reading, Blocks, TypeInv, MediumType
<1>5. Readable(at[n])
  <2>1. flash[at[n]] = written[n] /\ at[n] \notin bad
    BY <1>1, Zenon DEF BlocksInv, WrittenInv
  <2>2. written[n] \in BlockData
    BY <1>1, ElementOfSeq, Zenon DEF TypeInv, HistoryType
  <2> QED BY <2>1, <2>2, MtdAssumption, SMTT(30) DEF Readable, MtdAssumption
<1>6. ~(at[n] < pos)
  <2> SUFFICES ASSUME at[n] < pos PROVE FALSE
    BY Zenon
  <2>1. PICK k \in 1..Len(from) : from[k] = at[n]
    BY <1>1, <1>4, <1>5, ZenonT(30) DEF InFrom
  <2>2. k \in 1..Len(at) /\ k < n /\ at[k] = at[n]
    BY <1>2, <2>1, Zenon
  <2>3. at[k] < at[n] /\ at[n] \in Blocks
    BY <1>1, <1>3, <2>2, Zenon
  <2> QED BY <2>2, <2>3, Constants DEF Blocks
<1>7. ~(pos < at[n])
  <2> SUFFICES ASSUME pos < at[n] PROVE FALSE
    BY Zenon
  <2>1. pos <= at[n]
    BY <1>1, <1>4, Constants DEF Blocks
  <2>2. PICK j \in 1..Len(at) : at[j] = pos
    BY <1>1, <1>4, <2>1, Zenon DEF BlocksInv, NoGapInv, InAt
  <2>3. j < n
    <3>1. j # n
      BY <1>4, <2>2
    <3>2. ~(n < j)
      <4>1. n < j => at[n] < pos
        BY <1>1, <1>3, <2>2, Zenon
      <4> QED BY <1>6, <4>1, Zenon
    <3> QED BY <1>1, <3>1, <3>2, LenProperties DEF TypeInv, HistoryType
  <2>4. j \in 1..Len(from)
    BY <2>3, LenProperties DEF TypeInv, HistoryType
  <2>5. pos < off
    BY <1>2, <2>2, <2>4, SMTT(30)
  <2> QED BY <1>4, <2>5 DEF TypeInv, MediumType
<1> QED BY <1>1, <1>4, <1>6, <1>7, Constants DEF Blocks

\* Reading changes neither the flash nor what is recorded of the last writer.
LEMMA ReadKeeps ==
  ASSUME BlocksInv, pc' \in Reading, UNCHANGED <<flash, bad, written, at, quiet>>
  PROVE  WrittenInv' /\ NoGapInv'
BY Zenon DEF BlocksInv, WrittenInv, NoGapInv, WriterSteps, Writing, Reading, InAt

LEMMA ReadBlockKeeps ==
  ASSUME TypeInv, BlocksInv, ReadBlock
  PROVE  BlocksInv'
<1> DEFINE n == Len(from)
<1>1. pos \in Blocks /\ pos \in Nat
  BY Constants, SMTT(30) DEF ReadBlock, TypeInv, MediumType, Blocks
<1>2. /\ n \in Nat /\ Len(from') = n + 1 /\ from'[n + 1] = pos
      /\ \A k \in 1..n : from'[k] = from[k] /\ from[k] \in Blocks
  <2>1. from \in Seq(Blocks) /\ from' = Append(from, pos)
    BY Zenon DEF ReadBlock, TypeInv, HistoryType
  <2> QED BY <1>1, <2>1, AppendProperties, LenProperties, ElementOfSeq, SMTT(30)
<1>3. /\ pc = "read_block" /\ pc' = "read_data" /\ off' = pos + 1
      /\ UNCHANGED <<flash, bad, written, at, quiet, rquiet>>
  BY SMTT(30) DEF ReadBlock, medium
<1>4. \A k \in 1..(n + 1) : k = n + 1 \/ k \in 1..n
  BY <1>2
<1>5. ReaderInv'
  <2> SUFFICES ASSUME rquiet = 1 PROVE ReaderInv'
    BY <1>3, Zenon DEF ReaderInv
  <2>1. /\ off <= pos /\ \A k \in 1..n : from[k] < off
        /\ \A b \in Blocks : Readable(b) /\ b < pos => InFrom(b)
    BY <1>3, Zenon DEF BlocksInv, ReaderInv, Reading
  <2>2. \A k \in 1..(n + 1) : from'[k] < pos + 1
    <3>1. \A k \in 1..n : from'[k] < pos + 1
      BY <1>1, <1>2, <2>1, Constants DEF Blocks, TypeInv, MediumType
    <3>2. from'[n + 1] < pos + 1
      BY <1>1, <1>2
    <3> QED BY <1>4, <3>1, <3>2, Zenon
  <2>3. \A b \in Blocks : Readable(b) /\ b < pos + 1 => \E k \in 1..(n + 1) : from'[k] = b
    <3> SUFFICES ASSUME NEW b \in Blocks, Readable(b), b < pos + 1
                 PROVE  \E k \in 1..(n + 1) : from'[k] = b
      BY Zenon
    <3>1. CASE b = pos
      <4>1. n + 1 \in 1..(n + 1)
        BY <1>2
      <4> QED BY <1>2, <3>1, <4>1, Zenon
    <3>2. CASE b # pos
      <4>1. b < pos
        BY <1>1, <3>2, Constants DEF Blocks
      <4>2. PICK k \in 1..n : from[k] = b
        BY <2>1, <4>1, Zenon DEF InFrom
      <4>3. k \in 1..(n + 1)
        BY <1>2
      <4> QED BY <1>2, <4>2, <4>3, Zenon
    <3> QED BY <3>1, <3>2, Zenon
  <2>4. \A b : Readable(b)' <=> Readable(b)
    BY <1>3, Zenon DEF Readable
  <2> QED BY <1>2, <1>3, <2>2, <2>3, <2>4, Zenon DEF ReaderInv, InFrom
<1>6. AgreeInv'
  <2>1. quiet = 1 /\ rquiet = 1 => \A k \in 1..(n + 1) : k <= Len(at) => from'[k] = at[k]
    <3> SUFFICES ASSUME quiet = 1, rquiet = 1, NEW k \in 1..(n + 1), k <= Len(at)
                 PROVE  from'[k] = at[k]
      BY Zenon
    <3>1. CASE k = n + 1
      BY <1>2, <3>1, ReadBlockAgrees, Zenon
    <3>2. CASE k \in 1..n
      BY <1>2, <3>2, Zenon DEF BlocksInv, AgreeInv
    <3> QED BY <1>4, <3>1, <3>2, Zenon
  <2> QED BY <1>2, <1>3, <2>1, Zenon DEF AgreeInv, WriterSteps, Writing
<1> QED BY <1>3, <1>5, <1>6, ReadKeeps, Zenon DEF BlocksInv, Reading

LEMMA ReadBlocks ==
  ASSUME TypeInv, BlocksInv, ReadStep
  PROVE  BlocksInv'
<1>1. CASE CopyReady \/ DumpRead \/ (SizeRead /\ pc' # "idle")
  <2>1. /\ pc = "read_data" /\ pc' \in Reading /\ (pc' = "read_block" => pos' = off)
        /\ UNCHANGED <<flash, bad, off, written, at, from, quiet, rquiet>>
    BY <1>1, SMTT(30) DEF CopyReady, DumpRead, SizeRead, Exit, medium, history, Reading
  <2>2. ReaderInv'
    BY <2>1 DEF BlocksInv, ReaderInv, Reading, Readable, InFrom, TypeInv, MediumType
  <2>3. AgreeInv'
    BY <2>1, Zenon DEF BlocksInv, AgreeInv, Reading, WriterSteps, Writing
  <2> QED BY <2>1, <2>2, <2>3, ReadKeeps, SMTT(30) DEF BlocksInv
<1>2. CASE ReadBlock
  BY <1>2, ReadBlockKeeps, Zenon
<1>3. CASE SkipBlock
  <2>1. /\ pc = "read_block" /\ pc' = "read_block" /\ pos' = pos + 1 /\ pos \in Nat
        /\ rquiet' = 0 \/ (rquiet' = rquiet /\ ~Readable(pos))
        /\ UNCHANGED <<flash, bad, off, written, at, from, quiet>>
    BY <1>3, SMTT(30) DEF SkipBlock, TypeInv, MediumType
  <2>2. ReaderInv'
    <3> SUFFICES ASSUME rquiet' = 1 PROVE ReaderInv'
      BY Zenon DEF ReaderInv
    <3>1. rquiet = 1 /\ ~Readable(pos)
      BY <2>1
    <3>2. /\ off <= pos /\ \A k \in 1..Len(from) : from[k] < off
          /\ \A b \in Blocks : Readable(b) /\ b < off => InFrom(b)
          /\ \A b \in Blocks : Readable(b) /\ b < pos => InFrom(b)
      BY <2>1, <3>1, Zenon DEF BlocksInv, ReaderInv, Reading
    <3>3. \A b \in Blocks : b < pos + 1 => b < pos \/ b = pos
      BY <2>1, Constants DEF Blocks
    <3>4. \A b \in Blocks : Readable(b) /\ b < pos + 1 => InFrom(b)
      BY <3>1, <3>2, <3>3, Zenon
    <3>5. off <= pos + 1
      BY <2>1, <3>2 DEF TypeInv, MediumType
    <3>6. \A b : (Readable(b)' <=> Readable(b)) /\ (InFrom(b)' <=> InFrom(b))
      BY <2>1, Zenon DEF Readable, InFrom
    <3> QED BY <2>1, <3>2, <3>4, <3>5, <3>6, Zenon DEF ReaderInv
  <2>3. AgreeInv'
    BY <2>1 DEF BlocksInv, AgreeInv, WriterSteps, Writing
  <2> QED BY <2>1, <2>2, <2>3, ReadKeeps, SMTT(30) DEF BlocksInv, Reading
<1>4. CASE ReadFails \/ (SizeRead /\ pc' = "idle")
  <2>1. /\ pc' = "idle" /\ UNCHANGED <<flash, bad, at, written, from, quiet>>
        /\ rquiet' = rquiet \/ rquiet' = 0
    BY <1>4, Zenon DEF ReadFails, SizeRead, Exit, medium, history
  <2> QED BY <2>1, ExitBlocks, SMTT(30)
<1>5. CASE MessageRead
  <2>1. OpenWriter(data') /\ pc' \in WriterSteps \ Writing /\ UNCHANGED flash
    BY <1>5, Zenon DEF MessageRead, WriterSteps, Writing, medium
  <2> QED BY <2>1, WriterOpens, Zenon
<1> QED BY <1>1, <1>2, <1>3, <1>4, <1>5, Zenon DEF ReadStep

LEMMA CrashBlocks ==
  ASSUME TypeInv, BlocksInv, Crash
  PROVE  BlocksInv'
<1>1. /\ pc' = "idle" /\ UNCHANGED <<bad, at, written, from>> /\ rquiet' = 0
      /\ quiet' = quiet \/ quiet' = 0
  BY Zenon DEF Crash, Exit
<1>2. UNCHANGED flash \/ (pc \in Writing /\ \E c : flash' = [flash EXCEPT ![pos] = c])
  BY Zenon DEF Crash, Writing
<1> QED BY <1>1, <1>2, ExitBlocks, Zenon

LEMMA BlocksStep == TypeInv /\ BlocksInv /\ [Next]_vars => BlocksInv'
<1> SUFFICES ASSUME TypeInv, BlocksInv, [Next]_vars PROVE BlocksInv' BY SMTT(30)
<1>1. CASE UNCHANGED vars
  BY <1>1, ZenonT(30) DEF vars, medium, history, BlocksInv, WrittenInv, NoGapInv, ReaderInv, AgreeInv, InAt,
     InFrom, Readable
<1> QED BY <1>1, StartBlocks, WriteBlocks, ReadBlocks, CrashBlocks, Zenon DEF Next

\* Whatever is written to a partition of whatever size and whichever of its blocks are
\* bad, the blocks a later reader gets are, in order, the blocks that were written,
\* and they hold what was written to them.
THEOREM ReadersFindWrites == Spec => []AgreeOnBlocks
<1>1. TypeInv /\ BlocksInv => AgreeOnBlocks
  BY Zenon DEF BlocksInv, WrittenInv, AgreeInv, AgreeOnBlocks
<1> QED BY <1>1, TypeInit, TypeStep, BlocksInit, BlocksStep, PTL DEF Spec
-----------------------------------------------------------------------------
\* Unit u of the k-th block of a stream, counted from zero, is its unit E * k + u.
LEMMA Places ==
  ASSUME NEW k \in Nat, NEW u \in 1..E
  PROVE  /\ E * k \in Nat /\ E * k + u \in Nat \ {0}
         /\ ((E * k + u) - 1) \div E = k /\ (((E * k + u) - 1) % E) + 1 = u
         /\ \A n \in Nat : E * k + u <= E * n <=> k < n
BY Constants

LEMMA PlaceOf ==
  ASSUME NEW i \in Nat \ {0}
  PROVE  \E k \in Nat, u \in 1..E : i = E * k + u /\ k = (i - 1) \div E
<1>1. /\ (i - 1) \div E \in Nat /\ ((i - 1) % E) + 1 \in 1..E
      /\ i = E * ((i - 1) \div E) + (((i - 1) % E) + 1)
  BY Constants
<1> QED BY <1>1, Zenon

LEMMA OneMoreBlock ==
  ASSUME NEW n \in Nat
  PROVE  E * (n + 1) = E * n + E /\ E * n \in Nat
BY Constants

LEMMA Joined ==
  ASSUME NEW s \in Seq(Unit), NEW t \in Seq(Unit)
  PROVE  /\ s \o t \in Seq(Unit) /\ Len(s \o t) = Len(s) + Len(t)
         /\ \A i \in 1..Len(s) : (s \o t)[i] = s[i]
         /\ \A i \in 1..Len(t) : (s \o t)[Len(s) + i] = t[i]
OBVIOUS

LEMMA SameSeq ==
  ASSUME NEW s \in Seq(Unit), NEW t \in Seq(Unit), Len(s) = Len(t), \A i \in 1..Len(s) : s[i] = t[i]
  PROVE  s = t
OBVIOUS

LEMMA Regrouped ==
  ASSUME NEW s \in Seq(Unit), NEW t \in Seq(Unit), NEW r \in Seq(Unit)
  PROVE  (s \o t) \o r = s \o (t \o r)
OBVIOUS

LEMMA WithNothing ==
  ASSUME NEW s \in Seq(Unit)
  PROVE  s \o <<>> = s /\ <<>> \o s = s /\ <<>> \in Seq(Unit)
OBVIOUS

LEMMA CutInTwo ==
  ASSUME NEW s \in Seq(Unit), NEW n \in 0..Len(s)
  PROVE  /\ SubSeq(s, 1, n) \in Seq(Unit) /\ Drop(s, n) \in Seq(Unit)
         /\ Len(SubSeq(s, 1, n)) = n /\ Len(Drop(s, n)) = Len(s) - n
         /\ SubSeq(s, 1, n) \o Drop(s, n) = s
<1>1. /\ SubSeq(s, 1, n) \in Seq(Unit) /\ Len(SubSeq(s, 1, n)) = n
      /\ Drop(s, n) \in Seq(Unit) /\ Len(Drop(s, n)) = Len(s) - n
  BY Cut, Zenon
<1>2. /\ \A i \in 1..n : SubSeq(s, 1, n)[i] = s[i]
      /\ \A i \in 1..(Len(s) - n) : Drop(s, n)[i] = s[n + i]
  BY DEF Drop
<1>3. PICK a, b : a = SubSeq(s, 1, n) /\ b = Drop(s, n)
  BY Zenon
<1>4. /\ a \o b \in Seq(Unit) /\ Len(a \o b) = Len(s)
      /\ \A i \in 1..n : (a \o b)[i] = s[i]
      /\ \A i \in 1..(Len(s) - n) : (a \o b)[n + i] = s[n + i]
  BY <1>1, <1>2, <1>3, Joined
<1>5. \A i \in 1..Len(s) : (a \o b)[i] = s[i]
  <2> SUFFICES ASSUME NEW i \in 1..Len(s) PROVE (a \o b)[i] = s[i]
    BY Zenon
  <2>1. CASE i <= n
    <3>1. i \in 1..n
      BY <2>1
    <3> QED BY <1>4, <3>1, Zenon
  <2>2. CASE i > n
    <3>1. PICK j \in 1..(Len(s) - n) : n + j = i
      BY <2>2
    <3> QED BY <1>4, <3>1, Zenon
  <2>3. i <= n \/ i > n
    BY LenProperties
  <2> QED BY <2>1, <2>2, <2>3, Zenon
<1>6. a \o b = s
  BY <1>4, <1>5, SameSeq, Zenon
<1> QED BY <1>1, <1>3, <1>6, Zenon
-----------------------------------------------------------------------------
\* A stream is what read_block has returned so far, block after block.
Delivers(s) ==
  /\ Len(s) = E * Len(from)
  /\ \A k \in 1..Len(from), u \in 1..E : s[E * (k - 1) + u] = flash[from[k]][u]

\* What an undisturbed reader got, and has still in its buffer, is what read_block has
\* returned; it calls read_block only when the buffer is empty and something is wanted.
DeliverInv ==
  rquiet = 1 /\ pc \in Reading =>
    /\ \A k \in 1..Len(from) : Readable(from[k])
    /\ \A j, k \in 1..Len(from) : j < k => from[j] < from[k]
    /\ Delivers((output \o got) \o ready)
    /\ pc = "read_block" => ready = <<>> /\ want > 0
    /\ IF op = "dump_image" THEN Len(got) + want = 1 ELSE output = <<>>

LEMMA Opened ==
  ASSUME OpenReader(1) \/ (op' # "dump_image" /\ \E n : OpenReader(n))
  PROVE  DeliverInv'
<1>1. /\ from' = <<>> /\ output' = <<>> /\ got' = <<>> /\ ready' = <<>> /\ pc' = "read_data"
      /\ op' = "dump_image" => want' = 1
  BY Zenon DEF OpenReader
<1>2. (output' \o got') \o ready' = <<>> /\ Len(from') = 0 /\ Len(<<>>) = 0 /\ E * 0 = 0
  BY <1>1, Constants
<1>3. Delivers((output \o got) \o ready)'
  BY <1>2 DEF Delivers
<1> QED BY <1>1, <1>2, <1>3 DEF DeliverInv

LEMMA NoReader ==
  ASSUME pc' \notin Reading \/ rquiet' = 0
  PROVE  DeliverInv'
BY DEF DeliverInv

LEMMA StartDelivers ==
  ASSUME Start
  PROVE  DeliverInv'
<1>1. ASSUME NEW img, FlashImage(img) PROVE DeliverInv'
  BY <1>1, NoReader, Zenon DEF FlashImage, Reading
<1>2. ASSUME NEW img, WriteToPartition(img) PROVE DeliverInv'
  BY <1>2, NoReader, Zenon DEF WriteToPartition, Reading
<1>3. CASE EraseImage
  BY <1>3, NoReader, Zenon DEF EraseImage, Reading
<1>4. ASSUME NEW m, SetBootloaderMsg(m) PROVE DeliverInv'
  BY <1>4, Opened, Zenon DEF SetBootloaderMsg
<1>5. CASE DumpImage
  BY <1>5, Opened, Zenon DEF DumpImage
<1>6. CASE LoadPartitionContents
  BY <1>6, Opened, Zenon DEF LoadPartitionContents
<1> QED BY <1>1, <1>2, <1>3, <1>4, <1>5, <1>6, Zenon DEF Start

\* The same data, in another buffer.
LEMMA SameDelivery ==
  ASSUME DeliverInv, pc \in Reading, UNCHANGED <<flash, bad, from, rquiet, op>>,
         (output' \o got') \o ready' = (output \o got) \o ready,
         rquiet = 1 =>
           /\ pc' = "read_block" => ready' = <<>> /\ want' > 0
           /\ IF op = "dump_image" THEN Len(got') + want' = 1 ELSE output' = <<>>
  PROVE  DeliverInv'
<1> SUFFICES ASSUME rquiet = 1, pc' \in Reading PROVE DeliverInv'
  BY Zenon DEF DeliverInv
<1>1. /\ \A k \in 1..Len(from) : Readable(from[k])
      /\ \A j, k \in 1..Len(from) : j < k => from[j] < from[k]
      /\ Delivers((output \o got) \o ready)
  BY Zenon DEF DeliverInv
<1>2. \A b : Readable(b)' <=> Readable(b)
  BY Zenon DEF Readable
<1>3. Delivers((output \o got) \o ready)'
  BY <1>1, Zenon DEF Delivers
<1>4. (\A k \in 1..Len(from) : Readable(from[k]))'
  BY <1>1, <1>2, Zenon DEF Readable
<1> QED BY <1>1, <1>3, <1>4, Zenon DEF DeliverInv

LEMMA CopyDelivers ==
  ASSUME TypeInv, DeliverInv, CopyReady
  PROVE  DeliverInv'
<1>1. PICK n : n = Least(want, Len(ready))
  BY Zenon
<1>2. /\ output \in Seq(Unit) /\ got \in Seq(Unit) /\ ready \in Seq(Unit) /\ want \in Nat
      /\ pc = "read_data" /\ want > 0 /\ Len(ready) \in Nat
  BY LenProperties, Zenon DEF TypeInv, ReaderType, CopyReady
<1>3. n \in 0..Len(ready) /\ n <= want /\ (want > n => n = Len(ready))
  BY <1>1, <1>2 DEF Least
<1>4. PICK a, b : a = SubSeq(ready, 1, n) /\ b = Drop(ready, n)
  BY Zenon
<1>5. a \in Seq(Unit) /\ b \in Seq(Unit) /\ Len(a) = n /\ Len(b) = Len(ready) - n /\ a \o b = ready
  BY <1>2, <1>3, <1>4, CutInTwo, Zenon
<1>6. /\ got' = got \o a /\ ready' = b /\ want' = want - n
      /\ IF want > n THEN pc' = "read_block" ELSE pc' = pc
      /\ UNCHANGED <<flash, bad, from, rquiet, op, output>>
  BY <1>1, <1>4, Zenon DEF CopyReady, medium, history
<1>7. (output' \o got') \o ready' = (output \o got) \o ready
  <2>1. (output \o got) \o a = output \o (got \o a)
    <3>1. output \in Seq(Unit) /\ got \in Seq(Unit) /\ a \in Seq(Unit)
      BY <1>2, <1>5, Zenon
    <3> QED BY <3>1, Regrouped, Zenon
  <2>2. ((output \o got) \o a) \o b = (output \o got) \o (a \o b)
    <3>1. output \o got \in Seq(Unit)
      BY <1>2, Joined, Zenon
    <3> QED BY <1>5, <3>1, Regrouped, Zenon
  <2> QED BY <1>5, <1>6, <2>1, <2>2, Zenon
<1>8. pc' = "read_block" => ready' = <<>> /\ want' > 0
  <2>1. pc' = "read_block" => Len(b) = 0 /\ want - n > 0
    BY <1>2, <1>3, <1>5, <1>6
  <2> QED BY <1>5, <1>6, <2>1
<1>9. Len(got') + want' = Len(got) + want
  <2>1. Len(got \o a) = Len(got) + n /\ Len(got) \in Nat
    BY <1>2, <1>5, Joined, LenProperties, Zenon
  <2> QED BY <1>2, <1>3, <1>6, <2>1
<1> QED BY <1>2, <1>6, <1>7, <1>8, <1>9, SameDelivery, Zenon DEF DeliverInv, Reading

LEMMA RecordDelivers ==
  ASSUME TypeInv, DeliverInv, DumpRead
  PROVE  DeliverInv'
<1>1. /\ output \in Seq(Unit) /\ got \in Seq(Unit) /\ ready \in Seq(Unit) /\ pc = "read_data"
      /\ output' = output \o got /\ got' = <<>> /\ want' = 1 /\ pc' = "read_data"
      /\ UNCHANGED <<flash, bad, from, rquiet, op, ready>> /\ op = "dump_image"
  BY Zenon DEF TypeInv, ReaderType, DumpRead, medium, history
<1>2. (output' \o got') \o ready' = (output \o got) \o ready
  BY <1>1, Joined, WithNothing, Zenon
<1>3. Len(got') + want' = 1
  BY <1>1
<1> QED BY <1>1, <1>2, <1>3, SameDelivery, Zenon DEF Reading

\* One more block.
LEMMA OneMoreDelivered ==
  ASSUME from \in Seq(Blocks), UNCHANGED flash, NEW b \in Blocks, from' = Append(from, b),
         NEW d \in Seq(Unit), d = flash[b], Len(d) = E,
         (output \o got) \o ready \in Seq(Unit), Delivers((output \o got) \o ready),
         (output' \o got') \o ready' = ((output \o got) \o ready) \o d
  PROVE  Delivers((output \o got) \o ready)'
<1>1. PICK n, s : n = Len(from) /\ s = (output \o got) \o ready
  BY Zenon
<1>2. /\ n \in Nat /\ Len(from') = n + 1 /\ from'[n + 1] = b
      /\ \A k \in 1..n : from'[k] = from[k]
  BY <1>1, AppendProperties, LenProperties
<1>3. /\ s \in Seq(Unit) /\ Len(s) = E * n /\ \A k \in 1..n, u \in 1..E : s[E * (k - 1) + u] = flash[from[k]][u]
  BY <1>1, Zenon DEF Delivers
<1>4. /\ Len(s \o d) = Len(s) + E /\ \A i \in 1..Len(s) : (s \o d)[i] = s[i]
      /\ \A u \in 1..E : (s \o d)[Len(s) + u] = d[u]
  BY <1>3, Joined, Zenon
<1>5. Len(s \o d) = E * (n + 1)
  BY <1>2, <1>3, <1>4, OneMoreBlock, Zenon
<1>6. ASSUME NEW k \in 1..(n + 1), NEW u \in 1..E PROVE (s \o d)[E * (k - 1) + u] = flash[from'[k]][u]
  <2>1. CASE k = n + 1
    <3>1. E * (k - 1) + u = Len(s) + u
      BY <1>2, <1>3, <2>1
    <3> QED BY <1>2, <1>4, <2>1, <3>1, Zenon
  <2>2. CASE k \in 1..n
    <3>1. E * (k - 1) + u \in 1..Len(s)
      <4>1. k - 1 \in Nat /\ k - 1 < n
        BY <1>2, <2>2
      <4>2. E * (k - 1) + u \in Nat \ {0} /\ E * (k - 1) + u <= E * n
        BY <1>2, <4>1, Places, Zenon
      <4> QED BY <1>2, <1>3, <4>2
    <3>2. (s \o d)[E * (k - 1) + u] = s[E * (k - 1) + u] /\ s[E * (k - 1) + u] = flash[from[k]][u]
      BY <1>3, <1>4, <2>2, <3>1, Zenon
    <3> QED BY <1>2, <2>2, <3>2, Zenon
  <2>3. k = n + 1 \/ k \in 1..n
    BY <1>2
  <2> QED BY <2>1, <2>2, <2>3, Zenon
<1>7. PICK t : t = s \o d
  BY Zenon
<1>8. (output' \o got') \o ready' = t
  BY <1>1, <1>7, Zenon
<1>9. Len(t) = E * Len(from')
  BY <1>2, <1>5, <1>7, Zenon
<1>10. 1..Len(from') = 1..(n + 1) /\ flash' = flash
  BY <1>2, Zenon
<1>11. ASSUME NEW k \in 1..Len(from'), NEW u \in 1..E
       PROVE  t[E * (k - 1) + u] = flash'[from'[k]][u]
  <2>1. k \in 1..(n + 1)
    BY <1>10, Zenon
  <2>2. (s \o d)[E * (k - 1) + u] = flash[from'[k]][u]
    BY <1>6, <2>1, Zenon
  <2> QED BY <1>7, <1>10, <2>2, Zenon
<1> QED BY <1>8, <1>9, <1>11, Zenon DEF Delivers

LEMMA ReadBlockDelivers ==
  ASSUME TypeInv, BlocksInv, DeliverInv, ReadBlock
  PROVE  DeliverInv'
<1> SUFFICES ASSUME rquiet = 1 PROVE DeliverInv'
  BY Zenon DEF DeliverInv, ReadBlock
<1>1. /\ output \in Seq(Unit) /\ got \in Seq(Unit) /\ ready \in Seq(Unit) /\ want \in Nat
      /\ from \in Seq(Blocks) /\ pos \in Blocks /\ Readable(pos) /\ from' = Append(from, pos)
      /\ pc = "read_block" /\ pc' = "read_data" /\ UNCHANGED <<flash, bad, rquiet, op, output>>
  BY Constants DEF TypeInv, ReaderType, HistoryType, MediumType, ReadBlock, medium, Blocks
<1>2. /\ \A k \in 1..Len(from) : Readable(from[k]) /\ from[k] < pos
      /\ \A j, k \in 1..Len(from) : j < k => from[j] < from[k]
      /\ Delivers((output \o got) \o ready) /\ ready = <<>> /\ want > 0
      /\ IF op = "dump_image" THEN Len(got) + want = 1 ELSE output = <<>>
  <2>1. \A k \in 1..Len(from) : from[k] \in Blocks /\ from[k] < off /\ off <= pos
    BY <1>1, ElementOfSeq, Zenon DEF BlocksInv, ReaderInv, Reading
  <2>2. \A k \in 1..Len(from) : from[k] < pos
    BY <1>1, <2>1, Constants DEF Blocks, TypeInv, MediumType
  <2> QED BY <1>1, <2>2, Zenon DEF DeliverInv, Reading
<1>3. PICK d : d = flash[pos]
  BY Zenon
<1>4. d \in Seq(Unit) /\ Len(d) = E
  <2>1. d \in [1..E -> Unit] /\ E \in Nat
    BY <1>1, <1>3, Constants, Zenon DEF TypeInv, MediumType, Readable, BlockData
  <2> QED BY <2>1
<1>5. IF want >= E THEN got' = got \o d /\ want' = want - E /\ ready' = <<>>
                   ELSE ready' = d /\ got' = got /\ want' = want
  BY <1>2, <1>3, Zenon DEF ReadBlock
<1>6. (output' \o got') \o ready' = ((output \o got) \o ready) \o d
  <2>1. output \o got \in Seq(Unit) /\ (output \o got) \o ready = output \o got
    BY <1>1, <1>2, Joined, WithNothing, Zenon
  <2>2. (output \o got) \o d = output \o (got \o d) /\ got \o d \in Seq(Unit)
    <3>1. (output \o got) \o d = output \o (got \o d)
      BY <1>1, <1>4, Regrouped, Zenon
    <3>2. got \o d \in Seq(Unit)
      BY <1>1, <1>4, Joined, Zenon
    <3> QED BY <3>1, <3>2, Zenon
  <2>3. output \o (got \o d) \in Seq(Unit)
    BY <1>1, <2>2, Joined, Zenon
  <2>4. (output \o (got \o d)) \o <<>> = output \o (got \o d)
    BY <2>3, WithNothing, Zenon
  <2> QED BY <1>1, <1>5, <2>1, <2>2, <2>4, Zenon
<1>7. Delivers((output \o got) \o ready)'
  <2>1. (output \o got) \o ready \in Seq(Unit)
    BY <1>1, Joined, Zenon
  <2> QED BY <1>1, <1>2, <1>3, <1>4, <1>6, <2>1, OneMoreDelivered, Zenon
<1>8. IF op' = "dump_image" THEN Len(got') + want' = 1 ELSE output' = <<>>
  <2>1. Len(got \o d) = Len(got) + E /\ Len(got) \in Nat
    BY <1>1, <1>4, Joined, LenProperties, Zenon
  <2>2. Len(got') + want' = Len(got) + want
    <3>1. PICK g : g = Len(got)
      BY Zenon
    <3>2. \/ Len(got') = g + E /\ want' = want - E
          \/ Len(got') = g /\ want' = want
      BY <1>5, <2>1, <3>1, Zenon
    <3>3. g + E + (want - E) = g + want
      BY <1>1, <2>1, <3>1, Constants
    <3> QED BY <3>1, <3>2, <3>3, Zenon
  <2> QED BY <1>1, <1>2, <2>2, Zenon
<1>9. /\ (\A k \in 1..Len(from) : Readable(from[k]))'
      /\ (\A j, k \in 1..Len(from) : j < k => from[j] < from[k])'
  <2>1. PICK n : n = Len(from)
    BY Zenon
  <2>2. /\ n \in Nat /\ Len(from') = n + 1 /\ from'[n + 1] = pos
        /\ \A k \in 1..n : from'[k] = from[k]
    BY <1>1, <2>1, AppendProperties, LenProperties
  <2>3. \A k \in 1..(n + 1) : k = n + 1 \/ k \in 1..n
    BY <2>2
  <2>4. \A j, k \in 1..(n + 1) : j < k => j \in 1..n
    BY <2>2
  <2>5. \A k \in 1..(n + 1) : Readable(from'[k])
    BY <1>1, <1>2, <2>1, <2>2, <2>3, Zenon
  <2>6. \A j, k \in 1..(n + 1) : j < k => from'[j] < from'[k]
    BY <1>2, <2>1, <2>2, <2>3, <2>4, Zenon
  <2> QED BY <1>1, <2>2, <2>5, <2>6, Zenon DEF Readable
<1> QED BY <1>1, <1>7, <1>8, <1>9, Zenon DEF DeliverInv

LEMMA ReadDelivers ==
  ASSUME TypeInv, BlocksInv, DeliverInv, ReadStep
  PROVE  DeliverInv'
<1>1. CASE SkipBlock
  <2>1. /\ pc = "read_block" /\ pc' = "read_block" /\ (rquiet' = 0 \/ rquiet' = rquiet)
        /\ UNCHANGED <<flash, bad, from, op, output, got, ready, want>>
    BY <1>1, Zenon DEF SkipBlock, reader
  <2>2. CASE rquiet' = 0
    BY <2>2, NoReader, Zenon
  <2>3. CASE rquiet' = rquiet
    <3>1. (output' \o got') \o ready' = (output \o got) \o ready
      BY <2>1, Zenon
    <3>2. rquiet = 1 => /\ ready' = <<>> /\ want' > 0
                        /\ IF op = "dump_image" THEN Len(got') + want' = 1 ELSE output' = <<>>
      BY <2>1, Zenon DEF DeliverInv, Reading
    <3> QED BY <2>1, <2>3, <3>1, <3>2, SameDelivery, Zenon DEF Reading
  <2> QED BY <2>1, <2>2, <2>3, Zenon
<1>2. CASE SizeRead
  <2>1. CASE pc' = "idle"
    BY <2>1, NoReader, Zenon DEF Reading
  <2>2. CASE pc' # "idle"
    <3>1. /\ pc = "read_data" /\ pc' = "read_data" /\ op = "LoadPartitionContents"
          /\ UNCHANGED <<flash, bad, from, rquiet, op, output, got, ready>>
      BY <1>2, <2>2, Zenon DEF SizeRead, Exit, medium, history
    <3>2. (output' \o got') \o ready' = (output \o got) \o ready
      BY <3>1, Zenon
    <3>3. rquiet = 1 => output' = <<>>
      BY <3>1, Zenon DEF DeliverInv, Reading
    <3>4. pc' # "read_block" /\ op # "dump_image" /\ pc \in Reading
      BY <3>1, Zenon DEF Reading
    <3> QED BY <3>1, <3>2, <3>3, <3>4, SameDelivery, Zenon
  <2> QED BY <2>1, <2>2, Zenon
<1>3. CASE ReadFails
  BY <1>3, NoReader, Zenon DEF ReadFails, Exit, Reading
<1>4. CASE MessageRead
  BY <1>4, NoReader, Zenon DEF MessageRead, Reading
<1> QED
  BY <1>1, <1>2, <1>3, <1>4, CopyDelivers, RecordDelivers, ReadBlockDelivers, Zenon DEF ReadStep

LEMMA WriterStays ==
  ASSUME TypeInv, WriteStep
  PROVE  pc' \notin Reading /\ rquiet' = rquiet /\ pc \in WriterSteps
<1> USE DEF Reading, WriterSteps, Writing, history
<1>0. CASE DataWritten
  <2>1. op \in {"flash_image", "WriteToPartition", "set_bootloader_msg"}
    BY <1>0, Zenon DEF TypeInv, CallInv, DataWritten, Writers
  <2> QED BY <1>0, <2>1, Zenon DEF DataWritten
<1>1. CASE Fread \/ Coalesce \/ WriteDirectly \/ Flush
  BY <1>1, Zenon DEF Fread, Coalesce, WriteDirectly, Flush, CallWriteBlock
<1>2. CASE WriteBlockFails \/ Close
  BY <1>2, Zenon DEF WriteBlockFails, Close, Return, Exit, CallWriteBlock
<1>3. CASE FindBlock \/ EraseBlock \/ ProgramFails \/ GiveUp \/ EraseRest
  BY <1>3, Zenon DEF FindBlock, EraseBlock, ProgramFails, GiveUp, EraseRest, Retry
<1>4. CASE Program
  BY <1>4, Zenon DEF Program, TypeInv, WriterType
<1> QED BY <1>0, <1>1, <1>2, <1>3, <1>4, Zenon DEF WriteStep

LEMMA DeliverStep ==
  ASSUME TypeInv, BlocksInv, DeliverInv, [Next]_vars
  PROVE  DeliverInv'
<1>1. CASE UNCHANGED vars
  BY <1>1, Zenon DEF vars, medium, reader, history, DeliverInv, Delivers, Readable
<1>2. CASE Crash
  BY <1>2, NoReader, Zenon DEF Crash, Exit, Reading
<1>3. CASE WriteStep
  BY <1>3, NoReader, WriterStays, Zenon
<1> QED BY <1>1, <1>2, <1>3, StartDelivers, ReadDelivers, Zenon DEF Next
-----------------------------------------------------------------------------
\* The blocks written so far are the beginning of the image, the last one padded ...
ImageInv ==
  \A k \in 1..Len(written) :
    /\ E * (k - 1) < Len(image)
    /\ \A u \in 1..E :
         written[k][u] = IF E * (k - 1) + u <= Len(image) THEN image[E * (k - 1) + u] ELSE Zero
\* ... and s is the rest of it.
Left(s) ==
  /\ Len(image) = E * Len(written) + Len(s)
  /\ \A i \in 1..Len(s) : image[E * Len(written) + i] = s[i]
Done == Len(image) <= E * Len(written)

LEMMA OneLonger ==
  ASSUME NEW s \in Seq(BlockData), NEW d \in BlockData, NEW w, w = Append(s, d),
         NEW n, n = Len(s)
  PROVE  Len(w) = n + 1 /\ w[n + 1] = d /\ \A k \in 1..n : w[k] = s[k]
BY AppendProperties

LEMMA BlockWritten ==
  ASSUME written \in Seq(BlockData), NEW d \in BlockData, written' = Append(written, d),
         image \in Seq(Unit), UNCHANGED image, ImageInv, NEW n \in Nat, n = Len(written),
         E * n < Len(image),
         \A u \in 1..E : d[u] = IF E * n + u <= Len(image) THEN image[E * n + u] ELSE Zero
  PROVE  ImageInv' /\ Len(written') = n + 1
<1>1. Len(written') = n + 1 /\ written'[n + 1] = d /\ \A k \in 1..n : written'[k] = written[k]
  BY OneLonger, SMTT(30)
<1>2. (n + 1) - 1 = n
  OBVIOUS
<1>3. ASSUME NEW k \in 1..(n + 1)
      PROVE  /\ E * (k - 1) < Len(image)
             /\ \A u \in 1..E :
                  written'[k][u] = IF E * (k - 1) + u <= Len(image) THEN image[E * (k - 1) + u] ELSE Zero
  <2>1. CASE k = n + 1
    BY <1>1, <1>2, <2>1, Zenon
  <2>2. CASE k \in 1..n
    <3>1. /\ E * (k - 1) < Len(image)
          /\ \A u \in 1..E :
               written[k][u] = IF E * (k - 1) + u <= Len(image) THEN image[E * (k - 1) + u] ELSE Zero
      BY <2>2, Zenon DEF ImageInv
    <3>2. written'[k] = written[k]
      BY <1>1, <2>2, Zenon
    <3> QED BY <3>1, <3>2, Zenon
  <2>3. k = n + 1 \/ k \in 1..n
    OBVIOUS
  <2> QED BY <2>1, <2>2, <2>3, Zenon
<1> QED BY <1>1, <1>3, Zenon DEF ImageInv

\* A whole block of the image is written ...
LEMMA WholeWritten ==
  ASSUME written \in Seq(BlockData), NEW d \in BlockData, d \in Seq(Unit), Len(d) = E,
         NEW s \in Seq(Unit), Left(d \o s), written' = Append(written, d),
         image \in Seq(Unit), UNCHANGED image, ImageInv
  PROVE  ImageInv' /\ Left(s)'
<1>1. PICK n \in Nat : n = Len(written)
  BY LenProperties, Zenon
<1>2. PICK l \in Nat : l = Len(s)
  BY LenProperties, Zenon
<1>3. /\ Len(image) = E * n + Len(d \o s)
      /\ \A i \in 1..Len(d \o s) : image[E * n + i] = (d \o s)[i]
  BY <1>1, Zenon DEF Left
<1>4. /\ Len(d \o s) = E + l
      /\ \A i \in 1..E : (d \o s)[i] = d[i]
      /\ \A i \in 1..l : (d \o s)[E + i] = s[i]
  BY <1>2, Joined, Zenon
<1>5. E * n < Len(image) /\ \A u \in 1..E : E * n + u <= Len(image) /\ u \in 1..(E + l)
  <2>1. PICK e \in Nat : e = E * n
    BY OneMoreBlock, Zenon
  <2>2. Len(image) = e + (E + l)
    BY <1>3, <1>4, <2>1, Zenon
  <2>3. e < e + (E + l) /\ \A u \in 1..E : e + u <= e + (E + l) /\ u \in 1..(E + l)
    BY Constants
  <2> QED BY <2>1, <2>2, <2>3, Zenon
<1>6. \A u \in 1..E : d[u] = IF E * n + u <= Len(image) THEN image[E * n + u] ELSE Zero
  BY <1>3, <1>4, <1>5, Zenon
<1>7. ImageInv' /\ Len(written') = n + 1
  BY <1>1, <1>5, <1>6, BlockWritten, Zenon
<1>8. Len(image) = E * (n + 1) + l
  BY <1>3, <1>4, Constants, OneMoreBlock
<1>9. ASSUME NEW i \in 1..l PROVE image[E * (n + 1) + i] = s[i]
  <2>1. E * (n + 1) + i = E * n + (E + i) /\ E + i \in 1..(E + l)
    BY Constants, OneMoreBlock
  <2> QED BY <1>3, <1>4, <2>1, Zenon
<1> QED BY <1>2, <1>7, <1>8, <1>9, Zenon DEF Left

\* ... or what is left of it, padded.
LEMMA LastWritten ==
  ASSUME written \in Seq(BlockData), NEW s \in Seq(Unit), s # <<>>, Len(s) <= E, Left(s),
         written' = Append(written, Pad(s)), image \in Seq(Unit), UNCHANGED image, ImageInv
  PROVE  ImageInv' /\ Done'
<1>1. PICK n \in Nat : n = Len(written)
  BY LenProperties, Zenon
<1>2. PICK l \in Nat : l = Len(s) /\ l > 0 /\ l <= E
  BY LenProperties
<1>3. Len(image) = E * n + l /\ \A i \in 1..l : image[E * n + i] = s[i]
  BY <1>1, <1>2, Zenon DEF Left
<1>4. PICK d \in BlockData : d = Pad(s)
  BY PadBlock, Zenon
<1>5. \A u \in 1..E : (u \in 1..l <=> E * n + u <= Len(image)) /\ (u <= l <=> u \in 1..l)
  BY <1>2, <1>3, Constants, OneMoreBlock
<1>6. \A u \in 1..E : d[u] = IF u <= l THEN s[u] ELSE Zero
  BY <1>2, <1>4, Zenon DEF Pad
<1>7. \A u \in 1..E : d[u] = IF E * n + u <= Len(image) THEN image[E * n + u] ELSE Zero
  BY <1>3, <1>5, <1>6, Zenon
<1>8. E * n < Len(image) /\ Len(image) <= E * (n + 1)
  BY <1>2, <1>3, Constants, OneMoreBlock
<1>9. ImageInv' /\ Len(written') = n + 1
  BY <1>1, <1>4, <1>7, <1>8, BlockWritten, Zenon
<1> QED BY <1>8, <1>9, Zenon DEF Done
-----------------------------------------------------------------------------
InCall == {"block", "erase", "program", "give_up"}

\* What mtd_write_data has not got yet, or not dealt with.
Rest == IF op = "flash_image" THEN data \o input ELSE data

LeftInv ==
  /\ pc \in {"fread", "write_data"} => Left(stored \o Rest)
  /\ pc = "fread" => op = "flash_image" /\ data = <<>>
  /\ pc = "flush" => Left(stored)
  /\ pc \in InCall /\ ret = "write_data" => Left(block \o Rest)
  /\ pc \in InCall /\ ret # "write_data" => Left(stored) /\ stored # <<>> /\ block = Pad(stored)
  /\ pc = "erase_rest" => stored = <<>> /\ Done
  /\ pc = "close" => IF stored = <<>> THEN Done ELSE Left(stored)

\* Behind the image everything is erased, except by set_bootloader_msg.
EraseInv ==
  /\ pc \in InCall /\ ret = "close" => op = "set_bootloader_msg"
  /\ pc = "erase_rest" => \A b \in Blocks \ bad : b >= off /\ b < pos => flash[b] = Erased
  /\ pc = "close" /\ op # "set_bootloader_msg" =>
        stored = <<>> /\ \A b \in Blocks \ bad : b >= off => flash[b] = Erased

\* A writer that met no failure, and whose image fits.
Live == pc \in WriterSteps /\ quiet = 1 /\ rv = 0 /\ Fits(image)

FlowInv == Live => ImageInv /\ LeftInv /\ EraseInv

\* The image is not said to be written before it is.
ToldInv ==
  /\ pc \in WriterSteps => told = "none" /\ (op = "flash_image" => rv = 0)
  /\ told # "none" /\ quiet = 1 /\ Fits(image) =>
       /\ ImageInv /\ Done
       /\ told # "set_bootloader_msg" => \A b \in Blocks \ bad : InAt(b) \/ flash[b] = Erased

LEMMA RestType == ASSUME TypeInv PROVE Rest \in Seq(Unit)
<1>1. data \in Seq(Unit) /\ input \in Seq(Unit)
  BY Zenon DEF TypeInv, WriterType
<1>2. data \o input \in Seq(Unit)
  BY <1>1, Joined, Zenon
<1> QED BY <1>1, <1>2, Zenon DEF Rest

\* A block is a sequence of units.
LEMMA BlockSeq ==
  ASSUME NEW d \in BlockData
  PROVE  d \in Seq(Unit) /\ Len(d) = E
BY Constants DEF BlockData

LEMMA SameFit ==
  ASSUME UNCHANGED <<bad, image>>
  PROVE  Fits(image)' <=> Fits(image)
BY Zenon DEF Fits, Good

LEMMA StillLeft ==
  ASSUME UNCHANGED <<image, written>>
  PROVE  (ImageInv' <=> ImageInv) /\ (Done' <=> Done) /\ \A s : Left(s) => Left(s)'
BY Zenon DEF ImageInv, Done, Left

\* Nothing is written yet.
LEMMA NothingWritten ==
  ASSUME NEW s \in Seq(Unit), image' = s, written' = <<>>
  PROVE  ImageInv' /\ Left(s)'
<1>1. Len(written') = 0 /\ E * 0 = 0 /\ Len(s) \in Nat
  BY Constants, LenProperties
<1>2. ImageInv'
  BY <1>1 DEF ImageInv
<1>3. Len(s) = E * 0 + Len(s) /\ \A i \in 1..Len(s) : E * 0 + i = i
  BY <1>1
<1>4. Left(s)'
  BY <1>1, <1>3, Zenon DEF Left
<1> QED BY <1>2, <1>4, Zenon

LEMMA OpenFlow ==
  ASSUME TypeInv, TypeInv', NEW img \in Seq(Unit), OpenWriter(img),
         \/ pc' = "flush" /\ op' # "flash_image" /\ img = <<>>
         \/ pc' = "fread" /\ op' = "flash_image" /\ data' = <<>> /\ input' = img /\ rv' = 0
         \/ pc' = "write_data" /\ op' # "flash_image" /\ data' = img
  PROVE  FlowInv' /\ ToldInv'
<1>1. image' = img /\ written' = <<>> /\ stored' = <<>> /\ told' = "none"
  BY Zenon DEF OpenWriter
<1>2. ImageInv' /\ Left(img)'
  BY <1>1, NothingWritten, Zenon
<1>3. pc' = "flush" => Left(stored)'
  <2>1. pc' = "flush" => stored' = img
    BY <1>1, Zenon
  <2> QED BY <1>2, <2>1, Zenon DEF Left
<1>4. pc' \in {"fread", "write_data"} => Left(stored \o Rest)'
  <2>1. <<>> \o img = img /\ <<>> \o (<<>> \o img) = img
    BY WithNothing, Zenon
  <2>2. pc' \in {"fread", "write_data"} => stored' \o Rest' = img
    BY <1>1, <2>1, Zenon DEF Rest
  <2> QED BY <1>2, <2>2, Zenon DEF Left
<1>5. LeftInv' /\ EraseInv'
  BY <1>3, <1>4, Zenon DEF LeftInv, EraseInv, InCall
<1> QED BY <1>1, <1>2, <1>5, Zenon DEF FlowInv, ToldInv

\* Taking from the front of the data leaves less to do.
LEMMA TakeData ==
  ASSUME TypeInv, NEW n \in 0..Len(data), data' = Drop(data, n), UNCHANGED <<input, op>>,
         NEW a \in Seq(Unit), a = SubSeq(data, 1, n)
  PROVE  Rest' \in Seq(Unit) /\ Rest = a \o Rest'
<1>1. data \in Seq(Unit) /\ input \in Seq(Unit)
  BY Zenon DEF TypeInv, WriterType
<1>2. data' \in Seq(Unit) /\ data = a \o data'
  BY <1>1, CutInTwo, Zenon
<1>3. data' \o input \in Seq(Unit)
  BY <1>1, <1>2, Joined, Zenon
<1>4. (a \o data') \o input = a \o (data' \o input)
  BY <1>1, <1>2, Regrouped, Zenon
<1> QED BY <1>2, <1>3, <1>4, Zenon DEF Rest

LEMMA FreadFlow ==
  ASSUME TypeInv, ImageInv, LeftInv, Fread
  PROVE  ImageInv' /\ LeftInv' /\ EraseInv'
<1>1. PICK n : n = Least(BufSiz, Len(input))
  BY Zenon
<1>2. /\ input \in Seq(Unit) /\ stored \in Seq(Unit) /\ Len(input) \in Nat /\ BufSiz \in Nat /\ BufSiz > 0
      /\ pc = "fread" /\ data' = SubSeq(input, 1, n)
      /\ input' = Drop(input, Len(data')) /\ pc' = IF data' = <<>> THEN "flush" ELSE "write_data"
      /\ UNCHANGED <<image, written, stored, op>>
  BY <1>1, LenProperties, MtdAssumption DEF TypeInv, WriterType, Fread, history, MtdAssumption
<1>3. n \in 0..Len(input) /\ (n = 0 => Len(input) = 0)
  BY <1>1, <1>2 DEF Least
<1>4. data' \in Seq(Unit) /\ Len(data') = n /\ input' \in Seq(Unit) /\ data' \o input' = input
  BY <1>2, <1>3, CutInTwo, Zenon
<1>5. op = "flash_image" /\ data = <<>> /\ Left(stored \o Rest)
  BY <1>2, Zenon DEF LeftInv
<1>6. Rest = input /\ Rest' = input
  BY <1>2, <1>4, <1>5, WithNothing, Zenon DEF Rest
<1>7. ImageInv' /\ Left(stored \o Rest)'
  <2>1. PICK s : s = stored \o input
    BY Zenon
  <2>2. Left(s)' /\ ImageInv'
    BY <1>2, <1>5, <1>6, <2>1, StillLeft, Zenon
  <2> QED BY <1>2, <1>6, <2>1, <2>2, Zenon DEF Left
<1>8. pc' = "flush" => Left(stored)'
  <2>1. pc' = "flush" => n = 0
    BY <1>2, <1>4, Zenon
  <2>2. pc' = "flush" => input = <<>>
    BY <1>2, <1>3, <2>1, SMTT(30)
  <2>3. pc' = "flush" => stored' \o Rest' = stored'
    BY <1>2, <1>6, <2>2, WithNothing, Zenon
  <2> QED BY <1>7, <2>3, Zenon DEF Left
<1> QED BY <1>2, <1>7, <1>8, Zenon DEF LeftInv, EraseInv, InCall

LEMMA CoalesceFlow ==
  ASSUME TypeInv, ImageInv, LeftInv, Coalesce
  PROVE  ImageInv' /\ LeftInv' /\ EraseInv'
<1>1. PICK n : n = Least(Len(data), E - Len(stored))
  BY Zenon
<1>2. PICK a : a = SubSeq(data, 1, n)
  BY Zenon
<1>3. /\ data \in Seq(Unit) /\ stored \in Seq(Unit) /\ Len(data) \in Nat /\ Len(stored) \in Nat
      /\ Len(stored) <= E /\ pc = "write_data" /\ stored' = stored \o a /\ data' = Drop(data, n)
      /\ UNCHANGED <<image, written, input, op>>
      /\ \/ pc' = "block" /\ block' = stored' /\ ret' = "write_data"
         \/ pc' = "write_data"
  BY <1>1, <1>2, LenProperties, Zenon DEF TypeInv, WriterType, Coalesce, CallWriteBlock, history
<1>4. n \in 0..Len(data)
  BY <1>1, <1>3, Constants DEF Least
<1>5. a \in Seq(Unit)
  BY <1>2, <1>3, <1>4, CutInTwo, Zenon
<1>6. Rest' \in Seq(Unit) /\ Rest = a \o Rest'
  BY <1>2, <1>3, <1>4, <1>5, TakeData, Zenon
<1>7. stored' \o Rest' = stored \o Rest
  BY <1>3, <1>5, <1>6, Regrouped, Zenon
<1>8. ImageInv' /\ Left(stored \o Rest)'
  <2>1. PICK s : s = stored \o Rest
    BY Zenon
  <2>2. Left(s)' /\ ImageInv'
    BY <1>3, <2>1, StillLeft, Zenon DEF LeftInv
  <2> QED BY <1>7, <2>1, <2>2, Zenon DEF Left
<1>9. pc' = "block" => Left(block \o Rest)'
  BY <1>3, <1>8, Zenon DEF Left
<1> QED BY <1>3, <1>8, <1>9, Zenon DEF LeftInv, EraseInv, InCall

LEMMA DirectFlow ==
  ASSUME TypeInv, ImageInv, LeftInv, WriteDirectly
  PROVE  ImageInv' /\ LeftInv' /\ EraseInv'
<1>1. PICK a : a = SubSeq(data, 1, E)
  BY Zenon
<1>2. /\ data \in Seq(Unit) /\ E \in 0..Len(data) /\ pc = "write_data" /\ stored = <<>>
      /\ block' = a /\ data' = Drop(data, E) /\ pc' = "block" /\ ret' = "write_data"
      /\ UNCHANGED <<image, written, input, op>>
  BY <1>1, Constants, LenProperties DEF TypeInv, WriterType, WriteDirectly, CallWriteBlock, history
<1>3. a \in Seq(Unit)
  BY <1>1, <1>2, CutInTwo, Zenon
<1>4. Rest \in Seq(Unit) /\ Rest = a \o Rest'
  BY <1>1, <1>2, <1>3, TakeData, RestType, Zenon
<1>5. ImageInv' /\ Left(block \o Rest)'
  <2>1. PICK s : s = Rest
    BY Zenon
  <2>2. Left(s)
    BY <1>2, <1>4, <2>1, WithNothing, Zenon DEF LeftInv
  <2>3. Left(s)' /\ ImageInv'
    BY <1>2, <2>2, StillLeft, Zenon
  <2> QED BY <1>2, <1>4, <2>1, <2>3, Zenon DEF Left
<1> QED BY <1>2, <1>5, Zenon DEF LeftInv, EraseInv, InCall

\* Nothing is left: the image is done.
LEMMA NothingLeft ==
  ASSUME image \in Seq(Unit), written \in Seq(BlockData), Left(<<>>)
  PROVE  Done
<1>1. PICK e \in Nat : e = E * Len(written)
  BY OneMoreBlock, LenProperties, Zenon
<1>2. Len(image) = e + 0
  BY <1>1, Zenon DEF Left
<1> QED BY <1>1, <1>2 DEF Done

LEMMA DataFlow ==
  ASSUME TypeInv, ImageInv, LeftInv, DataWritten
  PROVE  ImageInv' /\ LeftInv' /\ EraseInv'
<1>1. /\ stored \in Seq(Unit) /\ input \in Seq(Unit) /\ pc = "write_data" /\ data = <<>>
      /\ op \in {"flash_image", "WriteToPartition", "set_bootloader_msg"}
      /\ image \in Seq(Unit) /\ written \in Seq(BlockData)
      /\ UNCHANGED <<image, written, stored, data, input, op>>
  BY Zenon DEF TypeInv, WriterType, HistoryType, CallInv, WriterSteps, DataWritten, Writers, writer, history
<1>2. /\ op = "flash_image" => pc' = "fread"
      /\ op = "WriteToPartition" => pc' = "flush"
      /\ op = "set_bootloader_msg" => pc' = "close"
  BY Zenon DEF DataWritten
<1>3. ImageInv' /\ Left(stored \o Rest)' /\ Left(stored \o Rest)
  <2>1. PICK s : s = stored \o Rest
    BY Zenon
  <2>2. Left(s)' /\ Left(s) /\ ImageInv'
    BY <1>1, <2>1, StillLeft, Zenon DEF LeftInv
  <2> QED BY <1>1, <2>1, <2>2, Zenon DEF Left, Rest
<1>4. op # "flash_image" => Left(stored)' /\ Left(stored)
  <2>1. op # "flash_image" => stored \o Rest = stored
    BY <1>1, WithNothing, Zenon DEF Rest
  <2> QED BY <1>1, <1>3, <2>1, Zenon DEF Left, Rest
<1>5. op # "flash_image" /\ stored = <<>> => Done'
  <2>1. op # "flash_image" /\ stored = <<>> => Done
    BY <1>1, <1>4, NothingLeft, Zenon
  <2> QED BY <1>1, <2>1, StillLeft, Zenon
<1> QED BY <1>1, <1>2, <1>3, <1>4, <1>5, Zenon DEF LeftInv, EraseInv, InCall

LEMMA FlushFlow ==
  ASSUME TypeInv, ImageInv, LeftInv, Flush
  PROVE  ImageInv' /\ LeftInv' /\ EraseInv'
<1>1. /\ image \in Seq(Unit) /\ written \in Seq(BlockData) /\ pc = "flush"
      /\ UNCHANGED <<image, written, stored, op>>
      /\ \/ stored = <<>> /\ pc' = "erase_rest" /\ pos' = off /\ off' = off
         \/ stored # <<>> /\ pc' = "block" /\ block' = Pad(stored) /\ ret' = "erase_rest"
  BY Zenon DEF TypeInv, HistoryType, Flush, CallWriteBlock, history
<1>2. Left(stored) /\ ImageInv' /\ Left(stored)'
  <2>1. PICK s : s = stored
    BY Zenon
  <2>2. Left(s)' /\ Left(s) /\ ImageInv'
    BY <1>1, <2>1, StillLeft, Zenon DEF LeftInv
  <2> QED BY <1>1, <2>1, <2>2, Zenon DEF Left
<1>3. stored = <<>> => Done'
  BY <1>1, <1>2, NothingLeft, StillLeft, Zenon
<1>4. block' = Pad(stored) => block' = Pad(stored)'
  BY <1>1, Zenon DEF Pad
<1>5. CASE stored = <<>> /\ pc' = "erase_rest" /\ pos' = off /\ off' = off
  <2>1. \A b \in Blocks' \ bad' : ~(b >= off' /\ b < pos')
    BY <1>5, Constants, SMTT(30) DEF Blocks, TypeInv, MediumType
  <2> QED BY <1>1, <1>2, <1>3, <1>5, <2>1, Zenon DEF LeftInv, EraseInv, InCall
<1>6. CASE stored # <<>> /\ pc' = "block" /\ block' = Pad(stored) /\ ret' = "erase_rest"
  BY <1>1, <1>2, <1>4, <1>6, Zenon DEF LeftInv, EraseInv, InCall
<1> QED BY <1>1, <1>5, <1>6, Zenon

\* Within write_block, until the block is written.
LEMMA BetweenFlow ==
  ASSUME ImageInv, LeftInv, EraseInv, pc \in InCall, pc' \in InCall,
         UNCHANGED <<image, written, stored, block, ret, data, input, op>>
  PROVE  ImageInv' /\ LeftInv' /\ EraseInv'
<1>1. ImageInv'
  BY StillLeft, Zenon
<1>2. pc' \notin {"fread", "write_data", "flush", "erase_rest", "close"}
  BY Zenon DEF InCall
<1>3. ret = "write_data" => Left(block \o Rest)'
  BY Zenon DEF LeftInv, Left, Rest
<1>4. ret # "write_data" => Left(stored)' /\ stored # <<>> /\ (block = Pad(stored))'
  BY Zenon DEF LeftInv, Left, Pad
<1>5. LeftInv'
  BY <1>2, <1>3, <1>4, Zenon DEF LeftInv
<1>6. EraseInv'
  BY <1>2, Zenon DEF EraseInv
<1> QED BY <1>1, <1>5, <1>6, Zenon

LEMMA FindFlow ==
  ASSUME TypeInv, ImageInv, LeftInv, EraseInv, quiet' = 1,
         FindBlock \/ EraseBlock \/ ProgramFails \/ GiveUp
  PROVE  ImageInv' /\ LeftInv' /\ EraseInv'
<1>1. CASE FindBlock
  <2>1. pc \in InCall /\ pc' \in InCall /\ UNCHANGED <<image, written, stored, block, ret, data, input, op>>
    BY <1>1, Zenon DEF FindBlock, InCall
  <2> QED BY <2>1, BetweenFlow, Zenon
<1>2. CASE EraseBlock
  <2>1. pc \in InCall /\ pc' \in InCall /\ UNCHANGED <<image, written, stored, block, ret, data, input, op>>
    BY <1>2, Zenon DEF EraseBlock, Retry, InCall
  <2> QED BY <2>1, BetweenFlow, Zenon
<1>3. CASE ProgramFails
  BY <1>3 DEF ProgramFails
<1>4. CASE GiveUp
  BY <1>4 DEF GiveUp, TypeInv, CallInv, history
<1> QED BY <1>1, <1>2, <1>3, <1>4, Zenon

LEMMA ProgramFlow ==
  ASSUME TypeInv, ImageInv, LeftInv, EraseInv, Program
  PROVE  ImageInv' /\ LeftInv' /\ EraseInv'
<1>1. /\ image \in Seq(Unit) /\ written \in Seq(BlockData) /\ block \in BlockData
      /\ stored \in Seq(Unit) /\ Len(stored) <= E /\ pos \in Nat
      /\ ret \in {"write_data", "erase_rest", "close"}
      /\ pc = "program" /\ pc' = ret /\ off' = pos + 1 /\ pos' = pos + 1 /\ stored' = <<>>
      /\ written' = Append(written, block) /\ UNCHANGED <<image, data, input, op>>
  BY Constants DEF TypeInv, MediumType, WriterType, HistoryType, Program
<1>2. CASE ret = "write_data"
  <2>1. PICK s \in Seq(Unit) : s = Rest
    BY RestType, Zenon
  <2>2. block \in Seq(Unit) /\ Len(block) = E
    BY <1>1, BlockSeq, Zenon
  <2>3. Left(block \o s)
    BY <1>1, <1>2, <2>1, Zenon DEF LeftInv, InCall
  <2>4. ImageInv' /\ Left(s)'
    <3>1. PICK d \in BlockData : d = block
      BY <1>1, Zenon
    <3> QED BY <1>1, <2>2, <2>3, <3>1, WholeWritten, Zenon
  <2>5. stored' \o Rest' = s
    BY <1>1, <2>1, WithNothing, Zenon DEF Rest
  <2>6. Left(stored \o Rest)'
    BY <2>4, <2>5, Zenon DEF Left
  <2> QED BY <1>1, <1>2, <2>4, <2>6, Zenon DEF LeftInv, EraseInv, InCall
<1>3. CASE ret # "write_data"
  <2>1. Left(stored) /\ stored # <<>> /\ block = Pad(stored)
    BY <1>1, <1>3, Zenon DEF LeftInv, InCall
  <2>2. ImageInv' /\ Done'
    <3>1. PICK s \in Seq(Unit) : s = stored
      BY <1>1, Zenon
    <3> QED BY <1>1, <2>1, <3>1, LastWritten, Zenon
  <2>3. ret = "close" => op = "set_bootloader_msg"
    BY <1>1, Zenon DEF EraseInv, InCall
  <2>4. \A b \in Blocks' \ bad' : ~(b >= off' /\ b < pos')
    BY <1>1, Constants DEF Blocks
  <2> QED BY <1>1, <1>3, <2>2, <2>3, <2>4, Zenon DEF LeftInv, EraseInv, InCall
<1> QED BY <1>2, <1>3, Zenon

LEMMA EraseRestFlow ==
  ASSUME TypeInv, ImageInv, LeftInv, EraseInv, quiet' = 1, EraseRest
  PROVE  ImageInv' /\ LeftInv' /\ EraseInv'
<1>1. /\ pc = "erase_rest" /\ pos \in 0..N /\ off \in Nat /\ flash \in [Blocks -> BlockData \cup {Torn}]
      /\ UNCHANGED <<image, written, stored, off, bad, op>>
      /\ \/ pos = N /\ pc' = "close" /\ UNCHANGED <<flash, pos>>
         \/ pos < N /\ pos \in bad /\ pos' = pos + 1 /\ UNCHANGED <<flash, pc>>
         \/ pos < N /\ flash' = [flash EXCEPT ![pos] = Erased] /\ pos' = pos + 1 /\ UNCHANGED pc
  BY Constants DEF TypeInv, MediumType, EraseRest, writer
<1>2. ImageInv' /\ stored' = <<>> /\ Done'
  BY <1>1, StillLeft, Zenon DEF LeftInv
<1>3. \A b \in Blocks \ bad : b >= off /\ b < pos => flash[b] = Erased
  BY <1>1, Zenon DEF EraseInv
<1>4. CASE pos = N /\ pc' = "close" /\ UNCHANGED <<flash, pos>>
  <2>1. \A b \in Blocks \ bad : b >= off => flash[b] = Erased
    BY <1>3, <1>4, Constants DEF Blocks
  <2> QED BY <1>1, <1>2, <1>4, <2>1, Zenon DEF LeftInv, EraseInv, InCall
<1>5. CASE pos < N /\ pos \in bad /\ pos' = pos + 1 /\ UNCHANGED <<flash, pc>>
  <2>1. \A b \in Blocks \ bad : b < pos + 1 => b < pos
    BY <1>1, <1>5, Constants DEF Blocks
  <2>2. \A b \in Blocks \ bad : b >= off /\ b < pos + 1 => flash[b] = Erased
    BY <1>3, <2>1, Zenon
  <2> QED BY <1>1, <1>2, <1>5, <2>2, Zenon DEF LeftInv, EraseInv, InCall
<1>6. CASE pos < N /\ flash' = [flash EXCEPT ![pos] = Erased] /\ pos' = pos + 1 /\ UNCHANGED pc
  <2>1. \A b \in Blocks \ bad : b < pos + 1 => b < pos \/ b = pos
    BY <1>1, <1>6, Constants DEF Blocks
  <2>2. \A b \in Blocks : flash'[b] = IF b = pos THEN Erased ELSE flash[b]
    BY <1>1, <1>6, Zenon
  <2>3. \A b \in Blocks \ bad : b >= off /\ b < pos + 1 => flash'[b] = Erased
    BY <1>3, <2>1, <2>2, Zenon
  <2> QED BY <1>1, <1>2, <1>6, <2>3, Zenon DEF LeftInv, EraseInv, InCall
<1> QED BY <1>1, <1>4, <1>5, <1>6, Zenon

LEMMA CloseFlow ==
  ASSUME ImageInv, LeftInv, EraseInv, Close
  PROVE  ImageInv' /\ LeftInv' /\ EraseInv'
<1>1. /\ pc = "close" /\ UNCHANGED <<image, written, op>>
      /\ \/ pc' = "idle"
         \/ stored # <<>> /\ stored' = stored /\ pc' = "block" /\ block' = Pad(stored) /\ ret' = "close"
  BY Zenon DEF Close, Return, Exit, CallWriteBlock
<1>2. ImageInv'
  BY <1>1, StillLeft, Zenon
<1>3. CASE pc' = "idle"
  BY <1>2, <1>3, Zenon DEF LeftInv, EraseInv, InCall
<1>4. CASE stored # <<>> /\ stored' = stored /\ pc' = "block" /\ block' = Pad(stored) /\ ret' = "close"
  <2>1. Left(stored)' /\ (block = Pad(stored))'
    BY <1>1, <1>4, Zenon DEF LeftInv, Left, Pad
  <2>2. op = "set_bootloader_msg"
    BY <1>1, <1>4, Zenon DEF EraseInv
  <2> QED BY <1>1, <1>2, <1>4, <2>1, <2>2, Zenon DEF LeftInv, EraseInv, InCall
<1> QED BY <1>1, <1>3, <1>4, Zenon

\* An image that fits is never left without a block.
LEMMA HasRoom ==
  ASSUME TypeInv, LeftInv, Fits(image), pc = "block", Good = Len(at)
  PROVE  FALSE
<1>1. /\ image \in Seq(Unit) /\ written \in Seq(BlockData) /\ Len(at) = Len(written)
      /\ block \in BlockData /\ stored \in Seq(Unit) /\ Rest \in Seq(Unit)
  BY RestType, Zenon DEF TypeInv, WriterType, HistoryType
<1>2. PICK s \in Seq(Unit) : Left(s) /\ s # <<>>
  <2>1. CASE ret = "write_data"
    <3>1. block \in Seq(Unit) /\ Len(block) = E
      BY <1>1, BlockSeq, Zenon
    <3>2. block \o Rest \in Seq(Unit) /\ Len(block \o Rest) = E + Len(Rest) /\ Len(Rest) \in Nat
      BY <1>1, <3>1, Joined, LenProperties, Zenon
    <3>3. block \o Rest # <<>>
      BY <3>2, Constants
    <3> QED BY <2>1, <3>2, <3>3, Zenon DEF LeftInv, InCall
  <2>2. CASE ret # "write_data"
    BY <1>1, <2>2, Zenon DEF LeftInv, InCall
  <2> QED BY <2>1, <2>2, Zenon
<1>3. PICK e \in Nat : e = E * Len(written)
  BY <1>1, OneMoreBlock, LenProperties, Zenon
<1>4. PICK l \in Nat : l = Len(s) /\ l > 0
  BY <1>2, LenProperties
<1>5. Len(image) = e + l /\ Len(image) <= e
  BY <1>1, <1>2, <1>3, <1>4, Zenon DEF Left, Fits
<1> QED BY <1>3, <1>4, <1>5

LEMMA WriterKeeps ==
  ASSUME TypeInv, WriteStep
  PROVE  /\ UNCHANGED <<bad, image, op>> /\ (quiet' = 1 => quiet = 1)
         /\ pc' \in WriterSteps /\ rv' = 0 => rv = 0
<1> USE DEF WriterSteps, Writing, medium, history
<1>1. CASE Fread \/ Coalesce \/ WriteDirectly \/ Flush \/ DataWritten
  BY <1>1, Zenon DEF Fread, Coalesce, WriteDirectly, Flush, DataWritten
<1>2. CASE WriteBlockFails \/ Close
  <2>1. UNCHANGED <<bad, image, op, quiet>>
    BY <1>2, Zenon DEF WriteBlockFails, Close
  <2>2. ASSUME NEW r, Return(r)
        PROVE  pc' \notin WriterSteps
    BY <2>2, Zenon DEF Return, Exit
  <2>3. CASE WriteBlockFails
    <3>1. (\E r \in {0, 1} : Return(r)) \/ UNCHANGED rv \/ rv' = 1
      BY <2>3, Zenon DEF WriteBlockFails
    <3>2. pc' \in WriterSteps /\ rv' = 0 => rv = 0
      BY <2>2, <3>1
    <3> QED BY <2>1, <3>2, Zenon
  <2>4. CASE Close
    <3>1. Return(rv) \/ UNCHANGED rv
      BY <2>4, Zenon DEF Close
    <3>2. pc' \in WriterSteps /\ rv' = 0 => rv = 0
      BY <2>2, <3>1, Zenon
    <3> QED BY <2>1, <3>2, Zenon
  <2> QED BY <1>2, <2>3, <2>4, Zenon
<1>3. CASE FindBlock \/ EraseBlock \/ EraseRest
  BY <1>3 DEF FindBlock, EraseBlock, EraseRest
<1>4. CASE ProgramFails
  BY <1>4 DEF ProgramFails
<1>5. CASE GiveUp \/ Program
  BY <1>5, Zenon DEF GiveUp, Program
<1> QED BY <1>1, <1>2, <1>3, <1>4, <1>5, Zenon DEF WriteStep

LEMMA WriteFlow ==
  ASSUME TypeInv, FlowInv, WriteStep, quiet = 1 /\ pc = "block" /\ pos = N => Good = Len(at)
  PROVE  FlowInv'
<1> SUFFICES ASSUME Live' PROVE ImageInv' /\ LeftInv' /\ EraseInv'
  BY Zenon DEF FlowInv
<1>1. quiet' = 1 /\ Live
  BY WriterKeeps, WriterStays, SameFit, Zenon DEF Live
<1>2. ImageInv /\ LeftInv /\ EraseInv /\ Fits(image) /\ quiet = 1
  BY <1>1, Zenon DEF FlowInv, Live
<1>3. ~WriteBlockFails
  <2>1. SUFFICES ASSUME WriteBlockFails PROVE FALSE
    BY Zenon
  <2>2. pc = "block" /\ pos = N
    BY <2>1, Zenon DEF WriteBlockFails
  <2> QED BY <1>2, <2>2, HasRoom, Zenon
<1> QED BY <1>1, <1>2, <1>3, FreadFlow, CoalesceFlow, DirectFlow, DataFlow, FindFlow, ProgramFlow,
           FlushFlow, EraseRestFlow, CloseFlow, Zenon DEF WriteStep

LEMMA SameTold ==
  ASSUME ToldInv, pc' \notin WriterSteps,
         UNCHANGED <<flash, bad, at, written, image, told, quiet>> \/ told' = "none"
  PROVE  ToldInv'
<1>1. CASE told' = "none"
  BY <1>1, Zenon DEF ToldInv
<1>2. CASE UNCHANGED <<flash, bad, at, written, image, told, quiet>>
  BY <1>2, StillLeft, SameFit, Zenon DEF ToldInv, InAt
<1> QED BY <1>1, <1>2, Zenon

\* The program reports its image as written.
LEMMA ReportTold ==
  ASSUME TypeInv, BlocksInv, FlowInv, ToldInv, pc = "close", stored = <<>>, rv = 0, told' = op,
         pc' = "idle", UNCHANGED <<flash, bad, at, written, image, quiet>>
  PROVE  ToldInv'
<1>1. pc \in WriterSteps /\ pc' \notin WriterSteps
  BY Zenon DEF WriterSteps, Writing
<1>2. SUFFICES ASSUME quiet = 1, Fits(image)
               PROVE  /\ ImageInv' /\ Done'
                      /\ told' # "set_bootloader_msg" => \A b \in Blocks \ bad : InAt(b)' \/ flash[b] = Erased
  BY <1>1, SameFit, Zenon DEF ToldInv
<1>3. ImageInv /\ Done /\ EraseInv
  BY <1>1, <1>2, Zenon DEF FlowInv, Live, LeftInv
<1>4. \A b \in Blocks : b \notin bad /\ b < off => InAt(b)
  BY <1>1, <1>2, Zenon DEF BlocksInv, NoGapInv
<1>5. op # "set_bootloader_msg" => \A b \in Blocks \ bad : b >= off => flash[b] = Erased
  BY <1>3, Zenon DEF EraseInv
<1>6. \A b \in Blocks : b < off \/ b >= off
  BY Constants DEF Blocks, TypeInv, MediumType
<1>7. op # "set_bootloader_msg" => \A b \in Blocks \ bad : InAt(b) \/ flash[b] = Erased
  BY <1>4, <1>5, <1>6, Zenon
<1> QED BY <1>3, <1>7, StillLeft, Zenon DEF InAt

LEMMA WriteTold ==
  ASSUME TypeInv, BlocksInv, FlowInv, ToldInv, WriteStep
  PROVE  ToldInv'
<1>0. pc \in WriterSteps /\ told = "none" /\ (op = "flash_image" => rv = 0) /\ UNCHANGED op
  BY WriterStays, WriterKeeps, Zenon DEF ToldInv
<1>1. CASE WriteBlockFails
  <2>1. CASE pc' \in WriterSteps
    <3>1. told' = "none" /\ (op = "flash_image" => rv' = 0)
      BY <1>0, <1>1, <2>1, Zenon DEF WriteBlockFails, Return, Exit, WriterSteps, Writing
    <3> QED BY <1>0, <3>1, Zenon DEF ToldInv
  <2>2. CASE pc' \notin WriterSteps /\ told' = "none"
    BY <2>2, SameTold, Zenon
  <2>3. CASE told' # "none"
    <3>1. /\ pc = "block" /\ op = "flash_image" /\ ret = "close" /\ UNCHANGED <<bad, image, quiet>>
          /\ pc' = "idle" /\ told' = op
      BY <1>0, <1>1, <2>3 DEF WriteBlockFails, Return, Exit, medium
    <3>2. ~(quiet = 1 /\ Fits(image))
      <4>1. Live /\ FlowInv => EraseInv
        BY Zenon DEF FlowInv
      <4>2. quiet = 1 /\ Fits(image) => Live
        BY <1>0, <3>1, Zenon DEF Live
      <4>3. ~EraseInv
        BY <3>1, Zenon DEF EraseInv, InCall
      <4> QED BY <4>1, <4>2, <4>3, Zenon
    <3>3. pc' \notin WriterSteps
      BY <3>1, Zenon DEF WriterSteps, Writing
    <3> QED BY <3>1, <3>2, <3>3, SameFit, Zenon DEF ToldInv
  <2> QED BY <2>1, <2>2, <2>3, Zenon
<1>2. CASE Close
  <2>1. CASE stored # <<>>
    <3>1. told' = "none" /\ rv' = rv
      BY <1>0, <1>2, <2>1, Zenon DEF Close
    <3> QED BY <1>0, <3>1, Zenon DEF ToldInv
  <2>2. CASE stored = <<>>
    <3>1. /\ pc = "close" /\ pc' = "idle" /\ UNCHANGED <<flash, bad, at, written, image, quiet>>
          /\ told' = IF rv = 0 THEN op ELSE "none"
      BY <1>2, <2>2, Zenon DEF Close, Return, Exit, medium
    <3>2. CASE rv = 0
      BY <2>2, <3>1, <3>2, ReportTold, Zenon
    <3>3. CASE rv # 0
      <4>1. pc' \notin WriterSteps
        BY <3>1, Zenon DEF WriterSteps, Writing
      <4> QED BY <3>1, <3>3, <4>1, SameTold, Zenon
    <3> QED BY <3>2, <3>3, Zenon
  <2> QED BY <2>1, <2>2, Zenon
<1>3. CASE told' = told /\ rv' = rv
  BY <1>0, <1>3, Zenon DEF ToldInv
<1>4. CASE Fread \/ Coalesce \/ WriteDirectly \/ Flush \/ DataWritten
  BY <1>3, <1>4, Zenon DEF Fread, Coalesce, WriteDirectly, Flush, DataWritten, history
<1>5. CASE FindBlock \/ EraseBlock \/ ProgramFails \/ GiveUp \/ EraseRest \/ Program
  BY <1>3, <1>5, Zenon DEF FindBlock, EraseBlock, ProgramFails, GiveUp, EraseRest, Program, history
<1> QED BY <1>1, <1>2, <1>4, <1>5, Zenon DEF WriteStep

LEMMA NoWriter ==
  ASSUME ToldInv, pc' \notin WriterSteps,
         UNCHANGED <<flash, bad, at, written, image, told, quiet>> \/ told' = "none"
  PROVE  FlowInv' /\ ToldInv'
BY SameTold, Zenon DEF FlowInv, Live

LEMMA StartFlow ==
  ASSUME TypeInv, TypeInv', ToldInv, Start
  PROVE  FlowInv' /\ ToldInv'
<1>1. ASSUME NEW img \in Seq(Unit), FlashImage(img) PROVE FlowInv' /\ ToldInv'
  BY <1>1, OpenFlow, Zenon DEF FlashImage
<1>2. ASSUME NEW img \in Seq(Unit), WriteToPartition(img) PROVE FlowInv' /\ ToldInv'
  BY <1>2, OpenFlow, Zenon DEF WriteToPartition
<1>3. CASE EraseImage
  <2>1. <<>> \in Seq(Unit)
    OBVIOUS
  <2> QED BY <1>3, <2>1, OpenFlow, Zenon DEF EraseImage
<1>4. ASSUME NEW n, OpenReader(n), UNCHANGED <<medium, written, at, image, told, quiet>>
      PROVE  FlowInv' /\ ToldInv'
  <2>1. pc' \notin WriterSteps
    BY <1>4, Zenon DEF OpenReader, WriterSteps, Writing
  <2> QED BY <1>4, <2>1, NoWriter, Zenon DEF medium
<1>5. ASSUME NEW m, SetBootloaderMsg(m) PROVE FlowInv' /\ ToldInv'
  BY <1>4, <1>5, Zenon DEF SetBootloaderMsg
<1>6. CASE DumpImage
  BY <1>4, <1>6, Zenon DEF DumpImage
<1>7. CASE LoadPartitionContents
  BY <1>4, <1>7, Zenon DEF LoadPartitionContents
<1>8. output \in Seq(Unit) /\ \A img \in Images : img \in Seq(Unit)
  BY MtdAssumption, Zenon DEF TypeInv, ReaderType, MtdAssumption
<1> QED BY <1>1, <1>2, <1>3, <1>5, <1>6, <1>7, <1>8, Zenon DEF Start

LEMMA ReadFlow ==
  ASSUME TypeInv, TypeInv', ToldInv, ReadStep
  PROVE  FlowInv' /\ ToldInv'
<1> USE DEF medium, history
<1>1. CASE MessageRead
  <2>1. data' \in Seq(Unit)
    BY Zenon DEF TypeInv, WriterType
  <2> QED BY <1>1, <2>1, OpenFlow, Zenon DEF MessageRead
<1>2. ASSUME pc' \in {"idle", "read_data", "read_block"},
             UNCHANGED <<flash, bad, at, written, image, told, quiet>>
      PROVE  FlowInv' /\ ToldInv'
  <2>1. pc' \notin WriterSteps
    BY <1>2, Zenon DEF WriterSteps, Writing
  <2> QED BY <1>2, <2>1, NoWriter, Zenon
<1>3. CASE CopyReady \/ ReadBlock \/ SkipBlock
  BY <1>2, <1>3, Zenon DEF CopyReady, ReadBlock, SkipBlock
<1>4. CASE ReadFails \/ DumpRead \/ SizeRead
  BY <1>2, <1>4, Zenon DEF ReadFails, DumpRead, SizeRead, Exit
<1> QED BY <1>1, <1>3, <1>4, Zenon DEF ReadStep

LEMMA CrashFlow ==
  ASSUME ToldInv, Crash
  PROVE  FlowInv' /\ ToldInv'
<1>1. pc' \notin WriterSteps
  BY Zenon DEF Crash, Exit, WriterSteps, Writing
<1>2. UNCHANGED <<flash, bad, at, written, image, told, quiet>> \/ told' = "none"
  BY Zenon DEF Crash
<1> QED BY <1>1, <1>2, NoWriter, Zenon

LEMMA FlowStep ==
  ASSUME TypeInv, TypeInv', BlocksInv, FlowInv, ToldInv, [Next]_vars,
         quiet = 1 /\ pc = "block" /\ pos = N => Good = Len(at)
  PROVE  FlowInv' /\ ToldInv'
<1>1. CASE UNCHANGED vars
  <2>1. UNCHANGED <<flash, bad, op, pc, off, pos, input, data, stored, block, ret, rv, written, at, image,
                    told, quiet>>
    BY <1>1, Zenon DEF vars, medium, writer, history
  <2>2. ToldInv'
    BY <2>1, StillLeft, SameFit, Zenon DEF ToldInv, InAt
  <2>3. FlowInv'
    <3>1. Live' => Live
      BY <2>1, SameFit, Zenon DEF Live
    <3>2. ImageInv => ImageInv'
      BY <2>1, StillLeft, Zenon
    <3>3. LeftInv => LeftInv'
      BY <2>1, Zenon DEF LeftInv, Left, Done, Rest, Pad
    <3>4. EraseInv => EraseInv'
      BY <2>1, Zenon DEF EraseInv
    <3> QED BY <3>1, <3>2, <3>3, <3>4, Zenon DEF FlowInv
  <2> QED BY <2>2, <2>3, Zenon
<1> QED BY <1>1, StartFlow, ReadFlow, CrashFlow, WriteFlow, WriteTold, Zenon DEF Next
-----------------------------------------------------------------------------
\* The blocks read are all the readable ones, up to some place.
FromInv ==
  /\ \A k \in 1..Len(from) : Readable(from[k])
  /\ \A j, k \in 1..Len(from) : j < k => from[j] < from[k]
  /\ \A b \in Blocks, k \in 1..Len(from) : Readable(b) /\ b <= from[k] => InFrom(b)

\* What a reader that met no failure ends with.
ResultInv ==
  pc = "idle" /\ op \in Readers /\ rv = 0 /\ rquiet = 1 =>
    /\ FromInv
    /\ op = "dump_image" => Delivers(output) /\ \A b \in Blocks : Readable(b) => InFrom(b)
    /\ op = "LoadPartitionContents" =>
         /\ Len(got) <= E * Len(from)
         /\ \A k \in 1..Len(from), u \in 1..E :
              E * (k - 1) + u <= Len(got) => got[E * (k - 1) + u] = flash[from[k]][u]

LEMMA ReadInOrder ==
  ASSUME TypeInv, BlocksInv, DeliverInv, pc \in Reading, rquiet = 1
  PROVE  FromInv
<1>1. /\ \A k \in 1..Len(from) : Readable(from[k])
      /\ \A j, k \in 1..Len(from) : j < k => from[j] < from[k]
  BY Zenon DEF DeliverInv
<1>2. /\ \A k \in 1..Len(from) : from[k] < off
      /\ \A b \in Blocks : Readable(b) /\ b < off => InFrom(b)
  BY Zenon DEF BlocksInv, ReaderInv
<1>3. ASSUME NEW b \in Blocks, NEW k \in 1..Len(from), Readable(b), b <= from[k] PROVE InFrom(b)
  <2>1. b < off
    <3>1. b \in Nat /\ from[k] \in Nat /\ off \in Nat
      BY ElementOfSeq, Constants DEF TypeInv, MediumType, HistoryType, Blocks
    <3>2. from[k] < off
      BY <1>2, Zenon
    <3> QED BY <1>3, <3>1, <3>2
  <2> QED BY <1>2, <1>3, <2>1, Zenon
<1> QED BY <1>1, <1>3, Zenon DEF FromInv

LEMMA SameResult ==
  ASSUME UNCHANGED <<flash, bad, from>>
  PROVE  /\ FromInv => FromInv' /\ \A s : Delivers(s) => Delivers(s)'
         /\ \A b : (Readable(b)' <=> Readable(b)) /\ (InFrom(b)' <=> InFrom(b))
BY Zenon DEF FromInv, Readable, InFrom, Delivers

LEMMA DumpEnds ==
  ASSUME TypeInv, BlocksInv, DeliverInv, rquiet = 1, pc = "read_block", pos = N, op = "dump_image"
  PROVE  FromInv /\ Delivers(output) /\ \A b \in Blocks : Readable(b) => InFrom(b)
<1>1. pc \in Reading
  BY Zenon DEF Reading
<1>2. FromInv
  BY <1>1, ReadInOrder, Zenon
<1>3. Delivers((output \o got) \o ready) /\ ready = <<>> /\ want > 0 /\ Len(got) + want = 1
  BY <1>1, Zenon DEF DeliverInv
<1>4. output \in Seq(Unit) /\ got \in Seq(Unit) /\ want \in Nat
  BY Zenon DEF TypeInv, ReaderType
<1>5. got = <<>>
  <2>1. Len(got) \in Nat
    BY <1>4, LenProperties, Zenon
  <2>2. Len(got) = 0
    BY <1>3, <1>4, <2>1
  <2> QED BY <1>4, <2>2
<1>6. (output \o got) \o ready = output
  BY <1>3, <1>4, <1>5, WithNothing, Zenon
<1>7. \A b \in Blocks : b < pos
  BY Constants DEF Blocks
<1>8. \A b \in Blocks : Readable(b) => InFrom(b)
  BY <1>1, <1>7, Zenon DEF BlocksInv, ReaderInv
<1> QED BY <1>2, <1>3, <1>6, <1>8, Zenon

LEMMA LoadEnds ==
  ASSUME TypeInv, BlocksInv, DeliverInv, rquiet = 1, pc = "read_data", op = "LoadPartitionContents"
  PROVE  /\ FromInv /\ Len(got) <= E * Len(from)
         /\ \A k \in 1..Len(from), u \in 1..E :
              E * (k - 1) + u <= Len(got) => got[E * (k - 1) + u] = flash[from[k]][u]
<1>1. pc \in Reading
  BY Zenon DEF Reading
<1>2. FromInv
  BY <1>1, ReadInOrder, Zenon
<1>3. Delivers((output \o got) \o ready) /\ output = <<>>
  BY <1>1, Zenon DEF DeliverInv
<1>4. got \in Seq(Unit) /\ ready \in Seq(Unit)
  BY Zenon DEF TypeInv, ReaderType
<1>5. (output \o got) \o ready = got \o ready
  BY <1>3, <1>4, WithNothing, Zenon
<1>6. /\ Len(got \o ready) = Len(got) + Len(ready) /\ Len(got) \in Nat /\ Len(ready) \in Nat
      /\ \A i \in 1..Len(got) : (got \o ready)[i] = got[i]
  BY <1>4, Joined, LenProperties, Zenon
<1>7. Len(got \o ready) = E * Len(from)
  BY <1>3, <1>5, Zenon DEF Delivers
<1>8. Len(got) <= E * Len(from)
  BY <1>6, <1>7
<1>9. ASSUME NEW k \in 1..Len(from), NEW u \in 1..E, E * (k - 1) + u <= Len(got)
      PROVE  got[E * (k - 1) + u] = flash[from[k]][u]
  <2>1. (got \o ready)[E * (k - 1) + u] = flash[from[k]][u]
    BY <1>3, <1>5, Zenon DEF Delivers
  <2>2. k - 1 \in Nat
    OBVIOUS
  <2>3. E * (k - 1) + u \in Nat \ {0}
    BY <2>2, Places, Zenon
  <2>4. E * (k - 1) + u \in 1..Len(got)
    BY <1>6, <1>9, <2>3
  <2> QED BY <1>6, <2>1, <2>4, Zenon
<1> QED BY <1>2, <1>8, <1>9, Zenon

LEMMA ResultStep ==
  ASSUME TypeInv, BlocksInv, DeliverInv, ResultInv, [Next]_vars
  PROVE  ResultInv'
<1> SUFFICES ASSUME pc' = "idle", op' \in Readers, rv' = 0, rquiet' = 1 PROVE ResultInv'
  BY Zenon DEF ResultInv
<1>1. CASE UNCHANGED vars
  BY <1>1, SameResult, Zenon DEF vars, medium, reader, history, ResultInv
<1>2. CASE Start
  <2>1. pc' # "idle"
    BY <1>2, Zenon DEF Start, FlashImage, WriteToPartition, SetBootloaderMsg, EraseImage, DumpImage,
       LoadPartitionContents, OpenReader
  <2> QED BY <2>1, Zenon
<1>3. CASE WriteStep
  <2>1. op' \in Writers
    BY <1>3, WriterStays, WriterKeeps, Zenon DEF TypeInv, CallInv
  <2> QED BY <2>1, Zenon DEF Writers, Readers
<1>4. CASE Crash
  BY <1>4 DEF Crash
<1>5. CASE ReadFails
  <2>1. /\ rquiet = 1 /\ pc = "read_block" /\ pos = N /\ op = "dump_image"
        /\ UNCHANGED <<flash, bad, from, op, output>>
    BY <1>5 DEF ReadFails, Exit
  <2>2. op' # "LoadPartitionContents"
    BY <2>1, Zenon
  <2> QED BY <2>1, <2>2, DumpEnds, SameResult, Zenon DEF ResultInv
<1>6. CASE SizeRead
  <2>1. /\ rquiet = 1 /\ pc = "read_data" /\ op = "LoadPartitionContents"
        /\ UNCHANGED <<flash, bad, from, op, got>>
    BY <1>6, Zenon DEF SizeRead, history, medium
  <2>2. op' # "dump_image"
    BY <2>1, Zenon
  <2> QED BY <2>1, <2>2, LoadEnds, SameResult, Zenon DEF ResultInv
<1>7. CASE CopyReady \/ ReadBlock \/ SkipBlock \/ DumpRead \/ MessageRead
  <2>1. pc' # "idle"
    BY <1>7, Zenon DEF CopyReady, ReadBlock, SkipBlock, DumpRead, MessageRead
  <2> QED BY <2>1, Zenon
<1> QED BY <1>1, <1>2, <1>3, <1>4, <1>5, <1>6, <1>7, Zenon DEF Next, ReadStep
=============================================================================
