----------------------------- MODULE MtdBlocks ------------------------------
(***************************************************************************)
(* Raw NAND partitions (recovery/mtdutils/mtdutils.c) and the programs that *)
(* read and write them: flash_image, dump_image and erase_image, applypatch *)
(* and the writers of the boot loader control block.  Writer and reader     *)
(* never exchange an address: each skips the blocks it takes for bad, and   *)
(* they understand each other only if both skip the same ones.              *)
(*                                                                          *)
(* Offsets count erase blocks and lengths count units, E to a block.        *)
(****************************************************************************)
EXTENDS Naturals, Sequences

CONSTANTS
  N,            \* erase blocks of the partition (partition->size)
  E,            \* units of an erase block (partition->erase_size)
  Unit,         \* contents of a unit of data
  Zero, FF,     \* a unit of padding, and one of an erased block
  Images,       \* what flash_image and applypatch are asked to write
  Messages,     \* what set_bootloader_msg is asked to write
  BufSiz,       \* units flash_image reads from its file at a time (BUFSIZ)
  Sizes,        \* the sizes LoadPartitionContents is to try
  Pages,        \* units of the control block it reads and writes (MISC_PAGES)
  Junk,         \* block contents nobody asked for
  Torn,         \* a block whose read reports an ECC failure
  Faults,       \* which operations of the driver may fail
  MaxFaults     \* how often they fail

Blocks == 0..(N - 1)
FaultKinds == {"badblock", "erase", "write", "read", "stats", "crash"}
BlockData == [1..E -> Unit]
Erased == [u \in 1..E |-> FF]

ASSUME MtdAssumption ==
  /\ N \in Nat /\ E \in Nat \ {0} /\ BufSiz \in Nat \ {0} /\ Pages \in 2..E
  /\ Zero \in Unit /\ FF \in Unit /\ Torn \notin BlockData
  /\ Sizes \subseteq Nat \ {0}
  /\ Images \subseteq Seq(Unit) /\ Messages \subseteq Unit
  /\ Junk \in BlockData
  /\ Faults \subseteq FaultKinds /\ MaxFaults \in Nat

VARIABLES
  flash,    \* contents of every erase block
  bad,      \* the blocks the driver reports as bad
  faults,   \* failures of the driver so far
  op, pc,   \* the running program and where it is
  off,      \* file offset of the open descriptor
  pos,      \* read_block's, write_block's and mtd_erase_blocks' own position
  retry,    \* write_block's counter
  input,    \* what is left of flash_image's file
  data,     \* what is left of the data given to mtd_write_data
  stored,   \* ctx->buffer[0 .. ctx->stored)
  block,    \* the data write_block was called with
  ret,      \* where write_block returns to
  ready,    \* ctx->buffer[ctx->consumed .. erase_size)
  want,     \* what mtd_read_data has still to read
  got,      \* what it has read
  output,   \* the file of dump_image
  rv,       \* what the program returns, or will return
  written, at,    \* history: the blocks written through this context, and where
  from,           \* history: the blocks read_block returned, by position
  image,          \* history: what the last program that wrote was to write
  told,           \* history: which program reported it as written
  quiet, rquiet   \* history: 1 while nothing failed in the last writer, reader

medium == <<flash, bad, faults>>
writer == <<retry, input, data, stored, block, ret>>
reader == <<ready, want, got, output>>
history == <<written, at, from, image, told, quiet, rquiet>>
vars == <<medium, op, pc, off, pos, writer, reader, rv, history>>

Writers == {"flash_image", "WriteToPartition", "set_bootloader_msg", "erase_image"}
Readers == {"dump_image", "LoadPartitionContents"}

PCs == {"idle", "fread", "write_data", "block", "erase", "program", "give_up",
        "flush", "erase_rest", "close", "read_data", "read_block"}

\* The type invariant: the buffers of mtd_write_data and mtd_read_data hold no more
\* than a block, positions stay inside the partition, and the block write_block erases,
\* writes or gives up is one of the partition and not bad.
TypeOK ==
  /\ flash \in [Blocks -> BlockData \cup {Torn}]
  /\ bad \subseteq Blocks /\ faults \in 0..MaxFaults
  /\ op \in Writers \cup Readers \cup {"none"}
  /\ pc \in PCs
  /\ off \in 0..N /\ pos \in 0..N
  /\ pc \in {"erase", "program", "give_up"} => pos \in Blocks \ bad
  /\ retry \in 0..1
  /\ input \in Seq(Unit) /\ data \in Seq(Unit)
  /\ stored \in Seq(Unit) /\ Len(stored) <= E
  /\ block \in BlockData /\ ret \in {"write_data", "erase_rest", "close"}
  /\ ready \in Seq(Unit) /\ Len(ready) <= E
  /\ want \in Nat /\ got \in Seq(Unit) /\ output \in Seq(Unit)
  /\ rv \in {0, 1}
  /\ written \in Seq(BlockData) /\ at \in Seq(Blocks) /\ Len(at) = Len(written)
  /\ from \in Seq(Blocks)
  /\ image \in Seq(Unit) /\ told \in Writers \cup {"none"} /\ quiet \in 0..1 /\ rquiet \in 0..1

Init ==
  /\ flash = [b \in Blocks |-> Junk]
  /\ bad \in SUBSET Blocks /\ faults = 0
  /\ op = "none" /\ pc = "idle"
  /\ off = 0 /\ pos = 0 /\ retry = 0
  /\ input = <<>> /\ data = <<>> /\ stored = <<>> /\ block = Erased
  /\ ret = "close"
  /\ ready = <<>> /\ want = 0 /\ got = <<>> /\ output = <<>>
  /\ rv = 0
  /\ written = <<>> /\ at = <<>> /\ from = <<>>
  /\ image = <<>> /\ told = "none" /\ quiet = 0 /\ rquiet = 1
-----------------------------------------------------------------------------
Least(m, n) == IF m < n THEN m ELSE n
Drop(s, n) == SubSeq(s, n + 1, Len(s))
Pad(s) == [u \in 1..E |-> IF u <= Len(s) THEN s[u] ELSE Zero]

locals == <<off, pos, retry, input, data, stored, block, ret, ready, want>>

\* A program exits, and its contexts with it.
Exit(r) ==
  /\ pc' = "idle" /\ rv' = r
  /\ off' = 0 /\ pos' = 0 /\ retry' = 0
  /\ input' = <<>> /\ data' = <<>> /\ stored' = <<>> /\ block' = Erased /\ ret' = "close"
  /\ ready' = <<>> /\ want' = 0

\* One that writes reports that it has written its image, or fails.
Return(r) == Exit(r) /\ told' = IF r = 0 THEN op ELSE "none"

\* The driver fails.
Fault(kind) == kind \in Faults /\ faults < MaxFaults /\ faults' = faults + 1

\* mtd_write_partition.
OpenWriter(img) ==
  /\ off' = 0 /\ pos' = 0 /\ stored' = <<>>
  /\ ready' = <<>> /\ want' = 0 /\ got' = <<>> /\ output' = <<>>
  /\ written' = <<>> /\ at' = <<>> /\ from' = <<>>
  /\ image' = img /\ told' = "none" /\ quiet' = 1

\* flash_image (cmd_mtd_restore_raw_partition).
FlashImage(img) ==
  /\ pc = "idle" /\ op' = "flash_image" /\ pc' = "fread"
  /\ OpenWriter(img) /\ input' = img /\ data' = <<>> /\ rv' = 0
  /\ UNCHANGED <<medium, retry, block, ret, rquiet>>

Fread ==
  /\ pc = "fread"
  /\ data' = SubSeq(input, 1, Least(BufSiz, Len(input)))
  /\ input' = Drop(input, Len(data'))
  /\ pc' = IF data' = <<>> THEN "flush" ELSE "write_data"
  /\ UNCHANGED <<medium, op, off, pos, retry, stored, block, ret, reader, rv, history>>

\* applypatch's WriteToPartition hands over all its data at once.
WriteToPartition(img) ==
  /\ pc = "idle" /\ op' = "WriteToPartition" /\ pc' = "write_data"
  /\ OpenWriter(img) /\ data' = img /\ rv' = 0
  /\ UNCHANGED <<medium, retry, input, block, ret, rquiet>>

\* erase_image, Wipe_YAFFS2 and format_volume.
EraseImage ==
  /\ pc = "idle" /\ op' = "erase_image" /\ pc' = "flush"
  /\ OpenWriter(<<>>) /\ rv' = 0
  /\ UNCHANGED <<medium, retry, input, data, block, ret, rquiet>>

\* One round of mtd_write_data's loop: coalesce partial data into the buffer, or
\* write a complete block directly from the caller's data.
CallWriteBlock(back) == pc' = "block" /\ pos' = off /\ ret' = back

\* Mutant: all that is left is copied, whatever room the buffer has.
CoalesceAll ==
  /\ pc = "write_data" /\ data # <<>>
  /\ stored # <<>> \/ Len(data) < E
  /\ LET n == Len(data) IN
       /\ stored' = stored \o SubSeq(data, 1, n)
       /\ data' = Drop(data, n)
  /\ IF Len(stored') >= E THEN block' = SubSeq(stored', 1, E) /\ CallWriteBlock("write_data")
                         ELSE UNCHANGED <<pc, pos, block, ret>>
  /\ UNCHANGED <<medium, op, off, retry, input, reader, rv, history>>

Coalesce ==
  /\ pc = "write_data" /\ data # <<>>
  /\ stored # <<>> \/ Len(data) < E
  /\ LET n == Least(Len(data), E - Len(stored)) IN
       /\ stored' = stored \o SubSeq(data, 1, n)
       /\ data' = Drop(data, n)
  /\ IF Len(stored') = E THEN block' = stored' /\ CallWriteBlock("write_data")
                         ELSE UNCHANGED <<pc, pos, block, ret>>
  /\ UNCHANGED <<medium, op, off, retry, input, reader, rv, history>>

WriteDirectly ==
  /\ pc = "write_data" /\ stored = <<>> /\ Len(data) >= E
  /\ block' = SubSeq(data, 1, E) /\ data' = Drop(data, E)
  /\ CallWriteBlock("write_data")
  /\ UNCHANGED <<medium, op, off, retry, input, stored, reader, rv, history>>

\* mtd_write_data returns to its caller.
DataWritten ==
  /\ pc = "write_data" /\ data = <<>>
  /\ pc' = CASE op = "flash_image" -> "fread"
             [] op = "WriteToPartition" -> "flush"
             [] op = "set_bootloader_msg" -> "close"
  /\ UNCHANGED <<medium, op, off, pos, writer, reader, rv, history>>

\* write_block has run out of blocks, as its callers take it: flash_image gives up
\* without closing when mtd_write_data fails, and takes no notice when
\* mtd_erase_blocks or mtd_write_close does; the others close and return -1.
WriteBlockFails ==
  /\ pc = "block" /\ pos = N
  /\ \/ op = "flash_image" /\ ret = "write_data" /\ Return(1)
     \/ /\ op = "flash_image" /\ ret = "erase_rest" /\ pc' = "close"
        /\ UNCHANGED <<locals, rv, told>>
     \/ op = "flash_image" /\ ret = "close" /\ Return(0)
     \/ /\ op # "flash_image" /\ ret # "close" /\ pc' = "close" /\ rv' = 1
        /\ UNCHANGED <<locals, told>>
     \/ op # "flash_image" /\ ret = "close" /\ Return(1)
  /\ UNCHANGED <<medium, op, got, output, written, at, from, image, quiet, rquiet>>

\* Mutant: bad blocks are written like others.
FindAnyBlock ==
  /\ pc = "block" /\ pos < N
  /\ \/ /\ pos \notin bad /\ Fault("badblock")
        /\ pos' = pos + 1 /\ quiet' = 0
        /\ UNCHANGED <<pc, retry>>
     \/ /\ pc' = "erase" /\ retry' = 0
        /\ UNCHANGED <<pos, quiet, faults>>
  /\ UNCHANGED <<flash, bad, op, off, input, data, stored, block, ret, reader, rv, written, at,
                 from, image, told, rquiet>>

\* Mutant: a bad block is met again and again.
FindSameBlock ==
  /\ pc = "block" /\ pos < N
  /\ \/ /\ pos \in bad
        /\ UNCHANGED <<pos, pc, retry, quiet, faults>>
     \/ /\ pos \notin bad /\ Fault("badblock")
        /\ pos' = pos + 1 /\ quiet' = 0
        /\ UNCHANGED <<pc, retry>>
     \/ /\ pos \notin bad
        /\ pc' = "erase" /\ retry' = 0
        /\ UNCHANGED <<pos, quiet, faults>>
  /\ UNCHANGED <<flash, bad, op, off, input, data, stored, block, ret, reader, rv, written, at,
                 from, image, told, rquiet>>

\* write_block: the next block that is not bad ...
FindBlock ==
  /\ pc = "block" /\ pos < N
  /\ \/ /\ pos \in bad
        /\ pos' = pos + 1
        /\ UNCHANGED <<pc, retry, quiet, faults>>
     \/ /\ pos \notin bad /\ Fault("badblock")
        /\ pos' = pos + 1 /\ quiet' = 0
        /\ UNCHANGED <<pc, retry>>
     \/ /\ pos \notin bad
        /\ pc' = "erase" /\ retry' = 0
        /\ UNCHANGED <<pos, quiet, faults>>
  /\ UNCHANGED <<flash, bad, op, off, input, data, stored, block, ret, reader, rv, written, at,
                 from, image, told, rquiet>>

Retry ==
  \/ retry = 0 /\ retry' = 1 /\ pc' = "erase"
  \/ retry = 1 /\ pc' = "give_up" /\ UNCHANGED retry

\* ... is erased ...
EraseBlock ==
  /\ pc = "erase"
  /\ \/ /\ flash' = [flash EXCEPT ![pos] = Erased]
        /\ pc' = "program" /\ UNCHANGED <<retry, quiet, faults>>
     \/ /\ Fault("erase")
        /\ \E c \in {flash[pos], Torn} : flash' = [flash EXCEPT ![pos] = c]
        /\ Retry /\ quiet' = 0
  /\ UNCHANGED <<bad, op, off, pos, input, data, stored, block, ret, reader, rv, written, at,
                 from, image, told, rquiet>>

\* ... written, and read back.  A write that reports an error but verifies counts.
Program ==
  /\ pc = "program"
  /\ flash' = [flash EXCEPT ![pos] = block]
  /\ off' = pos + 1 /\ pos' = pos + 1
  /\ stored' = <<>>
  /\ written' = Append(written, block) /\ at' = Append(at, pos)
  /\ pc' = ret
  /\ UNCHANGED <<bad, faults, op, retry, input, data, block, ret, reader, rv, from, image,
                 told, quiet, rquiet>>

ProgramFails ==
  /\ pc = "program" /\ Fault("write")
  /\ \E c \in {block, Junk, Torn} : flash' = [flash EXCEPT ![pos] = c]
  /\ off' \in {pos, pos + 1}
  /\ Retry /\ quiet' = 0
  /\ UNCHANGED <<bad, op, pos, input, data, stored, block, ret, reader, rv, written, at,
                 from, image, told, rquiet>>

GiveUp ==
  /\ pc = "give_up"
  /\ \E c \in {Erased} \cup (IF "erase" \in Faults THEN {flash[pos], Torn} ELSE {}) :
       flash' = [flash EXCEPT ![pos] = c]
  /\ pos' = pos + 1 /\ pc' = "block"
  /\ UNCHANGED <<bad, faults, op, off, writer, reader, rv, history>>

\* mtd_erase_blocks(-1): write what is pending, then erase to the end.
Flush ==
  /\ pc = "flush"
  /\ IF stored = <<>> THEN pc' = "erase_rest" /\ pos' = off /\ UNCHANGED <<block, ret>>
                      ELSE block' = Pad(stored) /\ CallWriteBlock("erase_rest")
  /\ UNCHANGED <<medium, op, off, retry, input, data, stored, reader, rv, history>>

\* Mutant: the last block is not erased.
EraseButLast ==
  /\ pc = "erase_rest"
  /\ \/ pos >= N - 1 /\ pc' = "close" /\ UNCHANGED <<flash, pos, quiet, faults>>
     \/ pos < N - 1 /\ pos \in bad /\ pos' = pos + 1 /\ UNCHANGED <<flash, pc, quiet, faults>>
     \/ /\ pos < N - 1 /\ pos \notin bad
        /\ flash' = [flash EXCEPT ![pos] = Erased]
        /\ pos' = pos + 1 /\ UNCHANGED <<pc, quiet, faults>>
     \/ /\ pos < N - 1 /\ pos \notin bad /\ Fault("erase")
        /\ \E c \in {flash[pos], Torn} : flash' = [flash EXCEPT ![pos] = c]
        /\ pos' = pos + 1 /\ quiet' = 0 /\ UNCHANGED pc
  /\ UNCHANGED <<bad, op, off, writer, reader, rv, written, at, from, image, told, rquiet>>

EraseRest ==
  /\ pc = "erase_rest"
  /\ \/ pos = N /\ pc' = "close" /\ UNCHANGED <<flash, pos, quiet, faults>>
     \/ pos < N /\ pos \in bad /\ pos' = pos + 1 /\ UNCHANGED <<flash, pc, quiet, faults>>
     \/ /\ pos < N /\ pos \notin bad
        /\ flash' = [flash EXCEPT ![pos] = Erased]
        /\ pos' = pos + 1 /\ UNCHANGED <<pc, quiet, faults>>
     \/ /\ pos < N /\ pos \notin bad /\ Fault("erase")
        /\ \E c \in {flash[pos], Torn} : flash' = [flash EXCEPT ![pos] = c]
        /\ pos' = pos + 1 /\ quiet' = 0 /\ UNCHANGED pc
  /\ UNCHANGED <<bad, op, off, writer, reader, rv, written, at, from, image, told, rquiet>>

\* mtd_write_close is mtd_erase_blocks(0) and close().
Close ==
  /\ pc = "close"
  /\ IF stored = <<>>
     THEN Return(rv)
     ELSE /\ block' = Pad(stored) /\ CallWriteBlock("close")
          /\ UNCHANGED <<off, retry, input, data, stored, ready, want, rv, told>>
  /\ UNCHANGED <<medium, op, got, output, written, at, from, image, quiet, rquiet>>

\* mtd_read_partition, then the first call of mtd_read_data.
OpenReader(n) ==
  /\ off' = 0 /\ ready' = <<>> /\ want' = n /\ got' = <<>> /\ output' = <<>>
  /\ from' = <<>> /\ rquiet' = 1
  /\ pc' = "read_data" /\ rv' = 0

\* dump_image (cmd_mtd_backup_raw_partition) reads a unit at a time.
DumpImage ==
  /\ pc = "idle" /\ op' = "dump_image" /\ OpenReader(1)
  /\ UNCHANGED <<medium, pos, writer, written, at, image, told, quiet>>

\* LoadPartitionContents reads up to the smallest size, then to the next ...
LoadPartitionContents ==
  /\ pc = "idle" /\ op' = "LoadPartitionContents"
  /\ \E n \in Sizes : (\A m \in Sizes : n <= m) /\ OpenReader(n)
  /\ UNCHANGED <<medium, pos, writer, written, at, image, told, quiet>>

\* set_bootloader_msg reads the first pages, to change one of them.
SetBootloaderMsg(m) ==
  /\ pc = "idle" /\ op' = "set_bootloader_msg" /\ OpenReader(Pages)
  /\ input' = <<m>>
  /\ UNCHANGED <<medium, pos, retry, data, stored, block, ret, written, at, image,
                 told, quiet>>

\* Mutant: what one call leaves in the buffer is forgotten.
CopyReadyOnce ==
  /\ pc = "read_data" /\ want > 0
  /\ LET n == Least(want, Len(ready)) IN
       /\ got' = got \o SubSeq(ready, 1, n)
       /\ ready' = <<>> /\ want' = want - n
       /\ IF want > n THEN pc' = "read_block" /\ pos' = off ELSE UNCHANGED <<pc, pos>>
  /\ UNCHANGED <<medium, op, off, writer, output, rv, history>>

\* mtd_read_data serves what the buffer holds, then reads blocks: directly into the
\* caller's data as long as a whole one fits, else into the buffer.
CopyReady ==
  /\ pc = "read_data" /\ want > 0
  /\ LET n == Least(want, Len(ready)) IN
       /\ got' = got \o SubSeq(ready, 1, n)
       /\ ready' = Drop(ready, n) /\ want' = want - n
       /\ IF want > n THEN pc' = "read_block" /\ pos' = off ELSE UNCHANGED <<pc, pos>>
  /\ UNCHANGED <<medium, op, off, writer, output, rv, history>>

\* Mutant: the reader only looks at the ECC counters.
ReadableByECC(b) == flash[b] # Torn

Readable(b) == b \notin bad /\ flash[b] # Torn

\* read_block: the next block that reads without an ECC failure and is not bad.
ReadBlock ==
  /\ pc = "read_block" /\ pos < N /\ Readable(pos)
  /\ off' = pos + 1 /\ pos' = pos + 1 /\ from' = Append(from, pos)
  /\ IF want >= E THEN got' = got \o flash[pos] /\ want' = want - E /\ UNCHANGED ready
                  ELSE ready' = flash[pos] /\ UNCHANGED <<got, want>>
  /\ pc' = "read_data"
  /\ UNCHANGED <<medium, op, writer, output, rv, written, at, image, told, quiet, rquiet>>

SkipBlock ==
  /\ pc = "read_block" /\ pos < N
  /\ \/ ~Readable(pos) /\ UNCHANGED <<rquiet, faults>>
     \/ Readable(pos) /\ Fault("read") /\ rquiet' = 0
  /\ pos' = pos + 1
  /\ UNCHANGED <<flash, bad, op, pc, off, writer, reader, rv, written, at, from, image, told,
                 quiet>>

\* It fails at the end of the partition, or when the ECC counters cannot be read.
\* dump_image takes any failure for the end.
ReadFails ==
  /\ pc = "read_block"
  /\ \/ pos = N /\ UNCHANGED <<rquiet, faults>>
     \/ Fault("stats") /\ rquiet' = 0
  /\ Exit(IF op = "dump_image" THEN 0 ELSE 1)
  /\ UNCHANGED <<flash, bad, op, got, output, written, at, from, image, told, quiet>>

\* mtd_read_data has read all it was asked for.
Larger == {n \in Sizes : n > Len(got)}

DumpRead ==
  /\ pc = "read_data" /\ want = 0 /\ op = "dump_image"
  /\ output' = output \o got /\ got' = <<>> /\ want' = 1
  /\ UNCHANGED <<medium, op, pc, off, pos, writer, ready, rv, history>>

\* The data read so far has the SHA-1 that goes with its size, or has not.
SizeRead ==
  /\ pc = "read_data" /\ want = 0 /\ op = "LoadPartitionContents"
  /\ \/ Exit(0)
     \/ Larger = {} /\ Exit(1)
     \/ /\ \E n \in Larger : (\A m \in Larger : n <= m) /\ want' = n - Len(got)
        /\ UNCHANGED <<pc, off, pos, writer, ready, rv>>
  /\ UNCHANGED <<medium, op, got, output, history>>

MessageRead ==
  /\ pc = "read_data" /\ want = 0 /\ op = "set_bootloader_msg"
  /\ data' = [got EXCEPT ![2] = input[1]]
  /\ OpenWriter(data') /\ pc' = "write_data"
  /\ UNCHANGED <<medium, op, retry, input, block, ret, rv, rquiet>>

\* The battery is pulled.  A block that is being erased or programmed may hold
\* anything afterwards.
Crash ==
  /\ pc # "idle" /\ Fault("crash")
  /\ Exit(1) /\ rquiet' = 0
  /\ IF op \in Readers \/ pc \in {"read_data", "read_block"}
     THEN UNCHANGED <<flash, told, quiet>>
     ELSE /\ told' = "none" /\ quiet' = 0
          /\ IF pc \in {"erase", "program", "give_up", "erase_rest"} /\ pos < N /\ pos \notin bad
             THEN \E c \in {flash[pos], Torn, Junk, block} : flash' = [flash EXCEPT ![pos] = c]
             ELSE UNCHANGED flash
  /\ UNCHANGED <<bad, op, got, output, written, at, from, image>>

WriteStep ==
  \/ Fread \/ Coalesce \/ WriteDirectly \/ DataWritten \/ WriteBlockFails \/ FindBlock \/ EraseBlock \/ Program
  \/ ProgramFails \/ GiveUp \/ Flush \/ EraseRest \/ Close

ReadStep ==
  \/ CopyReady \/ ReadBlock \/ SkipBlock \/ ReadFails \/ DumpRead \/ SizeRead \/ MessageRead

Start ==
  \/ \E img \in Images : FlashImage(img) \/ WriteToPartition(img)
  \/ \E m \in Messages : SetBootloaderMsg(m)
  \/ EraseImage \/ DumpImage \/ LoadPartitionContents
  \/ output # <<>> /\ FlashImage(output)      \* restoring the backup

Next == Start \/ WriteStep \/ ReadStep \/ Crash

Spec == Init /\ [][Next]_vars
\* A program that was started is not stopped by anything but a failure.
FairSpec == Spec /\ WF_vars(WriteStep \/ ReadStep)
-----------------------------------------------------------------------------
\* Writer and reader agree on the blocks although they never exchange an address: the
\* k-th block a reader gets is the k-th that was written, and it still holds what
\* was written there.
AgreeOnBlocks ==
  /\ quiet = 1 /\ rquiet = 1 =>
       \A k \in 1..Len(from) : k <= Len(at) => from[k] = at[k]
  /\ \A k \in 1..Len(at) : flash[at[k]] = written[k]

\* Every program ends: neither the retries of a block nor the search for a good one
\* go on forever, whatever the driver reports.
OperationsEnd == []<>(pc = "idle")
=============================================================================
