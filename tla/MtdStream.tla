----------------------------- MODULE MtdStream ------------------------------
(***************************************************************************)
(* What the programs of MtdBlocks promise of a partition's contents, taken  *)
(* as one stream: its blocks one after the other, without those a reader    *)
(* skips.                                                                   *)
(***************************************************************************)
EXTENDS MtdBlocks, FiniteSets

\* What a reader gets that is not disturbed: the blocks that are neither bad nor torn, in
\* order.  Rank(b) of them come before block b.
Sound(b) == b \notin bad /\ flash[b] # Torn
Rank(b) == Cardinality({c \in Blocks : c < b /\ Sound(c)})
InOrder(k) == CHOOSE b \in Blocks : Sound(b) /\ Rank(b) = k
Stream == [i \in 1..(E * Rank(N)) |-> flash[InOrder((i - 1) \div E)][((i - 1) % E) + 1]]

\* s is the beginning of t.
Begins(s, t) == Len(s) <= Len(t) /\ \A i \in 1..Len(s) : s[i] = t[i]

Good == Cardinality(Blocks \ bad)
Fits(img) == Len(img) <= E * Good

\* A dump that met no failure of the driver is what the partition holds, from the
\* first readable block to the last: none of it is read twice, dropped at the seam of
\* mtd_read_data's two buffers, or taken from a bad block.  Dumps are taken a page at
\* a time out of blocks of many.
DumpIsComplete ==
  pc = "idle" /\ op = "dump_image" /\ rv = 0 /\ rquiet = 1 => output = Stream

\* What LoadPartitionContents accepts is the beginning of what the partition holds.
LoadedIsPrefix ==
  pc = "idle" /\ op = "LoadPartitionContents" /\ rv = 0 /\ rquiet = 1 => Begins(got, Stream)

\* A program that reports its image as written, after a run in which the driver failed
\* nothing and the image fits the good blocks, has written it: readers find the image
\* from the first readable block on, and flash_image, erase_image and WriteToPartition
\* leave nothing of the older contents behind it.
WrittenIsStream ==
  told # "none" /\ quiet = 1 /\ Fits(image) /\ pc = "idle"
    => /\ Begins(image, Stream)
       /\ told # "set_bootloader_msg" =>
            \A i \in (Len(image) + 1)..Len(Stream) :
               Stream[i] = IF (i - 1) \div E = (Len(image) - 1) \div E /\ image # <<>> THEN Zero ELSE FF
=============================================================================
