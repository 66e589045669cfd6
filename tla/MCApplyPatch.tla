---------------------------- MODULE MCApplyPatch ----------------------------
EXTENDS ApplyPatch

CONSTANTS a, b, c, boot, rec, radio, a0, a1, a2, b0, b1, c0, c1, k0, k1, r1, d0

Call(src, tgt, accepted, new, checked) ==
  [source |-> src, target |-> tgt, accept |-> accepted, result |-> new,
   check |-> checked]

\* Three files patched in place; the first accepts two old versions.
FileScript ==
  << Call(a, a, {a0, a1}, a2, {a0, a1, a2}), Call(b, b, {b0}, b1, {b0, b1}),
     Call(c, c, {c0}, c1, {c0, c1}) >>

\* Partitions: the recovery image is built from the boot image, then the boot
\* image is patched in place, then a file is made from a partition.
PartitionScript ==
  << Call(boot, rec, {k0}, r1, {}), Call(boot, boot, {k0}, k1, {}),
     Call(radio, a, {d0}, a1, {}) >>

PartitionNames ==
  [p \in {boot, rec, radio} |->
     CASE p = boot -> {k0, k1} [] p = rec -> {r1} [] p = radio -> {d0}]

\* A single boot image patched in place.
BootScript == << Call(boot, boot, {k0}, k1, {k0, k1}) >>
BootNames == [p \in {boot} |-> {k0, k1}]

NoNames == [p \in {} |-> {}]
=============================================================================
