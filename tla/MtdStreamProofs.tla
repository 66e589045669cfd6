-------------------------- MODULE MtdStreamProofs ---------------------------
(***************************************************************************)
(* DumpIsComplete, LoadedIsPrefix and WrittenIsStream for every partition,  *)
(* image and failure of the driver.  MtdBlocksProofs says which blocks a    *)
(* reader and a writer deal with and what they do with each; here the       *)
(* blocks are counted.  A list of blocks in order that leaves out no sound  *)
(* one has its k-th block at the k-th place of the stream.                  *)
(****************************************************************************)
EXTENDS MtdBlocksProofs, FiniteSetTheorems

Below(b) == {c \in Blocks : c < b /\ Sound(c)}

LEMMA BelowIsFinite ==
  ASSUME NEW b
  PROVE  IsFiniteSet(Below(b)) /\ Rank(b) = Cardinality(Below(b)) /\ Rank(b) \in Nat
<1>1. IsFiniteSet(Blocks)
  <2>1. 0 \in Int /\ N - 1 \in Int
    BY Constants
  <2> QED BY <2>1, FS_Interval, Zenon DEF Blocks
<1>2. Below(b) \subseteq Blocks
  BY Zenon DEF Below
<1>3. IsFiniteSet(Below(b))
  BY <1>1, <1>2, FS_Subset, Zenon
<1>4. Rank(b) = Cardinality(Below(b))
  BY Zenon DEF Rank, Below
<1> QED BY <1>3, <1>4, FS_CardinalityType, Zenon

LEMMA RankGrows ==
  ASSUME NEW b \in Blocks, Sound(b), NEW c \in Nat, b < c
  PROVE  Rank(b) < Rank(c)
<1>1. b \in Nat /\ ~(b < b) /\ \A d \in Blocks : d < b => d < c
  BY Constants DEF Blocks
<1>2. b \notin Below(b)
  BY <1>1, Zenon DEF Below
<1>3. Below(b) \cup {b} \subseteq Below(c)
  BY <1>1, Zenon DEF Below
<1>4. PICK S : S = Below(b) \cup {b}
  BY Zenon
<1>5. IsFiniteSet(Below(b)) /\ IsFiniteSet(Below(c))
  BY BelowIsFinite, Zenon
<1>6. Cardinality(S) = Cardinality(Below(b)) + 1
  BY <1>2, <1>4, <1>5, FS_AddElement, Zenon
<1>7. Cardinality(S) <= Cardinality(Below(c))
  BY <1>3, <1>4, <1>5, FS_Subset, Zenon
<1>8. /\ Rank(b) = Cardinality(Below(b)) /\ Rank(b) \in Nat
      /\ Rank(c) = Cardinality(Below(c)) /\ Rank(c) \in Nat
  BY BelowIsFinite, Zenon
<1> QED BY <1>6, <1>7, <1>8

LEMMA RanksDiffer ==
  ASSUME NEW b \in Blocks, NEW c \in Blocks, Sound(b), Sound(c), Rank(b) = Rank(c)
  PROVE  b = c
<1>1. b \in Nat /\ c \in Nat
  BY Constants DEF Blocks
<1>2. Rank(b) \in Nat /\ Rank(c) \in Nat
  BY BelowIsFinite, Zenon
<1>3. ~(Rank(b) < Rank(c)) /\ ~(Rank(c) < Rank(b))
  BY <1>2
<1>4. ~(b < c) /\ ~(c < b)
  BY <1>1, <1>3, RankGrows, Zenon
<1> QED BY <1>1, <1>4

\* Each place up to the number of sound blocks is some block's.
LEMMA Ranked ==
  ASSUME NEW k \in Nat, k < Rank(N)
  PROVE  \E b \in Blocks : Sound(b) /\ Rank(b) = k
<1>1. PICK n \in Nat : n = Rank(N)
  BY BelowIsFinite, Zenon
<1>2. PICK T : T = Below(N)
  BY Zenon
<1>3. \A b \in T : b \in Blocks /\ Sound(b) /\ b < N
  BY <1>2, Zenon DEF Below
<1>4. PICK f : f = [b \in T |-> Rank(b)]
  BY Zenon
<1>5. \A b \in T : f[b] = Rank(b) /\ Rank(b) \in 0..(n - 1)
  <2>1. ASSUME NEW b \in T PROVE Rank(b) \in 0..(n - 1)
    <3>1. Rank(b) < n /\ Rank(b) \in Nat
      BY <1>1, <1>3, Constants, RankGrows, BelowIsFinite, Zenon
    <3> QED BY <3>1
  <2> QED BY <1>4, <2>1, Zenon
<1>6. f \in Injection(T, 0..(n - 1))
  <2>1. f \in [T -> 0..(n - 1)]
    BY <1>4, <1>5, Zenon
  <2>2. \A a, b \in T : f[a] = f[b] => a = b
    BY <1>3, <1>5, RanksDiffer, Zenon
  <2>3. IsInjective(f)
    BY <1>4, <2>2, Zenon DEF IsInjective
  <2> QED BY <2>1, <2>3, Zenon DEF Injection
<1>7. IsFiniteSet(0..(n - 1)) /\ Cardinality(0..(n - 1)) = n
  <2>1. 0 \in Int /\ n - 1 \in Int
    OBVIOUS
  <2>2. IsFiniteSet(0..(n - 1)) /\ Cardinality(0..(n - 1)) = IF 0 > n - 1 THEN 0 ELSE (n - 1) - 0 + 1
    BY <2>1, FS_Interval, Zenon
  <2> QED BY <2>2
<1>8. Cardinality(T) = n
  BY <1>1, <1>2, BelowIsFinite, Zenon
<1>9. f \in Surjection(T, 0..(n - 1))
  BY <1>6, <1>7, <1>8, FS_Injection, Zenon
<1>10. k \in 0..(n - 1)
  BY <1>1
<1>11. PICK b \in T : f[b] = k
  BY <1>9, <1>10, Zenon DEF Surjection
<1> QED BY <1>3, <1>5, <1>11, Zenon

\* Numbering a set counts it.
LEMMA Numbered ==
  ASSUME NEW q \in Seq(Blocks), \A i, j \in 1..Len(q) : i < j => q[i] < q[j],
         NEW n \in Nat, n <= Len(q), NEW S, \A k \in 1..n : q[k] \in S,
         \A b \in S : \E k \in 1..n : q[k] = b
  PROVE  Cardinality(S) = n
<1>1. Len(q) \in Nat /\ \A k \in 1..Len(q) : q[k] \in Nat
  <2>1. Len(q) \in Nat /\ \A k \in 1..Len(q) : q[k] \in Blocks
    BY LenProperties, ElementOfSeq, Zenon
  <2> QED BY <2>1, Constants DEF Blocks
<1>2. PICK f : f = [k \in 1..n |-> q[k]]
  BY Zenon
<1>3. f \in [1..n -> S] /\ \A k \in 1..n : f[k] = q[k]
  BY <1>2, Zenon
<1>4. \A i, j \in 1..n : q[i] = q[j] => i = j
  <2>1. ASSUME NEW i \in 1..n, NEW j \in 1..n, q[i] = q[j] PROVE i = j
    <3>1. i \in 1..Len(q) /\ j \in 1..Len(q) /\ i \in Nat /\ j \in Nat
      BY <1>1
    <3>2. q[i] \in Nat /\ q[j] \in Nat
      BY <1>1, <3>1, Zenon
    <3>3. ~(q[i] < q[j]) /\ ~(q[j] < q[i])
      BY <2>1, <3>2
    <3>4. ~(i < j) /\ ~(j < i)
      BY <3>1, <3>3, Zenon
    <3> QED BY <3>1, <3>4
  <2> QED BY <2>1, Zenon
<1>5. f \in Bijection(1..n, S)
  <2>1. IsInjective(f)
    BY <1>2, <1>3, <1>4, Zenon DEF IsInjective
  <2>2. f \in Surjection(1..n, S)
    BY <1>3, Zenon DEF Surjection
  <2> QED BY <1>3, <2>1, <2>2, Zenon DEF Bijection, Injection
<1> QED BY <1>5, FS_CountingElements, Zenon DEF ExistsBijection
-----------------------------------------------------------------------------
\* Unit u of the sound block b is in its place in the stream.
LEMMA StreamAt ==
  ASSUME NEW b \in Blocks, Sound(b), NEW u \in 1..E
  PROVE  /\ E * Rank(b) + u \in 1..(E * Rank(N)) /\ Stream[E * Rank(b) + u] = flash[b][u]
<1>1. PICK k \in Nat : k = Rank(b)
  BY BelowIsFinite, Zenon
<1>2. PICK n \in Nat : n = Rank(N)
  BY BelowIsFinite, Zenon
<1>3. k < n
  <2>1. b < N /\ N \in Nat
    BY Constants DEF Blocks
  <2> QED BY <1>1, <1>2, <2>1, RankGrows, Zenon
<1>4. PICK i : i = E * k + u
  BY Zenon
<1>5. i \in Nat \ {0} /\ i <= E * n /\ (i - 1) \div E = k /\ ((i - 1) % E) + 1 = u
  BY <1>3, <1>4, Places, Zenon
<1>6. i \in 1..(E * n)
  <2>1. E * n \in Nat
    BY OneMoreBlock, Zenon
  <2> QED BY <1>5, <2>1
<1>7. InOrder(k) = b
  <2>1. InOrder(k) \in Blocks /\ Sound(InOrder(k)) /\ Rank(InOrder(k)) = k
    BY <1>1, Zenon DEF InOrder
  <2> QED BY <1>1, <2>1, RanksDiffer, Zenon
<1>8. Stream[i] = flash[InOrder((i - 1) \div E)][((i - 1) % E) + 1]
  BY <1>2, <1>6, Zenon DEF Stream
<1> QED BY <1>1, <1>2, <1>4, <1>5, <1>6, <1>7, <1>8, Zenon

\* Each place of the stream is a unit of a sound block.
LEMMA StreamFrom ==
  ASSUME NEW i \in 1..(E * Rank(N))
  PROVE  \E b \in Blocks, u \in 1..E :
            Sound(b) /\ i = E * Rank(b) + u /\ Stream[i] = flash[b][u] /\ Rank(b) = (i - 1) \div E
<1>1. PICK n \in Nat : n = Rank(N)
  BY BelowIsFinite, Zenon
<1>2. i \in Nat \ {0} /\ i <= E * n
  <2>1. E * n \in Nat
    BY OneMoreBlock, Zenon
  <2> QED BY <1>1, <2>1
<1>3. PICK k \in Nat, u \in 1..E : i = E * k + u /\ k = (i - 1) \div E
  BY <1>2, PlaceOf, Zenon
<1>4. k < n
  BY <1>2, <1>3, Places, Zenon
<1>5. PICK b \in Blocks : Sound(b) /\ Rank(b) = k
  BY <1>1, <1>4, Ranked, Zenon
<1> QED BY <1>3, <1>5, StreamAt, Zenon

LEMMA StreamSeq ==
  ASSUME TypeInv
  PROVE  Stream \in Seq(Unit) /\ Len(Stream) = E * Rank(N) /\ DOMAIN Stream = 1..(E * Rank(N))
<1>1. PICK n \in Nat : n = E * Rank(N)
  BY BelowIsFinite, OneMoreBlock, Zenon
<1>2. ASSUME NEW i \in 1..n PROVE Stream[i] \in Unit
  <2>1. PICK b \in Blocks, u \in 1..E : Sound(b) /\ Stream[i] = flash[b][u]
    BY <1>1, StreamFrom, Zenon
  <2>2. flash[b] \in BlockData
    BY <2>1 DEF TypeInv, MediumType, Sound
  <2> QED BY <2>1, <2>2, Zenon DEF BlockData
<1>3. DOMAIN Stream = 1..n
  BY <1>1, Zenon DEF Stream
<1>4. PICK s : s = Stream /\ s = [i \in 1..n |-> Stream[i]]
  BY <1>1, Zenon DEF Stream
<1>5. s \in [1..n -> Unit]
  BY <1>2, <1>4, Zenon
<1>6. s \in Seq(Unit) /\ Len(s) = n
  BY <1>5
<1> QED BY <1>1, <1>3, <1>4, <1>6, Zenon
-----------------------------------------------------------------------------
\* q is the list of the first sound blocks.
Lists(q) ==
  /\ q \in Seq(Blocks) /\ \A k \in 1..Len(q) : Sound(q[k])
  /\ \A j, k \in 1..Len(q) : j < k => q[j] < q[k]
  /\ \A b \in Blocks, k \in 1..Len(q) : Sound(b) /\ b <= q[k] => \E j \in 1..Len(q) : q[j] = b

LEMMA ListedRank ==
  ASSUME NEW q, Lists(q), NEW k \in 1..Len(q)
  PROVE  Rank(q[k]) = k - 1
<1>1. /\ q \in Seq(Blocks) /\ \A i \in 1..Len(q) : q[i] \in Blocks /\ Sound(q[i])
      /\ \A i, j \in 1..Len(q) : i < j => q[i] < q[j]
  BY ElementOfSeq, Zenon DEF Lists
<1>2. Len(q) \in Nat /\ \A i \in 1..Len(q) : q[i] \in Nat
  BY <1>1, LenProperties, Constants DEF Blocks
<1>3. PICK n \in Nat : n = k - 1 /\ n <= Len(q) /\ \A i \in 1..n : i \in 1..Len(q) /\ i < k
  BY <1>2
<1>4. \A i \in 1..n : q[i] \in Below(q[k])
  BY <1>1, <1>3, Zenon DEF Below
<1>5. ASSUME NEW b \in Below(q[k]) PROVE \E i \in 1..n : q[i] = b
  <2>1. b \in Blocks /\ Sound(b) /\ b < q[k]
    BY <1>5, Zenon DEF Below
  <2>2. b <= q[k] /\ b \in Nat
    BY <1>2, <2>1, Constants DEF Blocks
  <2>3. PICK i \in 1..Len(q) : q[i] = b
    BY <2>1, <2>2, Zenon DEF Lists
  <2>4. ~(q[k] < q[i]) /\ q[i] # q[k]
    <3>1. q[k] \in Nat /\ q[i] \in Nat
      BY <1>2, Zenon
    <3> QED BY <2>1, <2>3, <3>1
  <2>5. ~(k < i) /\ i # k
    BY <1>1, <2>4, Zenon
  <2>6. i \in 1..n
    BY <1>2, <1>3, <2>5
  <2> QED BY <2>3, <2>6, Zenon
<1>6. Cardinality(Below(q[k])) = n
  BY <1>1, <1>3, <1>4, <1>5, Numbered, Zenon
<1> QED BY <1>3, <1>6, BelowIsFinite, Zenon

\* If it has them all, it is as long as the stream.
LEMMA ListedAll ==
  ASSUME NEW q, Lists(q), \A b \in Blocks : Sound(b) => \E j \in 1..Len(q) : q[j] = b
  PROVE  Rank(N) = Len(q)
<1>1. /\ q \in Seq(Blocks) /\ \A i \in 1..Len(q) : q[i] \in Blocks /\ Sound(q[i])
      /\ \A i, j \in 1..Len(q) : i < j => q[i] < q[j]
  BY ElementOfSeq, Zenon DEF Lists
<1>2. PICK n \in Nat : n = Len(q) /\ n <= Len(q)
  BY <1>1, LenProperties
<1>3. \A b \in Blocks : b < N
  BY Constants DEF Blocks
<1>4. \A i \in 1..n : q[i] \in Below(N)
  BY <1>1, <1>2, <1>3, Zenon DEF Below
<1>5. \A b \in Below(N) : \E i \in 1..n : q[i] = b
  BY <1>2, Zenon DEF Below
<1>6. Cardinality(Below(N)) = n
  BY <1>1, <1>2, <1>4, <1>5, Numbered, Zenon
<1> QED BY <1>2, <1>6, BelowIsFinite, Zenon

\* The stream begins with the blocks of the list.
LEMMA StreamOf ==
  ASSUME TypeInv, NEW q, Lists(q)
  PROVE  /\ Len(q) <= Rank(N) /\ Len(q) \in Nat
         /\ \A k \in 1..Len(q), u \in 1..E : Stream[E * (k - 1) + u] = flash[q[k]][u]
<1>1. q \in Seq(Blocks) /\ \A i \in 1..Len(q) : q[i] \in Blocks /\ Sound(q[i])
  BY ElementOfSeq, Zenon DEF Lists
<1>2. PICK n \in Nat : n = Len(q)
  BY <1>1, LenProperties, Zenon
<1>3. n <= Rank(N)
  <2>1. CASE n = 0
    BY <2>1, BelowIsFinite
  <2>2. CASE n # 0
    <3>1. n \in 1..Len(q)
      BY <1>2, <2>2
    <3>2. Rank(q[n]) = n - 1
      BY <3>1, ListedRank, Zenon
    <3>3. q[n] < N /\ N \in Nat
      <4>1. q[n] \in Blocks
        BY <1>1, <3>1, Zenon
      <4> QED BY <4>1, Constants DEF Blocks
    <3>4. Rank(q[n]) < Rank(N) /\ Rank(N) \in Nat
      BY <1>1, <3>1, <3>3, RankGrows, BelowIsFinite, Zenon
    <3> QED BY <3>2, <3>4
  <2> QED BY <2>1, <2>2
<1>4. \A k \in 1..Len(q), u \in 1..E : Stream[E * (k - 1) + u] = flash[q[k]][u]
  <2>1. ASSUME NEW k \in 1..Len(q), NEW u \in 1..E PROVE Stream[E * (k - 1) + u] = flash[q[k]][u]
    <3>1. PICK b \in Blocks : b = q[k] /\ Sound(b)
      BY <1>1, Zenon
    <3>2. Rank(b) = k - 1
      BY <3>1, ListedRank, Zenon
    <3>3. Stream[E * Rank(b) + u] = flash[b][u]
      BY <3>1, StreamAt, Zenon
    <3> QED BY <3>1, <3>2, <3>3, Zenon
  <2> QED BY <2>1, Zenon
<1> QED BY <1>2, <1>3, <1>4, Zenon

\* Readers and writers that met no failure have such lists.
LEMMA FromLists ==
  ASSUME TypeInv, FromInv
  PROVE  Lists(from)
<1>1. from \in Seq(Blocks) /\ \A b : Readable(b) <=> Sound(b)
  BY Zenon DEF TypeInv, HistoryType, Readable, Sound
<1> QED BY <1>1, Zenon DEF FromInv, InFrom, Lists

LEMMA AtLists ==
  ASSUME TypeInv, BlocksInv, quiet = 1
  PROVE  Lists(at)
<1>1. /\ at \in Seq(Blocks) /\ written \in Seq(BlockData) /\ Len(at) = Len(written)
      /\ Torn \notin BlockData
  BY MtdAssumption, Zenon DEF TypeInv, HistoryType, MtdAssumption
<1>2. \A k \in 1..Len(at) : written[k] \in BlockData
  BY <1>1, ElementOfSeq, Zenon
<1>3. \A k \in 1..Len(at) : Sound(at[k])
  BY <1>1, <1>2, Zenon DEF BlocksInv, WrittenInv, Sound
<1>4. \A b \in Blocks, k \in 1..Len(at) : Sound(b) /\ b <= at[k] => \E j \in 1..Len(at) : at[j] = b
  BY Zenon DEF BlocksInv, NoGapInv, InAt, Sound
<1> QED BY <1>1, <1>3, <1>4, Zenon DEF BlocksInv, WrittenInv, Lists

\* A writer that met no failure and has run out of blocks has used all good ones.
LEMMA AllUsed ==
  ASSUME TypeInv, BlocksInv, quiet = 1, pc = "block", pos = N
  PROVE  Good = Len(at)
<1>1. at \in Seq(Blocks) /\ \A k \in 1..Len(at) : at[k] \in Blocks \ bad
  <2>1. at \in Seq(Blocks)
    BY Zenon DEF TypeInv, HistoryType
  <2> QED BY <2>1, ElementOfSeq, Zenon DEF BlocksInv, WrittenInv
<1>2. \A j, k \in 1..Len(at) : j < k => at[j] < at[k]
  BY Zenon DEF BlocksInv, WrittenInv
<1>3. PICK n \in Nat : n = Len(at) /\ n <= Len(at)
  BY <1>1, LenProperties
<1>4. \A b \in Blocks : b < pos
  BY Constants DEF Blocks
<1>5. pc \in {"block", "erase", "program"}
  OBVIOUS
<1>6. \A b \in Blocks \ bad : \E k \in 1..Len(at) : at[k] = b
  BY <1>4, <1>5, Zenon DEF BlocksInv, NoGapInv, InAt
<1>7. PICK S : S = Blocks \ bad
  BY Zenon
<1>8. Cardinality(S) = n
  BY <1>1, <1>2, <1>3, <1>6, <1>7, Numbered, Zenon
<1> QED BY <1>3, <1>7, <1>8, Zenon DEF Good

LEMMA DumpHolds == ASSUME TypeInv, ResultInv PROVE DumpIsComplete
<1>1. SUFFICES ASSUME pc = "idle", op = "dump_image", rv = 0, rquiet = 1 PROVE output = Stream
  BY Zenon DEF DumpIsComplete
<1>2. op \in Readers
  BY <1>1 DEF Readers
<1>3. FromInv /\ Delivers(output) /\ \A b \in Blocks : Readable(b) => InFrom(b)
  BY <1>1, <1>2, Zenon DEF ResultInv
<1>4. Lists(from)
  BY <1>3, FromLists, Zenon
<1>5. \A b \in Blocks : Sound(b) => \E j \in 1..Len(from) : from[j] = b
  BY <1>3, Zenon DEF Readable, Sound, InFrom
<1>6. PICK n \in Nat : n = Len(from) /\ n = Rank(N)
  BY <1>4, <1>5, ListedAll, BelowIsFinite, Zenon
<1>7. /\ output \in Seq(Unit) /\ Stream \in Seq(Unit) /\ Len(output) = E * n /\ Len(Stream) = E * n
      /\ E * n \in Nat
  BY <1>3, <1>6, StreamSeq, OneMoreBlock, Zenon DEF TypeInv, ReaderType, Delivers
<1>8. \A k \in 1..Len(from), u \in 1..E : Stream[E * (k - 1) + u] = flash[from[k]][u]
  BY <1>4, StreamOf, Zenon
<1>9. ASSUME NEW i \in 1..(E * n) PROVE output[i] = Stream[i]
  <2>1. PICK k \in Nat, u \in 1..E : i = E * k + u
    <3>1. i \in Nat \ {0}
      BY <1>7
    <3> QED BY <3>1, PlaceOf, Zenon
  <2>2. i <= E * n
    BY <1>7
  <2>3. k < n
    BY <2>1, <2>2, Places, Zenon
  <2>4. k + 1 \in 1..n /\ (k + 1) - 1 = k
    BY <2>3
  <2>5. output[E * ((k + 1) - 1) + u] = flash[from[k + 1]][u]
    BY <1>3, <1>6, <2>4, Zenon DEF Delivers
  <2>6. Stream[E * ((k + 1) - 1) + u] = flash[from[k + 1]][u]
    BY <1>6, <1>8, <2>4, Zenon
  <2> QED BY <2>1, <2>4, <2>5, <2>6, Zenon
<1> QED BY <1>7, <1>9, SameSeq, Zenon

LEMMA LoadHolds == ASSUME TypeInv, ResultInv PROVE LoadedIsPrefix
<1>1. SUFFICES ASSUME pc = "idle", op = "LoadPartitionContents", rv = 0, rquiet = 1
               PROVE  Begins(got, Stream)
  BY Zenon DEF LoadedIsPrefix
<1>2. op \in Readers
  BY <1>1 DEF Readers
<1>3. /\ FromInv /\ Len(got) <= E * Len(from)
      /\ \A k \in 1..Len(from), u \in 1..E :
           E * (k - 1) + u <= Len(got) => got[E * (k - 1) + u] = flash[from[k]][u]
  BY <1>1, <1>2, Zenon DEF ResultInv
<1>4. Lists(from)
  BY <1>3, FromLists, Zenon
<1>5. PICK n \in Nat : n = Len(from) /\ n <= Rank(N)
  BY <1>4, StreamOf, Zenon
<1>6. PICK m \in Nat : m = Rank(N)
  BY BelowIsFinite, Zenon
<1>7. PICK l \in Nat : l = Len(got) /\ l <= E * n /\ E * n \in Nat /\ l <= E * m /\ Len(Stream) = E * m
  <2>1. Len(got) \in Nat /\ Len(got) <= E * n
    BY <1>3, <1>5, LenProperties, Zenon DEF TypeInv, ReaderType
  <2>2. E * n <= E * m /\ E * n \in Nat /\ E * m \in Nat
    BY <1>5, <1>6, Constants
  <2>3. Len(got) <= E * m
    BY <2>1, <2>2
  <2> QED BY <1>6, <2>1, <2>2, <2>3, StreamSeq, Zenon
<1>8. \A k \in 1..Len(from), u \in 1..E : Stream[E * (k - 1) + u] = flash[from[k]][u]
  BY <1>4, StreamOf, Zenon
<1>9. ASSUME NEW i \in 1..l PROVE got[i] = Stream[i]
  <2>1. PICK k \in Nat, u \in 1..E : i = E * k + u
    <3>1. i \in Nat \ {0}
      OBVIOUS
    <3> QED BY <3>1, PlaceOf, Zenon
  <2>2. i <= E * n /\ i <= l
    BY <1>7
  <2>3. k < n
    BY <2>1, <2>2, Places, Zenon
  <2>4. k + 1 \in 1..n /\ (k + 1) - 1 = k
    BY <2>3
  <2>5. got[E * ((k + 1) - 1) + u] = flash[from[k + 1]][u]
    BY <1>3, <1>5, <1>7, <2>1, <2>2, <2>4, Zenon
  <2>6. Stream[E * ((k + 1) - 1) + u] = flash[from[k + 1]][u]
    BY <1>5, <1>8, <2>4, Zenon
  <2> QED BY <2>1, <2>4, <2>5, <2>6, Zenon
<1> QED BY <1>7, <1>9, Zenon DEF Begins

\* The place of the last block of the image.
LEMMA LastPlace ==
  ASSUME NEW k \in Nat, NEW u \in 1..E, NEW l \in Nat, l < E * k + u
  PROVE  E * k < l => (l - 1) \div E = k
BY Constants

LEMMA NoPlace ==
  ASSUME NEW k \in Nat, NEW n \in Nat, n <= k, NEW l \in Nat, l > 0, l <= E * n
  PROVE  (l - 1) \div E # k
BY Constants

LEMMA WrittenHolds == ASSUME TypeInv, BlocksInv, ToldInv PROVE WrittenIsStream
<1>1. SUFFICES ASSUME told # "none", quiet = 1, Fits(image)
               PROVE  /\ Begins(image, Stream)
                      /\ told # "set_bootloader_msg" =>
                           \A i \in (Len(image) + 1)..Len(Stream) :
                             Stream[i] = IF (i - 1) \div E = (Len(image) - 1) \div E /\ image # <<>>
                                         THEN Zero ELSE FF
  BY Zenon DEF WrittenIsStream
<1>2. /\ ImageInv /\ Done
      /\ told # "set_bootloader_msg" => \A b \in Blocks \ bad : InAt(b) \/ flash[b] = Erased
  BY <1>1, Zenon DEF ToldInv
<1>3. Lists(at)
  BY <1>1, AtLists, Zenon
<1>4. PICK n \in Nat : n = Len(at) /\ n = Len(written) /\ n <= Rank(N)
  BY <1>3, StreamOf, Zenon DEF TypeInv, HistoryType
<1>5. PICK m \in Nat : m = Rank(N)
  BY BelowIsFinite, Zenon
<1>6. PICK l \in Nat : l = Len(image) /\ l <= E * n /\ E * n \in Nat /\ l <= E * m /\ Len(Stream) = E * m
                       /\ E * m \in Nat
  <2>1. Len(image) \in Nat /\ Len(image) <= E * n
    BY <1>2, <1>4, LenProperties, Zenon DEF TypeInv, HistoryType, Done
  <2>2. E * n <= E * m /\ E * n \in Nat /\ E * m \in Nat
    BY <1>4, <1>5, Constants
  <2>3. Len(image) <= E * m
    BY <2>1, <2>2
  <2> QED BY <1>5, <2>1, <2>2, <2>3, StreamSeq, Zenon
\* What readers find in the blocks that were written.
<1>7. ASSUME NEW k \in Nat, k < n, NEW u \in 1..E
      PROVE  /\ E * k < l
             /\ Stream[E * k + u] = IF E * k + u <= l THEN image[E * k + u] ELSE Zero
  <2>1. k + 1 \in 1..n /\ (k + 1) - 1 = k
    BY <1>7
  <2>2. /\ E * ((k + 1) - 1) < l
        /\ written[k + 1][u] = IF E * ((k + 1) - 1) + u <= l THEN image[E * ((k + 1) - 1) + u] ELSE Zero
    BY <1>2, <1>4, <1>6, <2>1, Zenon DEF ImageInv
  <2>3. flash[at[k + 1]] = written[k + 1]
    BY <1>4, <2>1, Zenon DEF BlocksInv, WrittenInv
  <2>4. \A j \in 1..Len(at), v \in 1..E : Stream[E * (j - 1) + v] = flash[at[j]][v]
    BY <1>3, StreamOf, Zenon
  <2>5. Stream[E * ((k + 1) - 1) + u] = written[k + 1][u]
    BY <1>4, <2>1, <2>3, <2>4, Zenon
  <2> QED BY <2>1, <2>2, <2>5, Zenon
<1>8. ASSUME NEW i \in 1..l PROVE image[i] = Stream[i]
  <2>1. PICK k \in Nat, u \in 1..E : i = E * k + u
    <3>1. i \in Nat \ {0}
      OBVIOUS
    <3> QED BY <3>1, PlaceOf, Zenon
  <2>2. i <= E * n /\ i <= l
    BY <1>6
  <2>3. k < n
    BY <2>1, <2>2, Places, Zenon
  <2> QED BY <1>7, <2>1, <2>2, <2>3, Zenon
<1>9. ASSUME told # "set_bootloader_msg", NEW i \in (l + 1)..(E * m)
      PROVE  Stream[i] = IF (i - 1) \div E = (l - 1) \div E /\ image # <<>> THEN Zero ELSE FF
  <2>0. i \in 1..(E * m) /\ i > l
    BY <1>6
  <2>1. PICK b \in Blocks, u \in 1..E :
           Sound(b) /\ i = E * Rank(b) + u /\ Stream[i] = flash[b][u] /\ Rank(b) = (i - 1) \div E
    BY <1>5, <2>0, StreamFrom, Zenon
  <2>2. PICK k \in Nat : k = Rank(b)
    BY BelowIsFinite, Zenon
  <2>3. CASE k < n
    <3>1. E * k < l /\ Stream[i] = IF i <= l THEN image[i] ELSE Zero
      BY <1>7, <2>1, <2>2, <2>3, Zenon
    <3>2. Stream[i] = Zero
      <4>1. ~(i <= l)
        BY <2>0
      <4> QED BY <3>1, <4>1, Zenon
    <3>3. l < E * k + u
      BY <2>0, <2>1, <2>2
    <3>4. (l - 1) \div E = k
      BY <3>1, <3>3, LastPlace, Zenon
    <3>5. image # <<>>
      <4>1. E * k \in Nat
        BY OneMoreBlock, Zenon
      <4>2. l # 0
        BY <3>1, <4>1
      <4> QED BY <1>6, <4>2
    <3> QED BY <2>1, <2>2, <3>2, <3>4, <3>5, Zenon
  <2>4. CASE ~(k < n)
    <3>1. n <= k
      BY <2>4
    <3>2. ~InAt(b)
      <4>1. ASSUME NEW j \in 1..Len(at), at[j] = b PROVE FALSE
        <5>1. k = j - 1
          BY <1>3, <2>2, <4>1, ListedRank, Zenon
        <5> QED BY <1>4, <3>1, <5>1
      <4> QED BY <4>1, Zenon DEF InAt
    <3>3. flash[b] = Erased
      BY <1>2, <1>9, <2>1, <3>2, Zenon DEF Sound
    <3>4. Stream[i] = FF
      BY <2>1, <3>3, Zenon DEF Erased
    <3>5. image # <<>> => l > 0
      BY <1>6, LenProperties DEF TypeInv, HistoryType
    <3>6. image # <<>> => (l - 1) \div E # k
      BY <1>6, <3>1, <3>5, NoPlace, Zenon
    <3> QED BY <2>1, <2>2, <3>4, <3>6, Zenon
  <2> QED BY <2>3, <2>4, Zenon
<1> QED BY <1>6, <1>8, <1>9, Zenon DEF Begins
-----------------------------------------------------------------------------
StreamInv == TypeInv /\ BlocksInv /\ DeliverInv /\ FlowInv /\ ToldInv /\ ResultInv

LEMMA StreamInvariant == Spec => []StreamInv
<1>1. Init => StreamInv
  <2> SUFFICES ASSUME Init PROVE StreamInv
    OBVIOUS
  <2>1. pc = "idle" /\ op = "none" /\ told = "none"
    BY Zenon DEF Init
  <2>2. pc \notin Reading /\ pc \notin WriterSteps /\ op \notin Readers
    BY <2>1 DEF Reading, WriterSteps, Writing, Readers
  <2>3. DeliverInv /\ FlowInv /\ ToldInv /\ ResultInv
    BY <2>1, <2>2, Zenon DEF DeliverInv, FlowInv, Live, ToldInv, ResultInv
  <2> QED BY <2>3, TypeInit, BlocksInit, Zenon DEF StreamInv
<1>2. StreamInv /\ [Next]_vars => StreamInv'
  <2> SUFFICES ASSUME StreamInv, [Next]_vars PROVE StreamInv'
    OBVIOUS
  <2>1. TypeInv /\ BlocksInv /\ DeliverInv /\ FlowInv /\ ToldInv /\ ResultInv
    BY Zenon DEF StreamInv
  <2>2. TypeInv' /\ BlocksInv'
    BY <2>1, TypeStep, BlocksStep, Zenon
  <2>3. DeliverInv' /\ ResultInv'
    BY <2>1, DeliverStep, ResultStep, Zenon
  <2>4. FlowInv' /\ ToldInv'
    BY <2>1, <2>2, AllUsed, FlowStep, Zenon
  <2> QED BY <2>2, <2>3, <2>4, Zenon DEF StreamInv
<1> QED BY <1>1, <1>2, PTL DEF Spec

\* dump_image, reading a unit at a time through mtd_read_data's two buffers, has at its
\* end every sound block of the partition once, in order, if no read failed.
THEOREM DumpsWholePartition == Spec => []DumpIsComplete
<1>1. StreamInv => DumpIsComplete
  BY DumpHolds, Zenon DEF StreamInv
<1> QED BY <1>1, StreamInvariant, PTL

\* What LoadPartitionContents accepts, at whichever of its sizes, is the beginning of what
\* the partition holds.
THEOREM LoadsPrefix == Spec => []LoadedIsPrefix
<1>1. StreamInv => LoadedIsPrefix
  BY LoadHolds, Zenon DEF StreamInv
<1> QED BY <1>1, StreamInvariant, PTL

\* A program that reports an image as written, without a failure of the driver and with
\* room for it, leaves the image at the front of the partition, padded to a block, and
\* nothing but erased blocks behind it (set_bootloader_msg leaves what is there).
THEOREM WritesImage == Spec => []WrittenIsStream
<1>1. StreamInv => WrittenIsStream
  BY WrittenHolds, Zenon DEF StreamInv
<1> QED BY <1>1, StreamInvariant, PTL
=============================================================================
