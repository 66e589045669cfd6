----------------------------- MODULE PigzProofs -----------------------------
(***************************************************************************)
(* pigz, for any number of threads, buffers and blocks: where the threads  *)
(* and the jobs are.                                                       *)
(***************************************************************************)
EXTENDS Pigz, TLAPS

\* A list as a set: what taking from it, appending and inserting do.
Elems(list) == {list[i] : i \in 1..Len(list)}
Distinct(list) == \A i, j \in 1..Len(list) : list[i] = list[j] => i = j

LEMMA EmptyList == Elems(<<>>) = {} /\ Distinct(<<>>)
BY DEF Elems, Distinct

LEMMA NoElems ==
  ASSUME NEW S, NEW q \in Seq(S), Elems(q) = {}
  PROVE  q = <<>>
<1>1. Len(q) \in Nat /\ (Len(q) # 0 => q[1] \in Elems(q))
  BY DEF Elems
<1> QED BY <1>1

LEMMA OneElem == ASSUME NEW k PROVE Elems(<<k>>) = {k} /\ Distinct(<<k>>)
BY DEF Elems, Distinct

LEMMA TailElems ==
  ASSUME NEW S, NEW q \in Seq(S), q # <<>>, Distinct(q)
  PROVE  /\ Head(q) \in Elems(q) /\ Elems(Tail(q)) = Elems(q) \ {Head(q)} /\ Distinct(Tail(q))
         /\ Tail(q) \in Seq(S) /\ Head(q) \in S
<1>1. /\ Len(q) \in Nat \ {0} /\ Head(q) = q[1] /\ Tail(q) \in Seq(S) /\ Len(Tail(q)) = Len(q) - 1
      /\ \A i \in 1..(Len(q) - 1) : Tail(q)[i] = q[i + 1]
      /\ q[1] \in S
  OBVIOUS
<1>2. Distinct(Tail(q))
  BY <1>1 DEF Distinct
<1>3. ASSUME NEW k PROVE k \in Elems(Tail(q)) <=> k \in Elems(q) \ {Head(q)}
  <2>1. ASSUME k \in Elems(Tail(q)) PROVE k \in Elems(q) \ {Head(q)}
    <3>1. PICK i \in 1..(Len(q) - 1) : k = Tail(q)[i]
      BY <1>1, <2>1, Zenon DEF Elems
    <3>2. k = q[i + 1] /\ i + 1 \in 1..Len(q) /\ i + 1 # 1 /\ 1 \in 1..Len(q)
      BY <1>1, <3>1
    <3> QED BY <1>1, <3>2, Zenon DEF Elems, Distinct
  <2>2. ASSUME k \in Elems(q) \ {Head(q)} PROVE k \in Elems(Tail(q))
    <3>1. PICK i \in 1..Len(q) : k = q[i]
      BY <2>2, Zenon DEF Elems
    <3>2. i # 1
      BY <1>1, <2>2, <3>1, Zenon
    <3>3. i - 1 \in 1..Len(Tail(q)) /\ k = Tail(q)[i - 1]
      BY <1>1, <3>1, <3>2
    <3> QED BY <3>3, Zenon DEF Elems
  <2> QED BY <2>1, <2>2, Zenon
<1>4. Head(q) \in Elems(q)
  BY <1>1 DEF Elems
<1> QED BY <1>1, <1>2, <1>3, <1>4, Zenon

\* Putting k into q, after its first n elements.
PutIn(q, k, n, r) ==
  /\ Len(r) = Len(q) + 1
  /\ \A i \in 1..n : r[i] = q[i]
  /\ r[n + 1] = k
  /\ \A i \in (n + 2)..(Len(q) + 1) : r[i] = q[i - 1]

LEMMA PutInElems ==
  ASSUME NEW S, NEW q \in Seq(S), NEW k \in S, NEW n \in 0..Len(q), NEW r \in Seq(S),
         PutIn(q, k, n, r), k \notin Elems(q), Distinct(q)
  PROVE  Elems(r) = Elems(q) \cup {k} /\ Distinct(r)
<1>1. /\ Len(r) = Len(q) + 1 /\ Len(q) \in Nat
      /\ \A i \in 1..n : r[i] = q[i]
      /\ r[n + 1] = k
      /\ \A i \in (n + 2)..(Len(q) + 1) : r[i] = q[i - 1]
  BY DEF PutIn
<1>2. ASSUME NEW i \in 1..Len(r) PROVE (i = n + 1 /\ r[i] = k) \/ (i # n + 1 /\ r[i] \in Elems(q))
  <2>1. i <= n => i \in 1..Len(q) /\ r[i] = q[i] /\ i # n + 1
    BY <1>1
  <2>2. i > n + 1 => i - 1 \in 1..Len(q) /\ r[i] = q[i - 1] /\ i # n + 1
    BY <1>1
  <2>3. i <= n \/ i = n + 1 \/ i > n + 1
    OBVIOUS
  <2> QED BY <1>1, <2>1, <2>2, <2>3, Zenon DEF Elems
<1>3. ASSUME NEW i \in 1..Len(q) PROVE q[i] \in Elems(r)
  <2>1. CASE i <= n
    <3>1. i \in 1..Len(r) /\ r[i] = q[i]
      BY <1>1, <2>1
    <3> QED BY <3>1, Zenon DEF Elems
  <2>2. CASE i > n
    <3>1. i + 1 \in 1..Len(r) /\ r[i + 1] = q[i]
      BY <1>1, <2>2
    <3> QED BY <3>1, Zenon DEF Elems
  <2> QED BY <2>1, <2>2
<1>4. k \in Elems(r)
  <2>1. n + 1 \in 1..Len(r) /\ k = r[n + 1]
    BY <1>1
  <2> QED BY <2>1, Zenon DEF Elems
<1>5. Elems(r) = Elems(q) \cup {k}
  <2>1. Elems(r) \subseteq Elems(q) \cup {k}
    BY <1>2, Zenon DEF Elems
  <2>2. Elems(q) \subseteq Elems(r)
    BY <1>3, Zenon DEF Elems
  <2> QED BY <1>4, <2>1, <2>2, Zenon
<1>6. ASSUME NEW i \in 1..Len(r), NEW j \in 1..Len(r), r[i] = r[j] PROVE i = j
  <2>1. CASE i = n + 1 \/ j = n + 1
    BY <1>2, <1>6, <2>1, Zenon
  <2>2. CASE i # n + 1 /\ j # n + 1
    <3>1. \E l \in 1..Len(q) : r[i] = q[l] /\ i = IF l <= n THEN l ELSE l + 1
      <4>1. i <= n => i \in 1..Len(q) /\ r[i] = q[i]
        BY <1>1
      <4>2. i > n + 1 => i - 1 \in 1..Len(q) /\ r[i] = q[i - 1] /\ i - 1 > n
        BY <1>1
      <4> QED BY <2>2, <4>1, <4>2
    <3>2. \E l \in 1..Len(q) : r[j] = q[l] /\ j = IF l <= n THEN l ELSE l + 1
      <4>1. j <= n => j \in 1..Len(q) /\ r[j] = q[j]
        BY <1>1
      <4>2. j > n + 1 => j - 1 \in 1..Len(q) /\ r[j] = q[j - 1] /\ j - 1 > n
        BY <1>1
      <4> QED BY <2>2, <4>1, <4>2
    <3> QED BY <1>6, <3>1, <3>2, Zenon DEF Distinct
  <2> QED BY <2>1, <2>2, Zenon
<1> QED BY <1>5, <1>6, Zenon DEF Distinct

LEMMA ConcatFacts ==
  ASSUME NEW S, NEW x \in Seq(S), NEW y \in Seq(S)
  PROVE  /\ x \o y \in Seq(S) /\ Len(x \o y) = Len(x) + Len(y)
         /\ \A i \in 1..Len(x) : (x \o y)[i] = x[i]
         /\ \A i \in (Len(x) + 1)..(Len(x) + Len(y)) : (x \o y)[i] = y[i - Len(x)]
OBVIOUS

LEMMA InsertElems ==
  ASSUME NEW S, NEW q \in Seq(S), NEW k \in S, NEW n \in 0..Len(q), k \notin Elems(q), Distinct(q)
  PROVE  /\ Elems(Insert(q, k, n)) = Elems(q) \cup {k} /\ Distinct(Insert(q, k, n))
         /\ Insert(q, k, n) \in Seq(S)
<1> DEFINE a == SubSeq(q, 1, n)
           b == SubSeq(q, n + 1, Len(q))
           c == a \o <<k>>
<1>1. Len(q) \in Nat /\ n \in Nat /\ n <= Len(q)
  OBVIOUS
<1>2. a \in Seq(S) /\ Len(a) = n /\ \A i \in 1..n : a[i] = q[i]
  BY <1>1
<1>3. b \in Seq(S) /\ Len(b) = Len(q) - n /\ \A i \in 1..(Len(q) - n) : b[i] = q[n + i]
  BY <1>1
<1> HIDE DEF a, b
<1>4. c \in Seq(S) /\ Len(c) = n + 1 /\ (\A i \in 1..n : c[i] = q[i]) /\ c[n + 1] = k
  BY <1>1, <1>2
<1> HIDE DEF c
<1>5. c \o b \in Seq(S) /\ Len(c \o b) = Len(c) + Len(b)
  BY <1>3, <1>4, ConcatFacts, Zenon
<1>6. \A i \in 1..Len(c) : (c \o b)[i] = c[i]
  BY <1>3, <1>4, ConcatFacts, Zenon
<1>7. ASSUME NEW i \in (n + 2)..(Len(q) + 1) PROVE (c \o b)[i] = q[i - 1]
  <2>1. i \in (Len(c) + 1)..(Len(c) + Len(b)) /\ i - Len(c) \in 1..(Len(q) - n)
        /\ n + (i - Len(c)) = i - 1
    BY <1>1, <1>3, <1>4
  <2>2. (c \o b)[i] = b[i - Len(c)]
    BY <1>3, <1>4, <2>1, ConcatFacts, Zenon
  <2> QED BY <1>3, <2>1, <2>2, Zenon
<1>8. PutIn(q, k, n, c \o b)
  <2>1. Len(c \o b) = Len(q) + 1
    BY <1>1, <1>3, <1>4, <1>5
  <2>2. \A i \in 1..n : (c \o b)[i] = q[i]
    BY <1>1, <1>4, <1>6
  <2>3. (c \o b)[n + 1] = k
    BY <1>1, <1>4, <1>6
  <2> QED BY <1>7, <2>1, <2>2, <2>3, Zenon DEF PutIn
<1>9. Insert(q, k, n) = c \o b
  BY Zenon DEF Insert, a, b, c
<1>10. Elems(c \o b) = Elems(q) \cup {k} /\ Distinct(c \o b)
  BY <1>5, <1>8, PutInElems, Zenon
<1> QED BY <1>5, <1>9, <1>10, Zenon

LEMMA AppendElems ==
  ASSUME NEW S, NEW q \in Seq(S), NEW k \in S, k \notin Elems(q), Distinct(q)
  PROVE  /\ Elems(Append(q, k)) = Elems(q) \cup {k} /\ Distinct(Append(q, k))
         /\ Append(q, k) \in Seq(S)
<1>1. Len(q) \in 0..Len(q) /\ Append(q, k) \in Seq(S) /\ PutIn(q, k, Len(q), Append(q, k))
  BY DEF PutIn
<1>2. Elems(Append(q, k)) = Elems(q) \cup {k} /\ Distinct(Append(q, k))
  BY <1>1, PutInElems, Zenon
<1> QED BY <1>1, <1>2, Zenon

LEMMA PushElems ==
  ASSUME NEW S, NEW q \in Seq(S), NEW k \in S, k \notin Elems(q), Distinct(q)
  PROVE  /\ Elems(<<k>> \o q) = Elems(q) \cup {k} /\ Distinct(<<k>> \o q)
         /\ <<k>> \o q \in Seq(S)
<1>1. 0 \in 0..Len(q) /\ <<k>> \o q \in Seq(S) /\ PutIn(q, k, 0, <<k>> \o q)
  BY DEF PutIn
<1>2. Elems(<<k>> \o q) = Elems(q) \cup {k} /\ Distinct(<<k>> \o q)
  BY <1>1, PutInElems, Zenon
<1> QED BY <1>1, <1>2, Zenon

-----------------------------------------------------------------------------
\* Where the threads are, and where the jobs.
Running == mpc \in {"first", "more", "job", "enqueue", "join"}

Fresh(k) == mpc = "enqueue" /\ k = seq
With(t, k) == cpc[t] \in Working /\ mine[t] = k
Begun(t, k) == cpc[t] \in {"dict", "compress", "insert"} /\ mine[t] = k
AtWriter(k) == wpc \in {"write", "calc"} /\ want = k

MainInv ==
  /\ Running \/ mpc = "start" => stream <= Len(Inputs)
  /\ wpc = "none" <=> ~Running
  /\ wpc \in {"trailer", "exited"} => mpc = "join"
  /\ mpc \in {"more", "job", "enqueue"} => curr \in Spaces
  /\ mpc \in {"job", "enqueue"} => next \in Spaces
  /\ mpc = "more" => next = curr
  /\ mpc = "first" => dict = None
  /\ mpc \in {"free", "done"} => \A t \in Compressors : cpc[t] \in {"none", "exited"}
  /\ \A t \in Compressors : t > cthreads => cpc[t] = "none"
  /\ poolLock = Main => mpc \in {"first", "more"} /\ have # <<>>

\* The jobs that are allocated: those from the one the write thread waits for to the last
\* one made, which alone may have no successor.  All that the lists and threads have are.
JobInv ==
  /\ Running => 1 <= want /\ want <= seq
  /\ \A k \in DOMAIN job :
       /\ want <= k /\ k <= seq
       /\ mpc \in {"first", "more", "job"} => k < seq
       /\ ~job[k].more => k = seq /\ mpc \in {"enqueue", "join"}
       /\ job[k].more => k < seq \/ mpc = "enqueue"
  /\ wpc \in {"none", "trailer", "exited"} => DOMAIN job = {}
  /\ mpc = "enqueue" => seq \in DOMAIN job

ListInv ==
  /\ Elems(compress) \subseteq
       DOMAIN job \cup (IF mpc \in {"join_all", "free"} THEN {Stop} ELSE {})
  /\ Elems(write) \subseteq DOMAIN job
  /\ Distinct(compress) /\ Distinct(write)
  /\ \A t \in Compressors :
       cpc[t] \in Working => mine[t] \in DOMAIN job /\ job[mine[t]].calc = 0
  /\ \A k \in DOMAIN job : Fresh(k) \/ k \in Elems(compress) => job[k].calc = 0
  /\ wpc \in {"write", "calc"} => want \in DOMAIN job

\* A job is with the main thread, then in the first list, with one thread, in the second
\* list, with the write thread; the compress thread keeps it for the check value.
StageInv ==
  /\ \A k \in DOMAIN job :
       /\ Fresh(k) => /\ k \notin Elems(compress) /\ k \notin Elems(write) /\ ~AtWriter(k)
                      /\ \A t \in Compressors : ~With(t, k)
       /\ k \in Elems(compress) => /\ k \notin Elems(write) /\ ~AtWriter(k)
                                   /\ \A t \in Compressors : ~With(t, k)
       /\ \A t \in Compressors : Begun(t, k) => k \notin Elems(write) /\ ~AtWriter(k)
       /\ k \in Elems(write) => ~AtWriter(k)
  /\ \A t, u \in Compressors :
       cpc[t] \in Working /\ cpc[u] \in Working /\ mine[t] = mine[u] => t = u

\* Who may be in drop_space.
DropInv ==
  /\ \A t \in Compressors : cpc[t] \notin {"compress", "calc"} => Free(t)
  /\ wpc # "write" => Free(Writer)
  /\ mpc # "join" => Free(Main)
  /\ \A t \in Threads : drop[t].step = "no" <=> drop[t].space = None

\* TypeOK in parts.
MainType ==
  /\ mpc \in {"start", "first", "more", "job", "enqueue", "join", "finish", "join_all", "free",
              "done"}
  /\ stream \in 1..(Len(Inputs) + 1) /\ read \in Nat /\ seq \in Nat \ {0}
  /\ curr \in Spaces \cup {None} /\ next \in Spaces \cup {None} /\ dict \in Spaces \cup {None}
  /\ cthreads \in 0..Procs
ListType == compress \in Seq(Nat) /\ write \in Seq(Nat)
JobType == DOMAIN job \subseteq Nat /\ \A k \in DOMAIN job : job[k] \in Job
ThreadType ==
  /\ cpc \in [Compressors -> {"none", "idle", "dict", "compress", "insert", "check", "calc",
                              "exited"}]
  /\ mine \in [Compressors -> Nat] /\ sum \in [Compressors -> Blocks]
  /\ wpc \in {"none", "take", "write", "calc", "trailer", "exited"} /\ want \in Nat
PoolType ==
  /\ limit \in 0..InBufs /\ have \in Seq(Spaces)
  /\ buf \in [Spaces -> Blocks]
  /\ poolLock \in {Main, Nobody}
LockType ==
  /\ useLock \in [Spaces -> Threads \cup {Nobody}]
  /\ drop \in [Threads -> [space : Spaces \cup {None}, step : {"no", "possess", "push", "twist"}]]
CountType == use \in [Spaces -> Nat] /\ outs \in Nat
ResultType == output \in Seq([data : Blocks, from : Blocks]) /\ check \in Seq(Blocks)

Types == MainType /\ ListType /\ JobType /\ ThreadType /\ PoolType /\ LockType /\ ResultType
ControlInv == Types /\ MainInv /\ JobInv /\ ListInv /\ StageInv /\ DropInv

LEMMA ThreadFacts ==
  /\ Procs \in Nat \ {0} /\ InBufs \in Nat
  /\ \A t \in Compressors : t \in Threads /\ t # Main /\ t # Writer /\ t \in Nat
  /\ Main \in Threads /\ Writer \in Threads /\ Main # Writer /\ Nobody \notin Threads
  /\ Threads \subseteq Nat /\ Spaces \subseteq Nat /\ None \notin Spaces
  /\ \A t \in Threads : t = Main \/ t = Writer \/ t \in Compressors
BY PigzAssumption DEF Compressors, Threads, Main, Writer, Nobody, Spaces, None

LEMMA ControlParts ==
  ASSUME ControlInv
  PROVE  /\ MainType /\ ListType /\ JobType /\ ThreadType /\ PoolType /\ LockType /\ ResultType
         /\ MainInv /\ JobInv /\ ListInv /\ StageInv /\ DropInv
BY Zenon DEF ControlInv, Types

LEMMA TypeParts == Types /\ CountType => TypeOK
<1> SUFFICES ASSUME Types, CountType PROVE TypeOK
  BY Zenon
<1>1. {curr, next, dict} \subseteq Spaces \cup {None}
  BY Zenon DEF Types, MainType
<1>2. poolLock \in Threads \cup {Nobody}
  BY ThreadFacts, Zenon DEF Types, PoolType
<1> QED BY <1>1, <1>2, Zenon DEF Types, MainType, ListType, JobType, ThreadType, PoolType, LockType,
                                 CountType, ResultType, TypeOK

LEMMA NextCases ==
  ASSUME Next
  PROVE  \/ \E t \in Threads : Dropping(t)
         \/ GetNew \/ GetHead \/ GetUse
         \/ Launch \/ NewJob \/ Enqueue \/ Join \/ Finish \/ JoinAll \/ FreePools
         \/ \E t \in Compressors : TakeJob(t) \/ Leave(t) \/ SetDictionary(t) \/ Compress(t)
                                   \/ InsertWrite(t) \/ Check(t) \/ Calc(t)
         \/ TakeWrite \/ WriteOut \/ Combine \/ Trailer
BY ThreadFacts, Zenon DEF Next, MainStep, CompressStep, WriteStep

\* What the steps leave alone.
LEMMA DroppingKeeps ==
  ASSUME NEW t \in Threads, Dropping(t)
  PROVE  UNCHANGED <<main, compress, write, job, comp, wthread, limit, buf, poolLock, outs, result>>
BY Zenon DEF Dropping, DropPossess, DropPush, DropTwist

\* The steps of a compress thread that write into its job.
JobStep(t) == SetDictionary(t) \/ Compress(t) \/ Calc(t)

LEMMA JobStepKeeps ==
  ASSUME ControlInv, NEW t \in Compressors, JobStep(t)
  PROVE  /\ mine[t] \in DOMAIN job /\ job[mine[t]] \in Job
         /\ DOMAIN job' = DOMAIN job
         /\ \A k \in DOMAIN job : k # mine[t] => job'[k] = job[k]
         /\ job'[mine[t]].in = job[mine[t]].in /\ job'[mine[t]].dict = job[mine[t]].dict
         /\ job'[mine[t]].more = job[mine[t]].more
         /\ ~Calc(t) => job'[mine[t]].calc = job[mine[t]].calc
         /\ job'[mine[t]] \in Job
<1>1. mine[t] \in DOMAIN job /\ job[mine[t]] \in Job
  BY ControlParts, Zenon DEF ListInv, JobType, JobStep, SetDictionary, Compress, Calc, Working
<1>2. buf \in [Spaces -> Blocks] /\ sum[t] \in Blocks /\ None \notin Spaces
  BY ThreadFacts, ControlParts, Zenon DEF ThreadType, PoolType
<1>3. CASE SetDictionary(t)
  BY <1>1, <1>2, <1>3 DEF SetDictionary, Job
<1>4. CASE Compress(t)
  BY <1>1, <1>2, <1>4, Zenon DEF Compress, Job
<1>5. CASE Calc(t)
  BY <1>1, <1>2, <1>5 DEF Calc, Job
<1> QED BY <1>1, <1>3, <1>4, <1>5, Zenon DEF JobStep

\* The buffer that get_space returns.
LEMMA GotSpace ==
  ASSUME ControlInv, GetNew \/ GetUse
  PROVE  \E s \in Spaces : /\ ReadInto(s) /\ mpc \in {"first", "more"}
                           /\ use' = [use EXCEPT ![s] = 1]
                           /\ GetNew => s = InBufs - limit + 1
                           /\ ~GetNew => s = Head(have)
<1>1. CASE GetNew
  <2>1. InBufs - limit + 1 \in Spaces
    BY <1>1, PigzAssumption, ControlParts DEF PoolType, GetNew, Spaces
  <2> QED BY <1>1, <2>1, Zenon DEF GetNew
<1>2. CASE ~GetNew /\ GetUse
  <2>1. have # <<>> /\ have \in Seq(Spaces) /\ mpc \in {"first", "more"}
    BY <1>2, ControlParts, Zenon DEF MainInv, PoolType, GetUse
  <2>2. Head(have) \in Spaces
    BY <2>1
  <2> QED BY <1>2, <2>1, <2>2, Zenon DEF GetUse
<1> QED BY <1>1, <1>2, Zenon

LEMMA MainTypeStep == ASSUME ControlInv, Next PROVE MainType'
<1> USE ControlParts DEF MainType, main
<1>1. CASE \E t \in Threads : Dropping(t)
  BY <1>1, DroppingKeeps, Zenon
<1>2. CASE GetNew \/ GetUse
  <2>1. PICK s \in Spaces : ReadInto(s)
    BY <1>2, GotSpace, Zenon
  <2>2. UNCHANGED <<stream, seq, dict, cthreads>>
    BY <1>2, Zenon DEF GetNew, GetUse
  <2> QED BY <2>1, <2>2 DEF ReadInto
<1>3. CASE GetHead \/ JoinAll \/ FreePools \/ Launch \/ Finish
  BY <1>3 DEF GetHead, JoinAll, FreePools, Launch, Finish
<1>4. CASE NewJob
  BY <1>4, Zenon DEF NewJob
<1>5. CASE Enqueue
  <2>1. UNCHANGED <<stream, read, next, dict>> /\ mpc' \in {"more", "join"}
        /\ seq' \in {seq, seq + 1} /\ curr' \in {curr, next}
    BY <1>5, Zenon DEF Enqueue
  <2>2. cthreads' = cthreads \/ (cthreads < Procs /\ cthreads' = cthreads + 1)
    BY <1>5, Zenon DEF Enqueue
  <2> QED BY <2>1, <2>2, PigzAssumption
<1>6. CASE Join
  <2>1. stream <= Len(Inputs) /\ Len(Inputs) \in Nat
    BY <1>6, PigzAssumption DEF Join, MainInv, Running
  <2> QED BY <1>6, <2>1 DEF Join
<1>7. CASE \E t \in Compressors : TakeJob(t) \/ Leave(t) \/ SetDictionary(t) \/ Compress(t)
                                   \/ InsertWrite(t) \/ Check(t) \/ Calc(t)
  BY <1>7 DEF TakeJob, Leave, SetDictionary, Compress, InsertWrite, Check, Calc
<1>8. CASE TakeWrite \/ WriteOut \/ Combine \/ Trailer
  BY <1>8, Zenon DEF TakeWrite, WriteOut, Combine, Trailer
<1> QED BY <1>1, <1>2, <1>3, <1>4, <1>5, <1>6, <1>7, <1>8, NextCases, Zenon

LEMMA ListTypeStep == ASSUME ControlInv, Next PROVE ListType'
<1> USE ControlParts DEF ListType
<1>1. CASE \E t \in Threads : Dropping(t)
  BY <1>1, DroppingKeeps, Zenon
<1>2. CASE GetNew \/ GetUse \/ GetHead \/ JoinAll \/ Launch \/ NewJob \/ Join
  BY <1>2, Zenon DEF GetNew, GetUse, GetHead, JoinAll, Launch, NewJob, Join
<1>3. CASE FreePools \/ Finish \/ Enqueue
  <2>1. compress' \in {<<>>, <<Stop>>, Append(compress, seq)} /\ UNCHANGED write
    BY <1>3, Zenon DEF FreePools, Finish, Enqueue
  <2>2. seq \in Nat /\ Stop \in Nat
    BY Zenon DEF MainType, Stop
  <2>3. <<>> \in Seq(Nat) /\ <<Stop>> \in Seq(Nat) /\ Append(compress, seq) \in Seq(Nat)
    BY <2>2
  <2> QED BY <2>1, <2>3, Zenon
<1>4. ASSUME NEW t \in Compressors, TakeJob(t) PROVE ListType'
  BY <1>4 DEF TakeJob
<1>5. ASSUME NEW t \in Compressors, InsertWrite(t) PROVE ListType'
  <2>1. PICK n \in 0..Len(write) : write' = Insert(write, mine[t], n)
    BY <1>5, Zenon DEF InsertWrite
  <2>2. mine[t] \in Nat /\ mine[t] \notin Elems(write) /\ Distinct(write)
    BY <1>5, Zenon DEF InsertWrite, ThreadType, ListInv, StageInv, Begun, Working
  <2>3. write' \in Seq(Nat)
    BY <2>1, <2>2, InsertElems, Zenon
  <2> QED BY <1>5, <2>3, Zenon DEF InsertWrite
<1>6. CASE \E t \in Compressors : Leave(t) \/ SetDictionary(t) \/ Compress(t) \/ Check(t) \/ Calc(t)
  BY <1>6, Zenon DEF Leave, SetDictionary, Compress, Check, Calc
<1>7. CASE TakeWrite
  BY <1>7 DEF TakeWrite
<1>8. CASE WriteOut \/ Combine \/ Trailer
  BY <1>8, Zenon DEF WriteOut, Combine, Trailer
<1> QED BY <1>1, <1>2, <1>3, <1>4, <1>5, <1>6, <1>7, <1>8, NextCases, Zenon

LEMMA JobTypeStep == ASSUME ControlInv, Next PROVE JobType'
<1> USE ControlParts DEF JobType
<1>1. CASE \E t \in Threads : Dropping(t)
  BY <1>1, DroppingKeeps, Zenon
<1>2. CASE GetNew \/ GetUse \/ GetHead \/ JoinAll \/ Launch \/ Enqueue \/ Join \/ FreePools \/ Finish
  <2>1. UNCHANGED job
    BY <1>2, Zenon DEF GetNew, GetUse, GetHead, JoinAll, Launch, Enqueue, Join, FreePools, Finish
  <2> QED BY <2>1, Zenon
<1>3. CASE NewJob
  <2>1. curr \in Spaces /\ dict \in Spaces \cup {None} /\ More \in BOOLEAN /\ seq \in Nat
    BY <1>3, Zenon DEF NewJob, MainInv, MainType, More
  <2>2. Nothing \in Blocks
    BY PigzAssumption DEF Nothing, Blocks
  <2>3. [in |-> curr, dict |-> dict, more |-> More, calc |-> 0,
         data |-> Nothing, from |-> Nothing, check |-> Nothing] \in Job
    BY <2>1, <2>2 DEF Job
  <2> QED BY <1>3, <2>1, <2>3, Zenon DEF NewJob
<1>4. CASE \E t \in Compressors : JobStep(t)
  BY <1>4, JobStepKeeps, Zenon
<1>5. CASE \E t \in Compressors : TakeJob(t) \/ Leave(t) \/ InsertWrite(t) \/ Check(t)
  BY <1>5, Zenon DEF TakeJob, Leave, InsertWrite, Check
<1>6. CASE TakeWrite \/ WriteOut \/ Combine \/ Trailer
  BY <1>6, Zenon DEF TakeWrite, WriteOut, Combine, Trailer
<1> QED BY <1>1, <1>2, <1>3, <1>4, <1>5, <1>6, NextCases, Zenon DEF JobStep

LEMMA ThreadTypeStep == ASSUME ControlInv, Next PROVE ThreadType'
<1> USE ControlParts DEF ThreadType
<1>1. CASE \E t \in Threads : Dropping(t)
  BY <1>1, DroppingKeeps, Zenon DEF comp, wthread
<1>2. CASE GetNew \/ GetUse \/ GetHead \/ JoinAll \/ NewJob \/ FreePools \/ Finish
  <2>1. UNCHANGED <<cpc, mine, sum, wpc, want>>
    BY <1>2, Zenon DEF GetNew, GetUse, GetHead, JoinAll, NewJob, FreePools, Finish, comp, wthread
  <2> QED BY <2>1, Zenon
<1>3. CASE Launch \/ Join
  BY <1>3 DEF Launch, Join, comp
<1>4. CASE Enqueue
  <2>1. UNCHANGED <<mine, sum, wpc, want>>
    BY <1>4, Zenon DEF Enqueue, wthread
  <2>2. cpc' = cpc \/ cpc' = [cpc EXCEPT ![cthreads + 1] = "idle"]
    BY <1>4, Zenon DEF Enqueue
  <2> QED BY <2>1, <2>2, Zenon
<1>5. ASSUME NEW t \in Compressors,
             TakeJob(t) \/ Leave(t) \/ SetDictionary(t) \/ Compress(t) \/ InsertWrite(t) \/ Calc(t)
      PROVE  ThreadType'
  <2>1. UNCHANGED <<sum, wpc, want>> /\ \E c \in {"dict", "exited", "compress", "insert", "check", "idle"} :
          cpc' = [cpc EXCEPT ![t] = c]
    BY <1>5, Zenon DEF TakeJob, Leave, SetDictionary, Compress, InsertWrite, Calc, wthread
  <2>2. mine' = mine \/ (mine' = [mine EXCEPT ![t] = Head(compress)] /\ compress # <<>>)
    BY <1>5, Zenon DEF TakeJob, Leave, SetDictionary, Compress, InsertWrite, Calc
  <2>3. compress # <<>> => Head(compress) \in Nat
    BY DEF ListType
  <2> QED BY <2>1, <2>2, <2>3, Zenon
<1>6. ASSUME NEW t \in Compressors, Check(t) PROVE ThreadType'
  <2>1. job[mine[t]].in \in Spaces
    BY <1>6, Zenon DEF Check, ListInv, Working, JobType, Job
  <2>2. buf[job[mine[t]].in] \in Blocks
    BY <2>1, Zenon DEF PoolType
  <2> QED BY <1>6, <2>2, Zenon DEF Check, wthread
<1>7. CASE TakeWrite \/ WriteOut \/ Trailer
  BY <1>7, Zenon DEF TakeWrite, WriteOut, Trailer, comp
<1>8. CASE Combine
  BY <1>8 DEF Combine, comp
<1> QED BY <1>1, <1>2, <1>3, <1>4, <1>5, <1>6, <1>7, <1>8, NextCases, Zenon

LEMMA PoolTypeStep == ASSUME ControlInv, Next PROVE PoolType'
<1> USE ControlParts DEF PoolType
<1>1. ASSUME NEW t \in Threads, Dropping(t) PROVE PoolType'
  <2>1. UNCHANGED <<limit, buf, poolLock>>
    BY <1>1, DroppingKeeps, Zenon
  <2>2. have' \in Seq(Spaces)
    <3>1. CASE DropPush(t)
      <4>1. drop[t].space \in Spaces
        BY <3>1, Zenon DEF DropPush, DropInv, LockType
      <4> QED BY <3>1, <4>1 DEF DropPush
    <3>2. CASE ~DropPush(t)
      BY <1>1, <3>2, Zenon DEF Dropping, DropPossess, DropTwist
    <3> QED BY <3>1, <3>2, Zenon
  <2> QED BY <2>1, <2>2, Zenon
<1>2. CASE GetNew \/ GetUse
  <2>1. PICK s \in Spaces : ReadInto(s) /\ mpc \in {"first", "more"}
    BY <1>2, GotSpace, Zenon
  <2>2. stream \in 0..Len(Inputs)
    BY <2>1, PigzAssumption DEF MainType, MainInv, Running
  <2>3. <<stream, IF read < Inputs[stream] THEN read + 1 ELSE 0>> \in Blocks
    <3>1. (IF read < Inputs[stream] THEN read + 1 ELSE 0) \in Nat
      BY DEF MainType
    <3> QED BY <2>2, <3>1, Zenon DEF Blocks
  <2>4. buf' \in [Spaces -> Blocks]
    BY <2>1, <2>3, Zenon DEF ReadInto
  <2>5. limit' \in 0..InBufs
    BY <1>2, PigzAssumption DEF GetNew, GetUse
  <2>6. /\ have' = have \/ (have' = Tail(have) /\ have # <<>>)
        /\ poolLock' \in {Main, Nobody}
    BY <1>2, Zenon DEF GetNew, GetUse, MainInv
  <2>7. have # <<>> => Tail(have) \in Seq(Spaces)
    OBVIOUS
  <2>8. have' \in Seq(Spaces)
    BY <2>6, <2>7, Zenon
  <2> QED BY <2>4, <2>5, <2>6, <2>8, Zenon
<1>3. CASE GetHead \/ FreePools
  <2>1. /\ have' = have \/ have' = <<>>
        /\ poolLock' \in {poolLock, Main} /\ UNCHANGED <<limit, buf>>
    BY <1>3, Zenon DEF GetHead, FreePools
  <2>2. <<>> \in Seq(Spaces)
    OBVIOUS
  <2> QED BY <2>1, <2>2, Zenon
<1>4. CASE JoinAll \/ NewJob \/ Finish \/ Launch \/ Join \/ Enqueue
  <2>1. UNCHANGED <<limit, have, buf, poolLock>>
    BY <1>4, Zenon DEF JoinAll, NewJob, Finish, Launch, Join, Enqueue, pool
  <2> QED BY <2>1, Zenon
<1>5. CASE \E t \in Compressors : TakeJob(t) \/ Leave(t) \/ SetDictionary(t) \/ Compress(t)
                                   \/ InsertWrite(t) \/ Check(t) \/ Calc(t)
  <2>1. UNCHANGED <<limit, have, buf, poolLock>>
    BY <1>5, Zenon DEF TakeJob, Leave, SetDictionary, Compress, InsertWrite, Check, Calc, pool
  <2> QED BY <2>1, Zenon
<1>6. CASE TakeWrite \/ WriteOut \/ Combine \/ Trailer
  BY <1>6, Zenon DEF TakeWrite, WriteOut, Combine, Trailer, pool
<1> QED BY <1>1, <1>2, <1>3, <1>4, <1>5, <1>6, NextCases, Zenon

LEMMA DropTyped ==
  ASSUME LockType, NEW t \in Threads, NEW s \in Spaces, Drop(t, s)
  PROVE  drop' \in [Threads -> [space : Spaces \cup {None}, step : {"no", "possess", "push", "twist"}]]
BY Zenon DEF LockType, Drop

\* The space that a step begins to drop.
LEMMA DroppedSpace ==
  ASSUME ControlInv
  PROVE  /\ \A t \in Compressors : cpc[t] \in Working =>
              job[mine[t]].in \in Spaces /\ job[mine[t]].dict \in Spaces \cup {None}
         /\ wpc \in {"write", "calc"} => job[want].in \in Spaces
         /\ \A k \in DOMAIN job : job[k].in \in Spaces
BY ControlParts, Zenon DEF JobType, ListInv, Job

LEMMA LockTypeStep == ASSUME ControlInv, Next PROVE LockType'
<1> USE DEF LockType
<1>0. LockType
  BY ControlParts, Zenon
<1>1. ASSUME NEW t \in Threads, Dropping(t) PROVE LockType'
  <2>1. CASE DropPossess(t)
    BY <1>0, <2>1, Zenon DEF DropPossess
  <2>2. CASE DropPush(t)
    BY <1>0, <2>2, Zenon DEF DropPush
  <2>3. CASE DropTwist(t)
    BY <1>0, <2>3, Zenon DEF DropTwist, NoDrop
  <2> QED BY <1>1, <2>1, <2>2, <2>3, Zenon DEF Dropping
<1>2. CASE GetNew \/ GetUse \/ GetHead \/ JoinAll \/ NewJob \/ FreePools \/ Finish \/ Launch \/ Join
  <2>1. UNCHANGED <<useLock, drop>>
    BY <1>2, Zenon DEF GetNew, GetUse, GetHead, JoinAll, NewJob, FreePools, Finish, Launch, Join, pool
  <2> QED BY <1>0, <2>1, Zenon
<1>3. CASE Enqueue
  <2>1. next \in Spaces
    BY <1>3, ControlParts, Zenon DEF Enqueue, MainInv
  <2>2. UNCHANGED useLock /\ (UNCHANGED drop \/ Drop(Main, next))
    BY <1>3, Zenon DEF Enqueue
  <2> QED BY <1>0, <2>1, <2>2, DropTyped, ThreadFacts, Zenon
<1>4. ASSUME NEW t \in Compressors, SetDictionary(t) PROVE LockType'
  <2>1. UNCHANGED useLock /\ (UNCHANGED drop \/ (job[mine[t]].dict # None /\ Drop(t, job[mine[t]].dict)))
    BY <1>4, Zenon DEF SetDictionary
  <2>2. job[mine[t]].dict \in Spaces \cup {None}
    BY <1>4, DroppedSpace, Zenon DEF SetDictionary, Working
  <2> QED BY <1>0, <2>1, <2>2, DropTyped, ThreadFacts, Zenon
<1>5. ASSUME NEW t \in Compressors, Check(t) PROVE LockType'
  <2>1. UNCHANGED useLock /\ Drop(t, job[mine[t]].in)
    BY <1>5, Zenon DEF Check
  <2>2. job[mine[t]].in \in Spaces
    BY <1>5, DroppedSpace, Zenon DEF Check, Working
  <2> QED BY <1>0, <2>1, <2>2, DropTyped, ThreadFacts, Zenon
<1>6. CASE TakeWrite
  <2>1. UNCHANGED useLock /\ Drop(Writer, job[want].in) /\ want \in Elems(write)
    BY <1>6, TailElems, ControlParts, Zenon DEF TakeWrite, ListType, ListInv
  <2>2. job[want].in \in Spaces
    BY <2>1, DroppedSpace, ControlParts, Zenon DEF ListInv
  <2> QED BY <1>0, <2>1, <2>2, DropTyped, ThreadFacts, Zenon
<1>7. CASE \E t \in Compressors : TakeJob(t) \/ Leave(t) \/ Compress(t) \/ InsertWrite(t) \/ Calc(t)
  <2>1. UNCHANGED <<useLock, drop>>
    BY <1>7, Zenon DEF TakeJob, Leave, Compress, InsertWrite, Calc, pool
  <2> QED BY <1>0, <2>1, Zenon
<1>8. CASE WriteOut \/ Combine \/ Trailer
  BY <1>0, <1>8, Zenon DEF WriteOut, Combine, Trailer, pool
<1> QED BY <1>1, <1>2, <1>3, <1>4, <1>5, <1>6, <1>7, <1>8, NextCases, Zenon

LEMMA ResultTypeStep == ASSUME ControlInv, Next PROVE ResultType'
<1> USE DEF ResultType
<1>0. ResultType
  BY ControlParts, Zenon
<1>1. CASE \E t \in Threads : Dropping(t)
  BY <1>0, <1>1, DroppingKeeps, Zenon DEF result
<1>2. CASE GetNew \/ GetUse \/ GetHead \/ JoinAll \/ NewJob \/ FreePools \/ Finish \/ Join \/ Enqueue
  <2>1. UNCHANGED <<output, check>>
    BY <1>2, Zenon DEF GetNew, GetUse, GetHead, JoinAll, NewJob, FreePools, Finish, Enqueue, Join, result
  <2> QED BY <1>0, <2>1, Zenon
<1>3. CASE Launch
  BY <1>3 DEF Launch
<1>4. CASE \E t \in Compressors : TakeJob(t) \/ Leave(t) \/ SetDictionary(t) \/ Compress(t)
                                   \/ InsertWrite(t) \/ Check(t) \/ Calc(t)
  <2>1. UNCHANGED <<output, check>>
    BY <1>4, Zenon DEF TakeJob, Leave, SetDictionary, Compress, InsertWrite, Check, Calc, result
  <2> QED BY <1>0, <2>1, Zenon
<1>5. CASE TakeWrite \/ Trailer
  BY <1>0, <1>5, Zenon DEF TakeWrite, Trailer, result
<1>6. ASSUME WriteOut \/ Combine PROVE job[want] \in Job
  BY <1>6, ControlParts, Zenon DEF WriteOut, Combine, JobType, ListInv
<1>7. CASE WriteOut
  <2>1. [data |-> job[want].data, from |-> job[want].from] \in [data : Blocks, from : Blocks]
    BY <1>6, <1>7, Zenon DEF Job
  <2> QED BY <1>0, <1>7, <2>1 DEF WriteOut
<1>8. CASE Combine
  <2>1. job[want].check \in Blocks
    BY <1>6, <1>8, Zenon DEF Job
  <2> QED BY <1>0, <1>8, <2>1 DEF Combine
<1> QED BY <1>1, <1>2, <1>3, <1>4, <1>5, <1>7, <1>8, NextCases, Zenon

LEMMA MainInvStep == ASSUME ControlInv, Next PROVE MainInv'
<1>0. /\ MainInv /\ MainType /\ ThreadType /\ cthreads \in Nat /\ Main # Nobody
      /\ Len(Inputs) \in Nat /\ Compressors \subseteq Nat
  BY PigzAssumption, ThreadFacts, ControlParts DEF MainType
<1> USE DEF MainInv, Running
<1>1. ASSUME NEW t \in Threads, Dropping(t) PROVE MainInv'
  <2>1. UNCHANGED <<main, comp, wthread, poolLock>>
    BY <1>1, DroppingKeeps, Zenon
  <2>2. poolLock = Main => have' = have
    BY <1>0, <1>1, Zenon DEF Dropping, DropPossess, DropPush, DropTwist
  <2> QED BY <1>0, <2>1, <2>2, Zenon DEF main, comp, wthread
<1>2. CASE GetNew \/ GetUse
  <2>1. PICK s \in Spaces : ReadInto(s) /\ mpc \in {"first", "more"}
    BY <1>2, GotSpace, Zenon
  <2>2. UNCHANGED <<stream, dict, cthreads, cpc, wpc>> /\ poolLock' = Nobody
    BY <1>2, Zenon DEF GetNew, GetUse, comp, wthread
  <2> QED BY <1>0, <2>1, <2>2, Zenon DEF ReadInto
<1>3. CASE GetHead
  BY <1>0, <1>3, Zenon DEF GetHead, main, comp, wthread
<1>4. CASE Launch
  BY <1>0, <1>4, Zenon DEF Launch, comp, pool
<1>5. CASE NewJob
  BY <1>0, <1>5, Zenon DEF NewJob, comp, wthread
<1>6. CASE Enqueue
  <2>1. /\ mpc = "enqueue" /\ mpc' \in {"more", "join"} /\ UNCHANGED <<stream, next, wpc, poolLock>>
        /\ mpc' = "more" => curr' = next
    BY <1>6, Zenon DEF Enqueue, wthread
  <2>2. \/ UNCHANGED <<cthreads, cpc>>
        \/ cthreads' = cthreads + 1 /\ cpc' = [cpc EXCEPT ![cthreads + 1] = "idle"]
    BY <1>6, Zenon DEF Enqueue
  <2>3. \A t \in Compressors : t > cthreads' => cpc'[t] = "none"
    BY <1>0, <2>2 DEF ThreadType
  <2> QED BY <1>0, <2>1, <2>3, Zenon
<1>7. CASE Join
  BY <1>0, <1>7 DEF Join, MainType, comp, pool
<1>8. CASE Finish
  BY <1>0, <1>8, Zenon DEF Finish, comp, wthread, pool
<1>9. CASE JoinAll
  <2>1. \A t \in Compressors : cpc[t] \in {"none", "exited"}
    <3> SUFFICES ASSUME NEW t \in Compressors, t <= cthreads PROVE cpc[t] = "exited"
      BY <1>0
    <3> QED BY <1>0, <1>9 DEF JoinAll, Compressors
  <2> QED BY <1>0, <1>9, <2>1, Zenon DEF JoinAll, comp, wthread, pool
<1>10. CASE FreePools
  BY <1>0, <1>10, Zenon DEF FreePools, comp, wthread
<1>11. ASSUME NEW t \in Compressors,
              \/ TakeJob(t) \/ Leave(t) \/ SetDictionary(t) \/ Compress(t) \/ InsertWrite(t)
              \/ Check(t) \/ Calc(t)
       PROVE  MainInv'
  <2>1. UNCHANGED <<main, wthread, poolLock, have>>
    BY <1>11, Zenon DEF TakeJob, Leave, SetDictionary, Compress, InsertWrite, Check, Calc, pool
  <2>2. cpc[t] \notin {"none", "exited"} /\ \E c : cpc' = [cpc EXCEPT ![t] = c]
    BY <1>11, Zenon DEF TakeJob, Leave, SetDictionary, Compress, InsertWrite, Check, Calc
  <2>3. t <= cthreads /\ \A u \in Compressors : u # t => cpc'[u] = cpc[u]
    BY <1>0, <2>2 DEF ThreadType
  <2> QED BY <1>0, <2>1, <2>2, <2>3, Zenon DEF main, wthread
<1>12. CASE TakeWrite \/ WriteOut
  BY <1>0, <1>12, Zenon DEF TakeWrite, WriteOut, main, comp, pool
<1>13. CASE Combine
  <2>1. want \in DOMAIN job /\ (~job[want].more => mpc = "join")
    BY <1>13, ControlParts, Zenon DEF Combine, JobInv, ListInv, StageInv, Fresh, AtWriter
  <2> QED BY <1>0, <1>13, <2>1, Zenon DEF Combine, main, comp, pool
<1>14. CASE Trailer
  BY <1>0, <1>14, Zenon DEF Trailer, main, comp, pool
<1> QED BY <1>1, <1>2, <1>3, <1>4, <1>5, <1>6, <1>7, <1>8, <1>9, <1>10, <1>11, <1>12, <1>13, <1>14,
           NextCases, Zenon

LEMMA JobInvStep == ASSUME ControlInv, Next PROVE JobInv'
<1>0. /\ JobInv /\ MainInv /\ want \in Nat /\ seq \in Nat \ {0} /\ DOMAIN job \subseteq Nat
      /\ \A k \in DOMAIN job : job[k].more \in BOOLEAN
  BY ControlParts, Zenon DEF MainType, ThreadType, JobType, Job
<1> USE DEF JobInv, Running
<1>1. CASE \E t \in Threads : Dropping(t)
  BY <1>0, <1>1, DroppingKeeps, Zenon DEF main, wthread
<1>2. CASE GetNew \/ GetUse
  <2>1. PICK s \in Spaces : ReadInto(s) /\ mpc \in {"first", "more"}
    BY <1>2, GotSpace, Zenon
  <2>2. UNCHANGED <<seq, job, wpc, want>>
    BY <1>2, Zenon DEF GetNew, GetUse, wthread
  <2> QED BY <1>0, <2>1, <2>2, Zenon DEF ReadInto
<1>3. CASE GetHead
  BY <1>0, <1>3, Zenon DEF GetHead, main, wthread
<1>4. CASE Launch
  BY <1>0, <1>4 DEF Launch, MainInv
<1>5. CASE NewJob
  <2>1. /\ mpc = "job" /\ mpc' = "enqueue" /\ UNCHANGED <<seq, wpc, want>>
        /\ DOMAIN job' = DOMAIN job \cup {seq}
        /\ \A k \in DOMAIN job : k # seq => job'[k] = job[k]
    BY <1>5, Zenon DEF NewJob, wthread
  <2>2. wpc \notin {"none", "trailer", "exited"}
    BY <1>0, <2>1, Zenon DEF MainInv
  <2> QED BY <1>0, <2>1, <2>2
<1>6. CASE Enqueue
  <2>1. /\ mpc = "enqueue" /\ UNCHANGED <<job, wpc, want>>
        /\ \/ job[seq].more /\ mpc' = "more" /\ seq' = seq + 1
           \/ ~job[seq].more /\ mpc' = "join" /\ seq' = seq
    BY <1>6, Zenon DEF Enqueue, wthread
  <2>2. wpc \notin {"none", "trailer", "exited"}
    BY <1>0, <2>1, Zenon DEF MainInv
  <2> QED BY <1>0, <2>1, <2>2
<1>7. CASE Join
  BY <1>0, <1>7, Zenon DEF Join
<1>8. CASE Finish \/ JoinAll \/ FreePools
  <2>1. /\ UNCHANGED <<seq, job, wpc, want>> /\ mpc' \in {"join_all", "free", "done"}
        /\ mpc \in {"finish", "join_all", "free"}
    BY <1>8, Zenon DEF Finish, JoinAll, FreePools, wthread
  <2> QED BY <1>0, <2>1, Zenon DEF MainInv
<1>9. ASSUME NEW t \in Compressors, JobStep(t) PROVE JobInv'
  <2>1. UNCHANGED <<mpc, seq, wpc, want>>
    BY <1>9, Zenon DEF JobStep, SetDictionary, Compress, Calc, main, wthread
  <2>2. DOMAIN job' = DOMAIN job /\ \A k \in DOMAIN job : job'[k].more = job[k].more
    BY <1>9, JobStepKeeps, Zenon
  <2> QED BY <1>0, <2>1, <2>2, Zenon
<1>10. CASE \E t \in Compressors : TakeJob(t) \/ Leave(t) \/ InsertWrite(t) \/ Check(t)
  <2>1. UNCHANGED <<main, job, wthread>>
    BY <1>10, Zenon DEF TakeJob, Leave, InsertWrite, Check
  <2> QED BY <1>0, <2>1, Zenon DEF main, wthread
<1>11. CASE TakeWrite \/ WriteOut
  BY <1>0, <1>11, Zenon DEF TakeWrite, WriteOut, main
<1>12. CASE Combine
  <2>1. want \in DOMAIN job /\ (want = seq => mpc # "enqueue")
    BY <1>12, ControlParts, Zenon DEF Combine, ListInv, StageInv, Fresh, AtWriter
  <2>2. /\ DOMAIN job' = DOMAIN job \ {want} /\ \A k \in DOMAIN job' : job'[k] = job[k]
        /\ UNCHANGED <<mpc, seq>>
        /\ \/ job[want].more /\ wpc' = "take" /\ want' = want + 1
           \/ ~job[want].more /\ wpc' = "trailer" /\ want' = want
    BY <1>12, Zenon DEF Combine, main
  <2>3. CASE job[want].more
    BY <1>0, <2>1, <2>2, <2>3
  <2>4. CASE ~job[want].more
    BY <1>0, <2>1, <2>2, <2>4
  <2> QED BY <2>3, <2>4, Zenon
<1>13. CASE Trailer
  BY <1>0, <1>13, Zenon DEF Trailer, main
<1> QED BY <1>1, <1>2, <1>3, <1>4, <1>5, <1>6, <1>7, <1>8, <1>9, <1>10, <1>11, <1>12, <1>13,
           NextCases, Zenon DEF JobStep

LEMMA ListInvStep == ASSUME ControlInv, Next PROVE ListInv'
<1>0. /\ ListInv /\ StageInv /\ JobInv /\ ListType /\ ThreadType /\ want \in Nat /\ seq \in Nat \ {0}
      /\ DOMAIN job \subseteq Nat
  BY ControlParts, Zenon DEF MainType, ThreadType, JobType
<1> USE DEF ListInv, Fresh, Working
<1>1. CASE \E t \in Threads : Dropping(t)
  BY <1>0, <1>1, DroppingKeeps, Zenon DEF main, comp, wthread
<1>2. CASE GetNew \/ GetUse \/ GetHead \/ Launch
  <2>1. UNCHANGED <<compress, write, job, cpc, mine>> /\ (mpc' = mpc \/ mpc' \in {"first", "more", "job"})
        /\ mpc \notin {"join_all", "free"} /\ (wpc' = "take" \/ UNCHANGED <<wpc, want>>)
    <3>1. CASE GetNew \/ GetUse
      <4>1. PICK s \in Spaces : ReadInto(s) /\ mpc \in {"first", "more"}
        BY <3>1, GotSpace, Zenon
      <4> QED BY <3>1, <4>1, Zenon DEF GetNew, GetUse, ReadInto, comp, wthread
    <3>2. CASE GetHead
      BY <3>2, Zenon DEF GetHead, main, comp, wthread
    <3>3. CASE Launch
      BY <3>3, Zenon DEF Launch, comp
    <3> QED BY <1>2, <3>1, <3>2, <3>3, Zenon
  <2>2. mpc' # "enqueue"
    BY <1>2, GotSpace, Zenon DEF ReadInto, GetHead, Launch, main
  <2> QED BY <1>0, <2>1, <2>2, Zenon
<1>3. CASE NewJob
  <2>1. /\ mpc = "job" /\ mpc' = "enqueue" /\ UNCHANGED <<compress, write, cpc, mine, seq, wpc, want>>
        /\ DOMAIN job' = DOMAIN job \cup {seq}
        /\ \A k \in DOMAIN job : k # seq => job'[k] = job[k]
        /\ job'[seq].calc = 0
    BY <1>3, Zenon DEF NewJob, comp, wthread
  <2>2. seq \notin DOMAIN job
    BY <1>0, <2>1 DEF JobInv
  <2> QED BY <1>0, <2>1, <2>2, Zenon
<1>4. CASE Enqueue
  <2>1. /\ mpc = "enqueue" /\ UNCHANGED <<job, mine, write, wpc, want>> /\ compress' = Append(compress, seq)
        /\ mpc' \in {"more", "join"}
        /\ \A t \in Compressors : cpc'[t] = cpc[t] \/ cpc'[t] = "idle"
    BY <1>0, <1>4, Zenon DEF Enqueue, wthread, ThreadType
  <2>2. /\ seq \in DOMAIN job /\ seq \notin Elems(compress) /\ seq \in Nat
        /\ compress \in Seq(Nat) /\ Distinct(compress)
    BY <1>0, <2>1, Zenon DEF JobInv, StageInv, ListType
  <2>3. Elems(compress') = Elems(compress) \cup {seq} /\ Distinct(compress')
    <3>1. /\ Elems(Append(compress, seq)) = Elems(compress) \cup {seq}
          /\ Distinct(Append(compress, seq))
      BY <2>2, AppendElems
    <3> QED BY <2>1, <3>1, Zenon
  <2> QED BY <1>0, <2>1, <2>2, <2>3, Zenon
<1>5. CASE Join
  BY <1>0, <1>5, Zenon DEF Join, comp
<1>6. CASE Finish
  BY <1>0, <1>6, OneElem, EmptyList, ControlParts, Zenon DEF Finish, comp, wthread, MainInv, JobInv, Running
<1>7. CASE JoinAll
  BY <1>0, <1>7, Zenon DEF JoinAll, comp, wthread
<1>8. CASE FreePools
  BY <1>0, <1>8, EmptyList, Zenon DEF FreePools, comp, wthread
<1>9. ASSUME NEW t \in Compressors, TakeJob(t) PROVE ListInv'
  <2>1. /\ Head(compress) \in Elems(compress) /\ Elems(compress') = Elems(compress) \ {Head(compress)}
        /\ Distinct(compress')
    BY <1>0, <1>9, TailElems, Zenon DEF TakeJob, ListType
  <2>2. Head(compress) \in DOMAIN job /\ job[Head(compress)].calc = 0
    BY <1>0, <1>9, <2>1, Zenon DEF TakeJob
  <2>3. \A u \in Compressors : u # t => cpc'[u] = cpc[u] /\ mine'[u] = mine[u]
    BY <1>0, <1>9, Zenon DEF TakeJob, ThreadType
  <2>4. mine'[t] = Head(compress) /\ UNCHANGED <<main, write, job, wthread>>
    BY <1>0, <1>9, Zenon DEF TakeJob, ThreadType
  <2> QED BY <1>0, <2>1, <2>2, <2>3, <2>4, Zenon DEF main, wthread
<1>10. ASSUME NEW t \in Compressors, JobStep(t) PROVE ListInv'
  <2>1. UNCHANGED <<mpc, seq, wpc, want, compress, write, mine>>
    BY <1>10, Zenon DEF JobStep, SetDictionary, Compress, Calc, main, wthread
  <2>2. /\ \A u \in Compressors : u # t => cpc'[u] = cpc[u]
        /\ cpc[t] \in Working /\ (Calc(t) => cpc'[t] = "idle")
    BY <1>0, <1>10, Zenon DEF JobStep, SetDictionary, Compress, Calc, ThreadType
  <2>3. /\ DOMAIN job' = DOMAIN job /\ mine[t] \in DOMAIN job
        /\ \A k \in DOMAIN job : k # mine[t] => job'[k] = job[k]
        /\ ~Calc(t) => job'[mine[t]].calc = job[mine[t]].calc
    BY <1>10, JobStepKeeps, Zenon
  <2>4. ~Fresh(mine[t]) /\ mine[t] \notin Elems(compress)
        /\ \A u \in Compressors : u # t /\ cpc[u] \in Working => mine[u] # mine[t]
    BY <1>0, <2>2, <2>3, Zenon DEF StageInv, With
  <2>5. ASSUME NEW u \in Compressors, cpc'[u] \in Working
        PROVE  mine[u] \in DOMAIN job /\ job'[mine[u]].calc = 0
    <3>1. CASE u = t
      <4>1. ~Calc(t)
        BY <2>2, <2>5, <3>1, Zenon
      <4> QED BY <1>0, <2>2, <2>3, <3>1, <4>1, Zenon
    <3>2. CASE u # t
      BY <1>0, <2>2, <2>3, <2>4, <2>5, <3>2, Zenon
    <3> QED BY <3>1, <3>2, Zenon
  <2> QED BY <1>0, <2>1, <2>3, <2>4, <2>5, Zenon
<1>11. ASSUME NEW t \in Compressors, Leave(t) \/ Check(t) PROVE ListInv'
  <2>1. UNCHANGED <<main, job, compress, write, mine, wthread>>
    BY <1>11, Zenon DEF Leave, Check
  <2>2. /\ \A u \in Compressors : u # t => cpc'[u] = cpc[u]
        /\ cpc[t] \in Working \/ cpc'[t] = "exited"
    BY <1>0, <1>11, Zenon DEF Leave, Check, ThreadType
  <2> QED BY <1>0, <2>1, <2>2, Zenon DEF main, wthread
<1>12. ASSUME NEW t \in Compressors, InsertWrite(t) PROVE ListInv'
  <2>1. PICK n \in 0..Len(write) : write' = Insert(write, mine[t], n)
    BY <1>12, Zenon DEF InsertWrite
  <2>2. /\ mine[t] \in Nat /\ mine[t] \in DOMAIN job /\ mine[t] \notin Elems(write)
        /\ write \in Seq(Nat) /\ Distinct(write)
    BY <1>0, <1>12, Zenon DEF InsertWrite, ThreadType, StageInv, Begun, ListType
  <2>3. Elems(write') = Elems(write) \cup {mine[t]} /\ Distinct(write')
    <3>1. /\ Elems(Insert(write, mine[t], n)) = Elems(write) \cup {mine[t]}
          /\ Distinct(Insert(write, mine[t], n))
      BY <2>2, InsertElems
    <3> QED BY <2>1, <3>1, Zenon
  <2>4. /\ UNCHANGED <<main, job, compress, mine, wthread>> /\ cpc[t] \in Working
        /\ \A u \in Compressors : u # t => cpc'[u] = cpc[u]
    BY <1>0, <1>12, Zenon DEF InsertWrite, ThreadType
  <2> QED BY <1>0, <2>2, <2>3, <2>4, Zenon DEF main, wthread
<1>13. CASE TakeWrite
  <2>1. want \in Elems(write) /\ Elems(write') = Elems(write) \ {want} /\ Distinct(write')
    BY <1>0, <1>13, TailElems, Zenon DEF TakeWrite, ListType
  <2>2. UNCHANGED <<main, compress, job, comp, want>>
    BY <1>13, Zenon DEF TakeWrite
  <2> QED BY <1>0, <2>1, <2>2, Zenon DEF main, comp
<1>14. CASE WriteOut \/ Trailer
  BY <1>0, <1>14, Zenon DEF WriteOut, Trailer, main, comp
<1>15. CASE Combine
  <2>1. /\ DOMAIN job' = DOMAIN job \ {want} /\ \A k \in DOMAIN job' : job'[k] = job[k]
        /\ UNCHANGED <<main, compress, write, comp>> /\ job[want].calc = 1 /\ wpc = "calc"
        /\ wpc' \in {"take", "trailer"}
    BY <1>15, Zenon DEF Combine
  <2>2. /\ want \in DOMAIN job /\ want \notin Elems(compress) /\ want \notin Elems(write)
        /\ \A t \in Compressors : cpc[t] \in Working => mine[t] # want
    BY <1>0, <2>1 DEF StageInv, AtWriter
  <2> QED BY <1>0, <2>1, <2>2, Zenon DEF main, comp
<1> QED BY <1>1, <1>2, <1>3, <1>4, <1>5, <1>6, <1>7, <1>8, <1>9, <1>10, <1>11, <1>12, <1>13, <1>14,
           <1>15, NextCases, Zenon DEF JobStep

LEMMA StageInvStep == ASSUME ControlInv, Next PROVE StageInv'
<1>0. /\ ListInv /\ StageInv /\ JobInv /\ MainInv /\ ListType /\ ThreadType /\ want \in Nat
      /\ seq \in Nat \ {0} /\ DOMAIN job \subseteq Nat
  BY ControlParts, Zenon DEF MainType, ThreadType, JobType
<1> USE DEF StageInv, Fresh, AtWriter, With, Begun, Working
<1>1. CASE \E t \in Threads : Dropping(t)
  BY <1>0, <1>1, DroppingKeeps, Zenon DEF main, comp, wthread
<1>2. CASE GetNew \/ GetUse \/ GetHead
  <2>1. UNCHANGED <<compress, write, job, cpc, mine, wpc, want, seq>>
    BY <1>2, Zenon DEF GetNew, GetUse, GetHead, main, comp, wthread
  <2>2. mpc' # "enqueue"
    BY <1>2, GotSpace, Zenon DEF ReadInto, GetHead, main
  <2> QED BY <1>0, <2>1, <2>2, Zenon
<1>3. CASE Launch \/ Join \/ Finish \/ JoinAll \/ FreePools
  <2>1. DOMAIN job = {} /\ UNCHANGED <<job, cpc, mine>>
    BY <1>0, <1>3, Zenon DEF Launch, Join, Finish, JoinAll, FreePools, comp, JobInv, MainInv, Running
  <2> QED BY <1>0, <2>1, Zenon
<1>4. CASE NewJob
  <2>1. /\ mpc = "job" /\ mpc' = "enqueue" /\ UNCHANGED <<compress, write, cpc, mine, seq, wpc, want>>
        /\ DOMAIN job' = DOMAIN job \cup {seq}
    BY <1>4, Zenon DEF NewJob, comp, wthread
  <2>2. seq \notin DOMAIN job
    BY <1>0, <2>1 DEF JobInv
  <2>3. /\ seq \notin Elems(compress) /\ seq \notin Elems(write) /\ ~AtWriter(seq)
        /\ \A t \in Compressors : ~With(t, seq)
    BY <1>0, <2>1, <2>2, Zenon DEF ListInv
  <2> QED BY <1>0, <2>1, <2>2, <2>3, Zenon
<1>5. CASE Enqueue
  <2>1. /\ mpc = "enqueue" /\ UNCHANGED <<job, mine, write, wpc, want>> /\ compress' = Append(compress, seq)
        /\ mpc' \in {"more", "join"}
        /\ \A t \in Compressors : cpc'[t] = cpc[t] \/ cpc'[t] = "idle"
    BY <1>0, <1>5, Zenon DEF Enqueue, wthread, ThreadType
  <2>2. /\ seq \in DOMAIN job /\ seq \notin Elems(compress) /\ seq \in Nat
        /\ compress \in Seq(Nat) /\ Distinct(compress)
    BY <1>0, <2>1, Zenon DEF JobInv, ListInv, ListType
  <2>3. Elems(Append(compress, seq)) = Elems(compress) \cup {seq}
    BY <2>2, AppendElems
  <2> QED BY <1>0, <2>1, <2>2, <2>3, Zenon
<1>6. ASSUME NEW t \in Compressors, TakeJob(t) PROVE StageInv'
  <2>1. /\ Head(compress) \in Elems(compress) /\ Elems(compress') = Elems(compress) \ {Head(compress)}
    BY <1>0, <1>6, TailElems, Zenon DEF TakeJob, ListType, ListInv
  <2>2. \A u \in Compressors : u # t => cpc'[u] = cpc[u] /\ mine'[u] = mine[u]
    BY <1>0, <1>6, Zenon DEF TakeJob, ThreadType
  <2>3. /\ mine'[t] = Head(compress) /\ cpc'[t] = "dict" /\ UNCHANGED <<mpc, seq, write, job, wpc, want>>
        /\ Head(compress) \in DOMAIN job
    BY <1>0, <1>6, <2>1, Zenon DEF TakeJob, ThreadType, ListInv, main, wthread
  <2>4. /\ Head(compress) \notin Elems(write) /\ ~AtWriter(Head(compress)) /\ ~Fresh(Head(compress))
        /\ \A u \in Compressors : ~With(u, Head(compress))
    BY <1>0, <2>1, <2>3, Zenon
  <2>5. \A u, v \in Compressors :
          cpc'[u] \in Working /\ cpc'[v] \in Working /\ mine'[u] = mine'[v] => u = v
    BY <1>0, <2>2, <2>3, <2>4
  <2>6. ASSUME NEW k \in DOMAIN job'
        PROVE  /\ Fresh(k)' => /\ k \notin Elems(compress') /\ k \notin Elems(write') /\ ~AtWriter(k)'
                               /\ \A u \in Compressors : ~With(u, k)'
               /\ k \in Elems(compress') => /\ k \notin Elems(write') /\ ~AtWriter(k)'
                                            /\ \A u \in Compressors : ~With(u, k)'
    BY <1>0, <2>1, <2>2, <2>3, <2>4, Zenon
  <2>7. ASSUME NEW k \in DOMAIN job'
        PROVE  /\ \A u \in Compressors : Begun(u, k)' => k \notin Elems(write') /\ ~AtWriter(k)'
               /\ k \in Elems(write') => ~AtWriter(k)'
    BY <1>0, <2>2, <2>3, <2>4, Zenon
  <2> QED BY <2>5, <2>6, <2>7, Zenon
<1>7. ASSUME NEW t \in Compressors, JobStep(t) \/ Leave(t) \/ Check(t) PROVE StageInv'
  <2>1. UNCHANGED <<mpc, seq, wpc, want, compress, write, mine>>
    BY <1>7, Zenon DEF JobStep, SetDictionary, Compress, Calc, Leave, Check, main, wthread
  <2>2. DOMAIN job' = DOMAIN job
    BY <1>7, JobStepKeeps, Zenon DEF Leave, Check
  <2>3. /\ \A u \in Compressors : u # t => cpc'[u] = cpc[u]
        /\ cpc'[t] \in Working => cpc[t] \in Working
        /\ cpc'[t] \in {"dict", "compress", "insert"} => cpc[t] \in {"dict", "compress", "insert"}
    BY <1>0, <1>7, Zenon DEF JobStep, SetDictionary, Compress, Calc, Leave, Check, ThreadType
  <2> QED BY <1>0, <2>1, <2>2, <2>3, Zenon
<1>8. ASSUME NEW t \in Compressors, InsertWrite(t) PROVE StageInv'
  <2>1. PICK n \in 0..Len(write) : write' = Insert(write, mine[t], n)
    BY <1>8, Zenon DEF InsertWrite
  <2>2. /\ mine[t] \in Nat /\ mine[t] \in DOMAIN job /\ mine[t] \notin Elems(write)
        /\ write \in Seq(Nat) /\ Distinct(write)
    BY <1>0, <1>8, Zenon DEF InsertWrite, ThreadType, ListInv, ListType
  <2>3. Elems(Insert(write, mine[t], n)) = Elems(write) \cup {mine[t]}
    BY <2>2, InsertElems
  <2>4. /\ UNCHANGED <<mpc, seq, job, compress, mine, wpc, want>> /\ cpc[t] = "insert" /\ cpc'[t] = "check"
        /\ \A u \in Compressors : u # t => cpc'[u] = cpc[u]
    BY <1>0, <1>8, Zenon DEF InsertWrite, ThreadType, main, wthread
  <2>5. Elems(write') = Elems(write) \cup {mine[t]}
    BY <2>1, <2>3, Zenon
  <2>6. /\ ~Fresh(mine[t]) /\ mine[t] \notin Elems(compress) /\ ~AtWriter(mine[t])
        /\ \A u \in Compressors : u # t => ~With(u, mine[t])
    BY <1>0, <2>2, <2>4, Zenon
  <2> QED BY <1>0, <2>4, <2>5, <2>6
<1>9. CASE TakeWrite
  <2>1. want \in Elems(write) /\ Elems(write') = Elems(write) \ {want}
    BY <1>0, <1>9, TailElems, Zenon DEF TakeWrite, ListType, ListInv
  <2>2. UNCHANGED <<mpc, seq, compress, job, cpc, mine, want>>
    BY <1>9, Zenon DEF TakeWrite, main, comp
  <2> QED BY <1>0, <2>1, <2>2, Zenon
<1>10. CASE WriteOut \/ Trailer
  BY <1>0, <1>10, Zenon DEF WriteOut, Trailer, main, comp
<1>11. CASE Combine
  <2>1. /\ DOMAIN job' = DOMAIN job \ {want} /\ UNCHANGED <<mpc, seq, compress, write, cpc, mine>>
        /\ wpc' \in {"take", "trailer"}
    BY <1>11, Zenon DEF Combine, main, comp
  <2> QED BY <1>0, <2>1, Zenon
<1> QED BY <1>1, <1>2, <1>3, <1>4, <1>5, <1>6, <1>7, <1>8, <1>9, <1>10, <1>11, NextCases, Zenon DEF JobStep

LEMMA DropInvStep == ASSUME ControlInv, Next PROVE DropInv'
<1>0. DropInv /\ LockType /\ ThreadType /\ None \notin Spaces
  BY ThreadFacts, ControlParts, Zenon
<1> USE DEF DropInv, Free, NoDrop, LockType
<1>1. ASSUME NEW t \in Threads, Dropping(t) PROVE DropInv'
  <2>1. UNCHANGED <<main, comp, wthread>>
    BY <1>1, DroppingKeeps, Zenon
  <2>2. /\ drop[t].step # "no"
        /\ \A u \in Threads : u # t => drop'[u] = drop[u]
        /\ drop'[t].step = "no" <=> drop'[t].space = None
    BY <1>0, <1>1 DEF Dropping, DropPossess, DropPush, DropTwist
  <2> QED BY <1>0, <2>1, <2>2, ThreadFacts DEF main, comp, wthread
<1>2. CASE GetNew \/ GetUse \/ GetHead \/ JoinAll \/ NewJob \/ FreePools \/ Finish \/ Launch \/ Join
  <2>1. UNCHANGED <<drop, cpc>>
    BY <1>2, Zenon DEF GetNew, GetUse, GetHead, JoinAll, NewJob, FreePools, Finish, Launch, Join, pool,
                       comp
  <2>2. Free(Main)
    BY <1>0, <1>2, ControlParts, Zenon DEF GetNew, GetUse, GetHead, JoinAll, NewJob, FreePools, Finish, Launch, Join, MainInv
  <2>3. wpc' = wpc \/ wpc # "write"
    BY <1>2, ControlParts, Zenon DEF GetNew, GetUse, GetHead, JoinAll, NewJob, FreePools, Finish, Launch, Join, wthread, MainInv, Running
  <2> QED BY <1>0, <2>1, <2>2, <2>3, Zenon
<1>3. CASE Enqueue
  <2>1. /\ next \in Spaces /\ mpc = "enqueue" /\ mpc' \in {"more", "join"} /\ UNCHANGED wpc
        /\ (UNCHANGED drop /\ mpc' = "more") \/ (Drop(Main, next) /\ mpc' = "join")
    BY <1>3, ControlParts, Zenon DEF Enqueue, MainInv, wthread
  <2>2. \A t \in Compressors : cpc'[t] = cpc[t] \/ (cpc[t] = "none" /\ cpc'[t] = "idle")
    BY <1>0, <1>3, ThreadFacts, ControlParts DEF Enqueue, ThreadType, MainInv, MainType
  <2>3. /\ \A u \in Threads : u # Main => drop'[u] = drop[u]
        /\ drop'[Main] = drop[Main] \/ (drop'[Main].step = "possess" /\ drop'[Main].space \in Spaces)
    BY <1>0, <2>1, ThreadFacts DEF Drop
  <2> QED BY <1>0, <2>1, <2>2, <2>3, ThreadFacts
<1>4. ASSUME NEW t \in Compressors, SetDictionary(t) \/ Check(t) PROVE DropInv'
  <2>1. /\ cpc'[t] \in {"compress", "calc"} /\ (\A u \in Compressors : u # t => cpc'[u] = cpc[u])
        /\ UNCHANGED <<main, wthread>> /\ cpc[t] \in {"dict", "check"}
    BY <1>0, <1>4, Zenon DEF SetDictionary, Check, ThreadType
  <2>2. \/ UNCHANGED drop
        \/ \E s \in Spaces : Drop(t, s)
    BY <1>4, <2>1, DroppedSpace, Zenon DEF SetDictionary, Check, Working
  <2>3. /\ \A u \in Threads : u # t => drop'[u] = drop[u]
        /\ drop'[t] = drop[t] \/ (drop'[t].step = "possess" /\ drop'[t].space \in Spaces)
    BY <1>0, <2>2, ThreadFacts DEF Drop
  <2>4. \A u \in Compressors : cpc'[u] \notin {"compress", "calc"} => drop'[u] = drop[u]
    BY <2>1, <2>3, ThreadFacts, Zenon
  <2>5. /\ wpc' = wpc /\ mpc' = mpc /\ drop'[Writer] = drop[Writer] /\ drop'[Main] = drop[Main]
        /\ \A u \in Compressors : u # t => cpc'[u] = cpc[u]
    BY <2>1, <2>3, ThreadFacts, Zenon DEF main, wthread
  <2>6. \A u \in Threads : drop'[u].step = "no" <=> drop'[u].space = None
    BY <1>0, <2>3
  <2> QED BY <1>0, <2>1, <2>4, <2>5, <2>6, Zenon
<1>5. ASSUME NEW t \in Compressors, TakeJob(t) \/ Leave(t) \/ Compress(t) \/ InsertWrite(t) \/ Calc(t)
      PROVE  DropInv'
  <2>1. UNCHANGED <<main, wthread, drop>>
    BY <1>5, Zenon DEF TakeJob, Leave, Compress, InsertWrite, Calc, pool
  <2>2. Free(t) /\ \A u \in Compressors : u # t => cpc'[u] = cpc[u]
    BY <1>0, <1>5, Zenon DEF TakeJob, Leave, Compress, InsertWrite, Calc, ThreadType
  <2> QED BY <1>0, <2>1, <2>2, Zenon DEF main, wthread
<1>6. CASE TakeWrite
  <2>1. UNCHANGED <<main, comp>> /\ Drop(Writer, job[want].in) /\ want \in Elems(write) /\ wpc' = "write"
    BY <1>6, TailElems, ControlParts, Zenon DEF TakeWrite, ListType, ListInv
  <2>2. job[want].in \in Spaces
    BY <2>1, DroppedSpace, ControlParts, Zenon DEF ListInv
  <2>3. /\ \A u \in Threads : u # Writer => drop'[u] = drop[u]
        /\ drop'[Writer].step = "possess" /\ drop'[Writer].space \in Spaces
    BY <1>0, <2>1, <2>2, ThreadFacts, Zenon DEF Drop
  <2> QED BY <1>0, <2>1, <2>3, ThreadFacts, Zenon DEF main, comp
<1>7. CASE WriteOut \/ Combine \/ Trailer
  <2>1. UNCHANGED <<main, comp, drop>> /\ Free(Writer)
    BY <1>0, <1>7, Zenon DEF WriteOut, Combine, Trailer, pool
  <2> QED BY <1>0, <2>1, Zenon DEF main, comp
<1> QED BY <1>1, <1>2, <1>3, <1>4, <1>5, <1>6, <1>7, NextCases, Zenon

LEMMA ControlInit == Init => ControlInv
<1> SUFFICES ASSUME Init PROVE ControlInv
  BY Zenon
<1> USE PigzAssumption, ThreadFacts DEF Init
<1>1. MainType /\ MainInv
  BY DEF MainType, MainInv, Running
<1>2. ListType /\ JobType /\ JobInv
  BY DEF ListType, JobType, JobInv, Running
<1>3. ListInv /\ StageInv
  BY EmptyList DEF ListInv, StageInv, Working
<1>4. DropInv
  BY Zenon DEF DropInv, Free, NoDrop
<1>5. Nothing \in Blocks
  BY DEF Nothing, Blocks
<1>6. ThreadType /\ PoolType
  BY <1>5 DEF ThreadType, PoolType
<1>7. LockType /\ ResultType
  BY DEF LockType, ResultType, NoDrop
<1> QED BY <1>1, <1>2, <1>3, <1>4, <1>6, <1>7, Zenon DEF ControlInv, Types

LEMMA ControlStep == ControlInv /\ [Next]_vars => ControlInv'
<1>1. CASE Next
  BY <1>1, MainTypeStep, ListTypeStep, JobTypeStep, ThreadTypeStep, PoolTypeStep, LockTypeStep,
     ResultTypeStep, MainInvStep, JobInvStep, ListInvStep, StageInvStep, DropInvStep
, Zenon     DEF ControlInv, Types
<1>2. ASSUME ControlInv, UNCHANGED vars PROVE ControlInv'
  <2> USE <1>2 DEF vars, main, comp, wthread, pool, result
  <2>1. MainType' /\ ListType' /\ JobType'
    BY Zenon DEF ControlInv, Types, MainType, ListType, JobType
  <2>2. ThreadType' /\ PoolType' /\ LockType' /\ ResultType'
    BY Zenon DEF ControlInv, Types, ThreadType, PoolType, LockType, ResultType
  <2>3. MainInv' /\ JobInv'
    BY Zenon DEF ControlInv, MainInv, JobInv, Running
  <2>4. ListInv' /\ StageInv'
    BY Zenon DEF ControlInv, ListInv, StageInv, Fresh, AtWriter, With, Begun
  <2>5. DropInv'
    BY Zenon DEF ControlInv, DropInv, Free
  <2> QED BY <2>1, <2>2, <2>3, <2>4, <2>5, Zenon DEF ControlInv, Types
<1> QED BY <1>1, <1>2, Zenon

LEMMA ControlInvariant == Spec => []ControlInv
BY ControlInit, ControlStep, PTL DEF Spec
=============================================================================
