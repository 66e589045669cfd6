-------------------------------- MODULE Pigz --------------------------------
(***************************************************************************)
(* pigz (recovery/pigz/pigz.c, yarn.c), through which archives are packed:   *)
(* parallel_compress reads the input into numbered jobs, compress threads   *)
(* take them in any order, one write thread puts the results in order.      *)
(*                                                                          *)
(* Input buffers are counted.  A buffer is shared by its own job, by the    *)
(* compress thread that still computes the check value while the result is *)
(* being written, and by the next job, whose dictionary it is; it goes back *)
(* to the pool, to be read into again, with the last of them.               *)
(*                                                                          *)
(* A lock of yarn.c is a mutex with a value.  Where a thread holds one lock *)
(* only, possess ... twist is one step; drop_space and get_space take two.  *)
(* Options as the backup uses them: -i and -R off (g.setdict 1, g.rsync 0). *)
(****************************************************************************)
EXTENDS Naturals, Sequences

CONSTANTS
  Procs,      \* compress threads (g.procs)
  InBufs,     \* limit of the input pool (INBUFS, two for each thread and three)
  Inputs      \* how many blocks of input each call may find

Compressors == 1..Procs
Main == 0
Writer == Procs + 1
Threads == 0..(Procs + 1)
Nobody == Procs + 2
Spaces == 1..InBufs

ASSUME PigzAssumption ==
  /\ Procs \in Nat \ {0}
  /\ InBufs \in Nat /\ InBufs >= 3
  /\ Inputs \in Seq(Nat) /\ Inputs # <<>>

\* One stream after another is compressed.  Block k of a stream is <<stream, k>>,
\* and a buffer into which nothing was read <<stream, 0>>.
Blocks == (0..Len(Inputs)) \X Nat
Nothing == <<0, 0>>
None == 0
Stop == 0          \* the job that tells the compress threads to return

VARIABLES
  mpc, stream, read,          \* main: where it is, the stream, its blocks read
  seq, curr, next, dict,      \* main: parallel_compress' variables
  cthreads,                   \* compress threads launched
  compress, write,            \* the two job lists, by sequence number
  job,                        \* the jobs that are allocated
  cpc, mine, sum,             \* compress threads: where, which job, its check value
  wpc, want,                  \* write thread: where, the job it waits for
  limit, have, use, buf,      \* in_pool: buffers not made yet, list; use counts, contents
  poolLock, useLock, drop,    \* who holds which lock, and who is dropping what
  outs,                       \* buffers of out_pool in use
  output, check               \* what the write thread has written, and combined

main == <<mpc, stream, read, seq, curr, next, dict, cthreads>>
comp == <<cpc, mine, sum>>
wthread == <<wpc, want>>
pool == <<limit, have, use, buf, poolLock, useLock, drop>>
result == <<output, check>>
vars == <<main, compress, write, job, comp, wthread, pool, outs, result>>

Job == [in : Spaces, dict : Spaces \cup {None}, more : BOOLEAN, calc : 0..1,
        data : Blocks, from : Blocks, check : Blocks]

TypeOK ==
  /\ mpc \in {"start", "first", "more", "job", "enqueue", "join", "finish", "join_all", "free",
              "done"}
  /\ stream \in 1..(Len(Inputs) + 1) /\ read \in Nat /\ seq \in Nat \ {0}
  /\ {curr, next, dict} \subseteq Spaces \cup {None}
  /\ cthreads \in 0..Procs
  /\ compress \in Seq(Nat) /\ write \in Seq(Nat)
  /\ DOMAIN job \subseteq Nat /\ \A k \in DOMAIN job : job[k] \in Job
  /\ cpc \in [Compressors -> {"none", "idle", "dict", "compress", "insert", "check", "calc",
                              "exited"}]
  /\ mine \in [Compressors -> Nat] /\ sum \in [Compressors -> Blocks]
  /\ wpc \in {"none", "take", "write", "calc", "trailer", "exited"} /\ want \in Nat
  /\ limit \in 0..InBufs /\ have \in Seq(Spaces)
  /\ use \in [Spaces -> Nat] /\ buf \in [Spaces -> Blocks]
  /\ poolLock \in Threads \cup {Nobody}
  /\ useLock \in [Spaces -> Threads \cup {Nobody}]
  /\ drop \in [Threads -> [space : Spaces \cup {None}, step : {"no", "possess", "push", "twist"}]]
  /\ outs \in Nat
  /\ output \in Seq([data : Blocks, from : Blocks]) /\ check \in Seq(Blocks)

NoDrop == [space |-> None, step |-> "no"]

Init ==
  /\ mpc = "start" /\ stream = 1 /\ read = 0 /\ seq = 1
  /\ curr = None /\ next = None /\ dict = None /\ cthreads = 0
  /\ compress = <<>> /\ write = <<>> /\ job = <<>>
  /\ cpc = [t \in Compressors |-> "none"]
  /\ mine = [t \in Compressors |-> 0] /\ sum = [t \in Compressors |-> Nothing]
  /\ wpc = "none" /\ want = 1
  /\ limit = InBufs /\ have = <<>>
  /\ use = [s \in Spaces |-> 0] /\ buf = [s \in Spaces |-> Nothing]
  /\ poolLock = Nobody /\ useLock = [s \in Spaces |-> Nobody]
  /\ drop = [t \in Threads |-> NoDrop]
  /\ outs = 0 /\ output = <<>> /\ check = <<>>
-----------------------------------------------------------------------------
\* drop_space: the use count is locked until the end; the last user puts the buffer
\* back, under the pool's lock, before the count is zero.
Drop(t, s) == drop' = [drop EXCEPT ![t] = [space |-> s, step |-> "possess"]]
Free(t) == drop[t] = NoDrop

DropPossess(t) ==
  LET s == drop[t].space IN
  /\ drop[t].step = "possess" /\ useLock[s] = Nobody
  /\ useLock' = [useLock EXCEPT ![s] = t]
  /\ drop' = [drop EXCEPT ![t].step = IF use[s] = 1 THEN "push" ELSE "twist"]
  /\ UNCHANGED <<main, compress, write, job, comp, wthread, limit, have, use, buf, poolLock,
                 outs, result>>

DropPush(t) ==
  /\ drop[t].step = "push" /\ poolLock = Nobody
  /\ have' = <<drop[t].space>> \o have
  /\ drop' = [drop EXCEPT ![t].step = "twist"]
  /\ UNCHANGED <<main, compress, write, job, comp, wthread, limit, use, buf, poolLock, useLock,
                 outs, result>>

DropTwist(t) ==
  LET s == drop[t].space IN
  /\ drop[t].step = "twist"
  /\ use' = [use EXCEPT ![s] = @ - 1]
  /\ useLock' = [useLock EXCEPT ![s] = Nobody]
  /\ drop' = [drop EXCEPT ![t] = NoDrop]
  /\ UNCHANGED <<main, compress, write, job, comp, wthread, limit, have, buf, poolLock, outs,
                 result>>

\* readn into a buffer the main thread just got.
ReadInto(s) ==
  /\ next' = s
  /\ read' = IF read < Inputs[stream] THEN read + 1 ELSE read
  /\ buf' = [buf EXCEPT ![s] = <<stream, IF read < Inputs[stream] THEN read + 1 ELSE 0>>]
  /\ mpc' = IF mpc = "first" THEN "more" ELSE "job"
  /\ curr' = IF mpc = "first" THEN s ELSE curr

\* Mutant: the limit is not looked at.
GetNewAlways ==
  /\ mpc \in {"first", "more"} /\ poolLock = Nobody /\ have = <<>>
  /\ LET s == InBufs - limit + 1 IN
       /\ use' = [use EXCEPT ![s] = 1]
       /\ ReadInto(s)
  /\ limit' = limit - 1
  /\ UNCHANGED <<stream, seq, dict, cthreads, compress, write, job, comp, wthread, have, poolLock,
                 useLock, drop, outs, result>>

\* get_space of the input pool: a new buffer while the limit allows and none is left ...
GetNew ==
  /\ mpc \in {"first", "more"} /\ poolLock = Nobody /\ have = <<>> /\ limit > 0
  /\ LET s == InBufs - limit + 1 IN
       /\ use' = [use EXCEPT ![s] = 1]
       /\ ReadInto(s)
  /\ limit' = limit - 1
  /\ UNCHANGED <<stream, seq, dict, cthreads, compress, write, job, comp, wthread, have, poolLock,
                 useLock, drop, outs, result>>

\* ... else one from the list, waiting for one if there is none.
GetHead ==
  /\ mpc \in {"first", "more"} /\ poolLock = Nobody /\ have # <<>>
  /\ poolLock' = Main
  /\ UNCHANGED <<main, compress, write, job, comp, wthread, limit, have, use, buf, useLock, drop,
                 outs, result>>

GetUse ==
  /\ poolLock = Main /\ useLock[Head(have)] = Nobody
  /\ have' = Tail(have) /\ poolLock' = Nobody
  /\ use' = [use EXCEPT ![Head(have)] = 1]
  /\ ReadInto(Head(have))
  /\ UNCHANGED <<stream, seq, dict, cthreads, compress, write, job, comp, wthread, limit, useLock,
                 drop, outs, result>>
-----------------------------------------------------------------------------
\* parallel_compress: start the write thread ...
Launch ==
  /\ mpc = "start"
  /\ wpc' = "take" /\ want' = 1
  /\ mpc' = "first" /\ read' = 0 /\ seq' = 1 /\ dict' = None
  /\ output' = <<>> /\ check' = <<>>
  /\ UNCHANGED <<stream, curr, next, cthreads, compress, write, job, comp, pool, outs>>

\* ... make a job of the block, its dictionary the block before, and keep the block
\* to be the next dictionary ...
More == buf[next][2] # 0

\* Mutant: the block is not reserved as a dictionary.
NewJobUnreserved ==
  /\ mpc = "job"
  /\ job' = [k \in DOMAIN job \cup {seq} |->
               IF k # seq THEN job[k]
               ELSE [in |-> curr, dict |-> dict, more |-> More, calc |-> 0,
                     data |-> Nothing, from |-> Nothing, check |-> Nothing]]
  /\ IF More THEN /\ useLock[curr] = Nobody
                  /\ dict' = curr /\ UNCHANGED use
             ELSE UNCHANGED <<use, dict>>
  /\ mpc' = "enqueue"
  /\ UNCHANGED <<stream, read, seq, curr, next, cthreads, compress, write, comp, wthread, limit,
                 have, buf, poolLock, useLock, drop, outs, result>>

NewJob ==
  /\ mpc = "job"
  /\ job' = [k \in DOMAIN job \cup {seq} |->
               IF k # seq THEN job[k]
               ELSE [in |-> curr, dict |-> dict, more |-> More, calc |-> 0,
                     data |-> Nothing, from |-> Nothing, check |-> Nothing]]
  /\ IF More THEN /\ useLock[curr] = Nobody
                  /\ use' = [use EXCEPT ![curr] = @ + 1]
                  /\ dict' = curr
             ELSE UNCHANGED <<use, dict>>
  /\ mpc' = "enqueue"
  /\ UNCHANGED <<stream, read, seq, curr, next, cthreads, compress, write, comp, wthread, limit,
                 have, buf, poolLock, useLock, drop, outs, result>>

\* ... launch a compress thread if there are jobs for it, and hand the job over.
Enqueue ==
  /\ mpc = "enqueue"
  /\ IF cthreads < seq /\ cthreads < Procs
     THEN cthreads' = cthreads + 1 /\ cpc' = [cpc EXCEPT ![cthreads + 1] = "idle"]
     ELSE UNCHANGED <<cthreads, cpc>>
  /\ compress' = Append(compress, seq)
  /\ IF job[seq].more
     THEN mpc' = "more" /\ curr' = next /\ seq' = seq + 1 /\ UNCHANGED drop
     ELSE mpc' = "join" /\ Drop(Main, next) /\ UNCHANGED <<curr, seq>>
  /\ UNCHANGED <<stream, read, next, dict, write, job, mine, sum, wthread, limit, have, use, buf,
                 poolLock, useLock, outs, result>>

Join ==
  /\ mpc = "join" /\ Free(Main) /\ wpc = "exited"
  /\ stream' = stream + 1 /\ wpc' = "none"
  /\ mpc' = IF stream < Len(Inputs) THEN "start" ELSE "finish"
  /\ UNCHANGED <<read, seq, curr, next, dict, cthreads, compress, write, job, comp, want, pool,
                 outs, result>>

\* finish_jobs: the list becomes the job that tells the threads to return.
Finish ==
  /\ mpc = "finish"
  /\ compress' = <<Stop>> /\ mpc' = "join_all"
  /\ UNCHANGED <<stream, read, seq, curr, next, dict, cthreads, write, job, comp, wthread, pool,
                 outs, result>>

JoinAll ==
  /\ mpc = "join_all" /\ \A t \in 1..cthreads : cpc[t] = "exited"
  /\ mpc' = "free"
  /\ UNCHANGED <<stream, read, seq, curr, next, dict, cthreads, compress, write, job, comp,
                 wthread, pool, outs, result>>

\* free_pool, and the lists are gone.
FreePools ==
  /\ mpc = "free" /\ mpc' = "done"
  /\ have' = <<>> /\ compress' = <<>>
  /\ UNCHANGED <<stream, read, seq, curr, next, dict, cthreads, write, job, comp, wthread, limit,
                 use, buf, poolLock, useLock, drop, outs, result>>
-----------------------------------------------------------------------------
\* compress_thread: take the first job, or leave the one that says to return.
TakeJob(t) ==
  /\ cpc[t] = "idle" /\ Free(t) /\ compress # <<>> /\ Head(compress) # Stop
  /\ mine' = [mine EXCEPT ![t] = Head(compress)]
  /\ compress' = Tail(compress)
  /\ cpc' = [cpc EXCEPT ![t] = "dict"]
  /\ UNCHANGED <<main, write, job, sum, wthread, pool, outs, result>>

\* Mutant: the job that says to return is taken like any other.
LeaveTaking(t) ==
  /\ cpc[t] = "idle" /\ Free(t) /\ compress # <<>> /\ Head(compress) = Stop
  /\ compress' = Tail(compress)
  /\ cpc' = [cpc EXCEPT ![t] = "exited"]
  /\ UNCHANGED <<main, write, job, mine, sum, wthread, pool, outs, result>>

Leave(t) ==
  /\ cpc[t] = "idle" /\ Free(t) /\ compress # <<>> /\ Head(compress) = Stop
  /\ cpc' = [cpc EXCEPT ![t] = "exited"]
  /\ UNCHANGED <<main, compress, write, job, mine, sum, wthread, pool, outs, result>>

\* Set the dictionary and let go of it.
SetDictionary(t) ==
  LET d == job[mine[t]].dict IN
  /\ cpc[t] = "dict"
  /\ IF d = None THEN UNCHANGED <<job, drop>>
                 ELSE job' = [job EXCEPT ![mine[t]].from = buf[d]] /\ Drop(t, d)
  /\ cpc' = [cpc EXCEPT ![t] = "compress"]
  /\ UNCHANGED <<main, compress, write, mine, sum, wthread, limit, have, use, buf, poolLock,
                 useLock, outs, result>>

\* Mutant: the input is not reserved for the check.
CompressUnreserved(t) ==
  LET s == job[mine[t]].in IN
  /\ cpc[t] = "compress" /\ Free(t) /\ useLock[s] = Nobody
  /\ outs' = outs + 1
  /\ job' = [job EXCEPT ![mine[t]].data = buf[s]]
  /\ cpc' = [cpc EXCEPT ![t] = "insert"]
  /\ UNCHANGED <<main, compress, write, mine, sum, wthread, limit, have, use, buf, poolLock, useLock,
                 drop, result>>

\* Compress into a buffer of the output pool, and reserve the input for the check.
Compress(t) ==
  LET s == job[mine[t]].in IN
  /\ cpc[t] = "compress" /\ Free(t) /\ useLock[s] = Nobody
  /\ outs' = outs + 1
  /\ job' = [job EXCEPT ![mine[t]].data = buf[s]]
  /\ use' = [use EXCEPT ![s] = @ + 1]
  /\ cpc' = [cpc EXCEPT ![t] = "insert"]
  /\ UNCHANGED <<main, compress, write, mine, sum, wthread, limit, have, buf, poolLock, useLock,
                 drop, result>>

\* Put the job among the write jobs, before the first with a higher number.
Insert(list, k, n) == SubSeq(list, 1, n) \o <<k>> \o SubSeq(list, n + 1, Len(list))

InsertWrite(t) ==
  /\ cpc[t] = "insert"
  /\ \E n \in 0..Len(write) :
       /\ \A i \in 1..n : write[i] <= mine[t]
       /\ n < Len(write) => write[n + 1] > mine[t]
       /\ write' = Insert(write, mine[t], n)
  /\ cpc' = [cpc EXCEPT ![t] = "check"]
  /\ UNCHANGED <<main, compress, job, mine, sum, wthread, pool, outs, result>>

\* Compute the check value while the result is being written, let go of the input ...
Check(t) ==
  LET s == job[mine[t]].in IN
  /\ cpc[t] = "check"
  /\ sum' = [sum EXCEPT ![t] = buf[s]]
  /\ Drop(t, s)
  /\ cpc' = [cpc EXCEPT ![t] = "calc"]
  /\ UNCHANGED <<main, compress, write, job, mine, wthread, limit, have, use, buf, poolLock,
                 useLock, outs, result>>

\* ... and tell the write thread.
Calc(t) ==
  /\ cpc[t] = "calc" /\ Free(t)
  /\ job' = [job EXCEPT ![mine[t]].check = sum[t], ![mine[t]].calc = 1]
  /\ cpc' = [cpc EXCEPT ![t] = "idle"]
  /\ UNCHANGED <<main, compress, write, mine, sum, wthread, pool, outs, result>>
-----------------------------------------------------------------------------
\* Mutant: the first job of the list is taken whatever its number.
TakeAnyWrite ==
  /\ wpc = "take" /\ write # <<>>
  /\ write' = Tail(write)
  /\ want' = Head(write)
  /\ Drop(Writer, job[want'].in)
  /\ wpc' = "write"
  /\ UNCHANGED <<main, compress, job, comp, limit, have, use, buf, poolLock, useLock, outs,
                 result>>

\* write_thread: wait for the next job in order and let go of its input ...
TakeWrite ==
  /\ wpc = "take" /\ write # <<>> /\ Head(write) = want
  /\ write' = Tail(write)
  /\ Drop(Writer, job[want].in)
  /\ wpc' = "write"
  /\ UNCHANGED <<main, compress, job, comp, want, limit, have, use, buf, poolLock, useLock, outs,
                 result>>

\* ... write its result ...
WriteOut ==
  /\ wpc = "write" /\ Free(Writer)
  /\ output' = Append(output, [data |-> job[want].data, from |-> job[want].from])
  /\ outs' = outs - 1
  /\ wpc' = "calc"
  /\ UNCHANGED <<main, compress, write, job, comp, want, pool, check>>

\* Mutant: the check value is not waited for.
CombineEarly ==
  /\ wpc = "calc"
  /\ check' = Append(check, job[want].check)
  /\ job' = [k \in DOMAIN job \ {want} |-> job[k]]
  /\ IF job[want].more THEN wpc' = "take" /\ want' = want + 1
                       ELSE wpc' = "trailer" /\ UNCHANGED want
  /\ UNCHANGED <<main, compress, write, comp, pool, outs, output>>

\* ... wait for its check value, combine it, and free the job.
Combine ==
  /\ wpc = "calc" /\ job[want].calc = 1
  /\ check' = Append(check, job[want].check)
  /\ job' = [k \in DOMAIN job \ {want} |-> job[k]]
  /\ IF job[want].more THEN wpc' = "take" /\ want' = want + 1
                       ELSE wpc' = "trailer" /\ UNCHANGED want
  /\ UNCHANGED <<main, compress, write, comp, pool, outs, output>>

Trailer ==
  /\ wpc = "trailer" /\ wpc' = "exited"
  /\ UNCHANGED <<main, compress, write, job, comp, want, pool, outs, result>>
-----------------------------------------------------------------------------
Dropping(t) == DropPossess(t) \/ DropPush(t) \/ DropTwist(t)

MainStep ==
  \/ GetNew \/ GetHead \/ GetUse \/ Launch \/ NewJob \/ Enqueue \/ Join \/ Finish \/ JoinAll
  \/ FreePools \/ Dropping(Main)

CompressStep(t) ==
  \/ TakeJob(t) \/ Leave(t) \/ SetDictionary(t) \/ Compress(t) \/ InsertWrite(t) \/ Check(t)
  \/ Calc(t) \/ Dropping(t)

WriteStep == TakeWrite \/ WriteOut \/ Combine \/ Trailer \/ Dropping(Writer)

Next == MainStep \/ WriteStep \/ \E t \in Compressors : CompressStep(t)

Spec == Init /\ [][Next]_vars
\* Every thread that can run does, in the end.
FairSpec ==
  /\ Spec /\ WF_vars(MainStep) /\ WF_vars(WriteStep)
  /\ \A t \in Compressors : WF_vars(CompressStep(t))
-----------------------------------------------------------------------------
Working == {"dict", "compress", "insert", "check", "calc"}

\* Who may still look into a buffer: the main thread; the job whose input it is, until
\* the write thread has taken that; the compress thread, until it has the check value;
\* and the job whose dictionary it is, until that is set.
HeldByMain(s) == mpc \in {"more", "job", "enqueue"} /\ s \in {curr, next, dict}
InputOf(s, k) == job[k].in = s /\ ~(want = k /\ wpc \in {"write", "calc"})
CheckedBy(s, t) == cpc[t] \in {"insert", "check"} /\ job[mine[t]].in = s
DictionaryOf(s, k) ==
  /\ job[k].dict = s
  /\ (\E i \in DOMAIN compress : compress[i] = k) \/ \E t \in Compressors : cpc[t] = "dict" /\ mine[t] = k

\* A buffer on the free list of the pool is nobody's, and is there once.  A use count
\* wrong by one, or a drop_space before the last look, would let readn overwrite a block
\* that is still a dictionary, or whose check value is computed next to the write.
PoolIsFree ==
  \A i \in DOMAIN have :
    LET s == have[i] IN
    /\ \A j \in DOMAIN have : have[j] = s => i = j
    /\ ~HeldByMain(s)
    /\ \A k \in DOMAIN job : ~InputOf(s, k) /\ ~DictionaryOf(s, k)
    /\ \A t \in Compressors : ~CheckedBy(s, t)

\* Nobody touches a job that was freed: the write thread frees it once the check value
\* is there, and writing that value is the last the compress thread does with it.
JobsAreAllocated ==
  /\ \A t \in Compressors : cpc[t] \in Working => mine[t] \in DOMAIN job
  /\ wpc \in {"write", "calc"} => want \in DOMAIN job

\* The assertions of drop_space, write_thread and free_pool: a dropped buffer is in use;
\* after the last job both lists are empty; when the threads have returned, every buffer
\* has come back.  And what finish_jobs relies on without asserting it, since it
\* overwrites compress_head: no job is left in the list.
AssertsHold ==
  /\ \A t \in Threads : drop[t].step = "possess" => use[drop[t].space] > 0
  /\ wpc = "trailer" => compress = <<>> /\ write = <<>>
  /\ mpc = "finish" => compress = <<>>
  /\ mpc = "free" => Len(have) = InBufs - limit /\ outs = 0

\* However the threads are scheduled, the streams come out block after block, each
\* compressed with the block before it as dictionary, each checked once, in order.
InOrder == INSTANCE SequentialCompress WITH
  phase <- IF mpc \in {"start", "finish", "join_all", "free", "done"} THEN "idle" ELSE "running"
CompressesInOrder == InOrder!Spec

\* Nobody waits for ever for a buffer, a lock, a job or a check value, even with three
\* buffers, fewer than INBUFS allows: parallel_compress returns.
Completes == <>(mpc = "done")
=============================================================================
