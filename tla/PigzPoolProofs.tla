--------------------------- MODULE PigzPoolProofs ---------------------------
(***************************************************************************)
(* pigz, for any number of threads, buffers and blocks: who uses which     *)
(* buffer, what the buffers hold, and what comes out.                      *)
(***************************************************************************)
EXTENDS PigzProofs

\* The buffer a job has as input, until the write thread has taken that, and the one it
\* has as dictionary, until that is set.  The block last read and the dictionary kept for
\* it belong to the job that will be made of them.
Undone(k) ==
  \/ Fresh(k) \/ k \in Elems(compress)
  \/ \E t \in Compressors : cpc[t] = "dict" /\ mine[t] = k
InSpace(k) ==
  IF mpc \in {"more", "job"} /\ k = seq THEN curr
  ELSE IF mpc \in {"job", "enqueue"} /\ k = seq + 1 THEN next
  ELSE IF k \in DOMAIN job /\ ~AtWriter(k) THEN job[k].in ELSE None
OfSpace(k) ==
  IF mpc \in {"more", "job"} /\ k = seq THEN dict
  ELSE IF mpc = "enqueue" /\ k = seq + 1 THEN IF job[seq].more THEN dict ELSE None
  ELSE IF k \in DOMAIN job /\ Undone(k) THEN job[k].dict ELSE None

\* The buffer a compress thread still has for the check value, and the one a thread is
\* about to let go of.
CheckSpace(t) ==
  IF t \in Compressors /\ cpc[t] \in {"insert", "check"} THEN job[mine[t]].in ELSE None
DropSpace(t) == IF t \in Threads THEN drop[t].space ELSE None

\* What a step does to each of the four.
LEMMA Outside ==
  ASSUME ControlInv
  PROVE  /\ mpc \in {"first", "more", "job"} => seq \notin DOMAIN job
         /\ seq + 1 \notin DOMAIN job /\ seq \in Nat /\ seq + 1 \in Nat /\ seq + 1 # seq
         /\ want \in Nat /\ DOMAIN job \subseteq Nat
         /\ mpc \in {"start", "finish", "join_all", "free", "done"} => DOMAIN job = {} /\ wpc = "none"
         /\ wpc \in {"none", "trailer", "exited"} => DOMAIN job = {}
         /\ mpc \in {"job", "enqueue", "more", "first", "join"} => wpc # "none"
<1>1. /\ seq \in Nat \ {0} /\ want \in Nat /\ DOMAIN job \subseteq Nat
      /\ \A k \in DOMAIN job : k <= seq /\ (mpc \in {"first", "more", "job"} => k < seq)
  BY ControlParts, Zenon DEF MainType, ThreadType, JobType, JobInv
<1>2. \A k \in DOMAIN job : k \in Nat /\ k # seq + 1 /\ (mpc \in {"first", "more", "job"} => k # seq)
  BY <1>1
<1>3. /\ mpc \in {"start", "finish", "join_all", "free", "done"} => wpc = "none"
      /\ wpc \in {"none", "trailer", "exited"} => DOMAIN job = {}
      /\ mpc \in {"job", "enqueue", "more", "first", "join"} => wpc # "none"
  BY ControlParts, Zenon DEF MainInv, JobInv, Running
<1>4. seq + 1 \in Nat /\ seq + 1 # seq
  BY <1>1
<1> QED BY <1>1, <1>2, <1>3, <1>4, Zenon

LEMMA InQuiet ==
  ASSUME ControlInv, Next, ~GetNew, ~GetUse, ~TakeWrite, Enqueue => job[seq].more, NEW k \in Nat
  PROVE  InSpace(k)' = InSpace(k)
<1>1. CASE \E t \in Threads : Dropping(t)
  BY <1>1, DroppingKeeps, Zenon DEF InSpace, AtWriter, main, wthread
<1>2. CASE GetHead \/ WriteOut \/ Trailer
  BY <1>2, Outside, Zenon DEF GetHead, WriteOut, Trailer, InSpace, AtWriter, main, wthread
<1>3. CASE Launch \/ Join \/ Finish \/ JoinAll \/ FreePools
  <2>1. /\ mpc \notin {"more", "job", "enqueue"} /\ mpc' \notin {"more", "job", "enqueue"}
        /\ DOMAIN job = {} /\ job' = job
    BY <1>3, Outside, Zenon DEF Launch, Join, Finish, JoinAll, FreePools
  <2> QED BY <2>1, Zenon DEF InSpace
<1>4. CASE NewJob
  <2>1. /\ mpc = "job" /\ mpc' = "enqueue" /\ UNCHANGED <<seq, next, wpc, want>>
        /\ DOMAIN job' = DOMAIN job \cup {seq} /\ job'[seq].in = curr
        /\ \A n \in DOMAIN job : n # seq => job'[n] = job[n]
    BY <1>4, Zenon DEF NewJob, wthread
  <2>2. AtWriter(seq) => seq \in DOMAIN job
    BY ControlParts, Zenon DEF ListInv, AtWriter
  <2>3. AtWriter(k)' <=> AtWriter(k)
    BY <2>1, Zenon DEF AtWriter
  <2>4. CASE k = seq
    BY <2>1, <2>2, <2>3, <2>4, Outside, Zenon DEF InSpace
  <2>5. CASE k = seq + 1
    BY <2>1, <2>5, Outside, Zenon DEF InSpace
  <2>6. CASE k # seq /\ k # seq + 1
    BY <2>1, <2>3, <2>6, Outside, Zenon DEF InSpace
  <2> QED BY <2>4, <2>5, <2>6, Zenon
<1>5. CASE Enqueue
  <2>1. /\ mpc = "enqueue" /\ mpc' = "more" /\ seq' = seq + 1 /\ curr' = next
        /\ UNCHANGED <<next, job, wpc, want>>
    BY <1>5, Zenon DEF Enqueue, wthread
  <2>2. AtWriter(k)' <=> AtWriter(k)
    BY <2>1, Zenon DEF AtWriter
  <2> QED BY <2>1, <2>2, Outside, Zenon DEF InSpace
<1>6. ASSUME NEW t \in Compressors, TakeJob(t) \/ Leave(t) \/ InsertWrite(t) \/ Check(t)
      PROVE  InSpace(k)' = InSpace(k)
  BY <1>6, Zenon DEF TakeJob, Leave, InsertWrite, Check, InSpace, AtWriter, main, wthread
<1>7. ASSUME NEW t \in Compressors, JobStep(t) PROVE InSpace(k)' = InSpace(k)
  <2>1. UNCHANGED <<main, wthread>>
    BY <1>7, Zenon DEF JobStep, SetDictionary, Compress, Calc
  <2>2. DOMAIN job' = DOMAIN job /\ \A n \in DOMAIN job : job'[n].in = job[n].in
    BY <1>7, JobStepKeeps, Zenon
  <2> QED BY <2>1, <2>2, Zenon DEF InSpace, AtWriter, main, wthread
<1>8. CASE Combine
  <2>1. /\ wpc = "calc" /\ wpc' \notin {"write", "calc"} /\ UNCHANGED main
        /\ DOMAIN job' = DOMAIN job \ {want} /\ \A n \in DOMAIN job : n # want => job'[n] = job[n]
    BY <1>8, Zenon DEF Combine
  <2> QED BY <2>1, Zenon DEF InSpace, AtWriter, main
<1> QED BY <1>1, <1>2, <1>3, <1>4, <1>5, <1>6, <1>7, <1>8, NextCases, Zenon DEF JobStep

\* Where the next block read goes.
NextIn == IF mpc = "first" THEN seq ELSE seq + 1

LEMMA InGet ==
  ASSUME ControlInv, GetNew \/ GetUse, NEW n, n = NextIn
  PROVE  /\ n \in Nat /\ InSpace(n) = None /\ InSpace(n)' = next' /\ next' \in Spaces
         /\ \A k \in Nat : k # n => InSpace(k)' = InSpace(k)
<1>1. PICK s \in Spaces : ReadInto(s) /\ mpc \in {"first", "more"}
  BY GotSpace, Zenon
<1>2. UNCHANGED <<seq, job, wpc, want>>
  BY Zenon DEF GetNew, GetUse, wthread
<1>3. /\ next' = s /\ curr' = (IF mpc = "first" THEN s ELSE curr)
      /\ mpc' = (IF mpc = "first" THEN "more" ELSE "job")
  BY <1>1, Zenon DEF ReadInto
<1>4. \A k \in Nat : AtWriter(k)' <=> AtWriter(k)
  BY <1>2, Zenon DEF AtWriter
<1>5. CASE mpc = "first"
  <2>1. mpc' = "more" /\ curr' = s /\ n = seq
    BY <1>3, <1>5, Zenon DEF NextIn
  <2> QED BY <1>2, <1>3, <1>4, <1>5, <2>1, Outside, Zenon DEF InSpace
<1>6. CASE mpc = "more"
  <2>1. mpc' = "job" /\ curr' = curr /\ n = seq + 1
    BY <1>3, <1>6, Zenon DEF NextIn
  <2> QED BY <1>2, <1>3, <1>4, <1>6, <2>1, Outside, Zenon DEF InSpace
<1> QED BY <1>1, <1>5, <1>6, Zenon

LEMMA InLast ==
  ASSUME ControlInv, Enqueue, ~job[seq].more, NEW n, n = seq + 1
  PROVE  /\ n \in Nat /\ InSpace(n) = next /\ InSpace(n)' = None
         /\ \A k \in Nat : k # n => InSpace(k)' = InSpace(k)
<1>1. mpc = "enqueue" /\ mpc' = "join" /\ UNCHANGED <<seq, job, wpc, want>>
  BY Zenon DEF Enqueue, wthread
<1>2. \A k \in Nat : AtWriter(k)' <=> AtWriter(k)
  BY <1>1, Zenon DEF AtWriter
<1> QED BY <1>1, <1>2, Outside, Zenon DEF InSpace

LEMMA InTake ==
  ASSUME ControlInv, TakeWrite, NEW n, n = want
  PROVE  /\ n \in DOMAIN job /\ n \in Nat /\ InSpace(n) = job[n].in /\ InSpace(n)' = None
         /\ \A k \in Nat : k # n => InSpace(k)' = InSpace(k)
<1>1. /\ wpc = "take" /\ wpc' = "write" /\ UNCHANGED <<main, job, want>>
      /\ write # <<>> /\ Head(write) = want
  BY Zenon DEF TakeWrite
<1>2. want \in DOMAIN job
  BY <1>1, TailElems, ControlParts, Zenon DEF ListType, ListInv
<1>3. UNCHANGED <<mpc, seq, curr, next>>
  BY <1>1, Zenon DEF main
<1>4. ~(mpc \in {"more", "job"} /\ want = seq) /\ want # seq + 1
  BY <1>2, Outside, Zenon
<1> QED BY <1>1, <1>2, <1>3, <1>4, Outside, Zenon DEF InSpace, AtWriter

\* A step that neither makes a job with a successor nor sets a dictionary leaves the
\* dictionaries alone.
LEMMA UndoneSame ==
  ASSUME UNCHANGED <<mpc, seq, compress, cpc, mine>>, NEW k PROVE Undone(k)' <=> Undone(k)
BY Zenon DEF Undone, Fresh

LEMMA OfQuiet ==
  ASSUME ControlInv, Next, NewJob => ~More, NEW k \in Nat,
         \A t \in Compressors : SetDictionary(t) => job[mine[t]].dict = None
  PROVE  OfSpace(k)' = OfSpace(k)
<1>1. CASE \E t \in Threads : Dropping(t)
  BY <1>1, DroppingKeeps, UndoneSame, Zenon DEF OfSpace, main, comp
<1>2. CASE GetHead \/ TakeWrite \/ WriteOut \/ Trailer
  <2>1. UNCHANGED <<mpc, seq, dict, job, compress, cpc, mine>>
    BY <1>2, Zenon DEF GetHead, TakeWrite, WriteOut, Trailer, main, comp
  <2> QED BY <2>1, UndoneSame, Zenon DEF OfSpace
<1>3. CASE Launch \/ Join \/ Finish \/ JoinAll \/ FreePools
  <2>1. /\ mpc \notin {"more", "job", "enqueue"} /\ mpc' \notin {"more", "job", "enqueue"}
        /\ DOMAIN job = {} /\ job' = job
    BY <1>3, Outside, Zenon DEF Launch, Join, Finish, JoinAll, FreePools
  <2> QED BY <2>1, Zenon DEF OfSpace
<1>4. CASE GetNew \/ GetUse
  <2>1. PICK s \in Spaces : ReadInto(s) /\ mpc \in {"first", "more"}
    BY <1>4, GotSpace, Zenon
  <2>2. UNCHANGED <<seq, dict, job, compress, cpc, mine>> /\ (mpc = "first" => dict = None)
    BY <1>4, ControlParts, Zenon DEF GetNew, GetUse, comp, MainInv
  <2>3. mpc' = IF mpc = "first" THEN "more" ELSE "job"
    BY <2>1, Zenon DEF ReadInto
  <2>4. Undone(k)' <=> Undone(k)
    BY <2>1, <2>2, <2>3, Zenon DEF Undone, Fresh
  <2> QED BY <2>1, <2>2, <2>3, <2>4, Outside, Zenon DEF OfSpace
<1>5. CASE NewJob
  <2>1. /\ mpc = "job" /\ mpc' = "enqueue" /\ UNCHANGED <<seq, dict, compress, cpc, mine>>
        /\ DOMAIN job' = DOMAIN job \cup {seq} /\ job'[seq].dict = dict /\ job'[seq].more = FALSE
        /\ \A n \in DOMAIN job : n # seq => job'[n] = job[n]
    BY <1>5, Zenon DEF NewJob, comp, More
  <2>2. k # seq => (Undone(k)' <=> Undone(k))
    BY <2>1, Zenon DEF Undone, Fresh
  <2>3. Undone(seq)'
    BY <2>1, Zenon DEF Undone, Fresh
  <2>4. CASE k = seq
    BY <2>1, <2>3, <2>4, Outside, Zenon DEF OfSpace
  <2>5. CASE k = seq + 1
    BY <2>1, <2>5, Outside, Zenon DEF OfSpace
  <2>6. CASE k # seq /\ k # seq + 1
    BY <2>1, <2>2, <2>6, Outside, Zenon DEF OfSpace
  <2> QED BY <2>4, <2>5, <2>6, Zenon
<1>6. CASE Enqueue
  <2>1. /\ mpc = "enqueue" /\ UNCHANGED <<dict, job, mine>> /\ compress' = Append(compress, seq)
        /\ \/ mpc' = "more" /\ seq' = seq + 1
           \/ mpc' = "join" /\ seq' = seq /\ ~job[seq].more
    BY <1>6, Zenon DEF Enqueue
  <2>2. Elems(compress') = Elems(compress) \cup {seq}
    <3>1. seq \in DOMAIN job /\ Fresh(seq) /\ seq \in Nat /\ compress \in Seq(Nat) /\ Distinct(compress)
      BY <2>1, ControlParts, Outside, Zenon DEF ListType, ListInv, JobInv, Fresh
    <3>2. seq \notin Elems(compress)
      BY <3>1, ControlParts, Zenon DEF StageInv
    <3>3. Elems(Append(compress, seq)) = Elems(compress) \cup {seq}
      BY <3>1, <3>2, AppendElems
    <3> QED BY <2>1, <3>3, Zenon
  <2>3. \A t \in Compressors : cpc'[t] = "dict" <=> cpc[t] = "dict"
    <3>1. \A t \in Compressors : t > cthreads => cpc[t] = "none"
      BY ControlParts, Zenon DEF MainInv
    <3>2. cthreads \in Nat /\ DOMAIN cpc = Compressors
      BY ControlParts, ThreadFacts DEF MainType, ThreadType
    <3>3. cthreads + 1 \in Compressors => cpc[cthreads + 1] = "none"
      BY <3>1, <3>2
    <3>4. cpc' = cpc \/ cpc' = [cpc EXCEPT ![cthreads + 1] = "idle"]
      BY <1>6, Zenon DEF Enqueue
    <3> QED BY <3>2, <3>3, <3>4, Zenon
  <2>4. Undone(k)' <=> Undone(k)
    BY <2>1, <2>2, <2>3, Zenon DEF Undone, Fresh
  <2> QED BY <1>6, <2>1, <2>4, Outside, Zenon DEF OfSpace, Enqueue
<1>7. ASSUME NEW t \in Compressors, TakeJob(t) PROVE OfSpace(k)' = OfSpace(k)
  <2>1. /\ UNCHANGED <<mpc, seq, dict, job>> /\ compress # <<>> /\ compress' = Tail(compress)
        /\ cpc[t] = "idle" /\ cpc'[t] = "dict" /\ mine'[t] = Head(compress)
        /\ \A u \in Compressors : u # t => cpc'[u] = cpc[u] /\ mine'[u] = mine[u]
    BY <1>7, ControlParts, Zenon DEF TakeJob, main, ThreadType
  <2>2. Head(compress) \in Elems(compress) /\ Elems(compress') = Elems(compress) \ {Head(compress)}
    BY <2>1, TailElems, ControlParts, Zenon DEF ListType, ListInv
  <2>3. Undone(k)' <=> Undone(k)
    BY <2>1, <2>2, Zenon DEF Undone, Fresh
  <2> QED BY <2>1, <2>3, Zenon DEF OfSpace
<1>8. ASSUME NEW t \in Compressors,
             Leave(t) \/ InsertWrite(t) \/ Check(t) \/ Compress(t) \/ Calc(t)
      PROVE  OfSpace(k)' = OfSpace(k)
  <2>1. /\ UNCHANGED <<mpc, seq, dict, compress, mine>> /\ cpc[t] # "dict" /\ cpc'[t] # "dict"
        /\ \A u \in Compressors : u # t => cpc'[u] = cpc[u]
    BY <1>8, ControlParts, Zenon DEF Leave, InsertWrite, Check, Compress, Calc, main, ThreadType
  <2>2. /\ DOMAIN job' = DOMAIN job
        /\ \A n \in DOMAIN job : job'[n].dict = job[n].dict /\ job'[n].more = job[n].more
    <3>1. CASE Leave(t) \/ InsertWrite(t) \/ Check(t)
      BY <3>1, Zenon DEF Leave, InsertWrite, Check
    <3>2. CASE Compress(t) \/ Calc(t)
      BY <3>2, JobStepKeeps, Zenon DEF JobStep
    <3> QED BY <1>8, <3>1, <3>2, Zenon
  <2>3. Undone(k)' <=> Undone(k)
    BY <2>1, Zenon DEF Undone, Fresh
  <2>4. mpc = "enqueue" => seq \in DOMAIN job
    BY ControlParts, Zenon DEF JobInv
  <2> QED BY <2>1, <2>2, <2>3, <2>4, Zenon DEF OfSpace
<1>9. ASSUME NEW t \in Compressors, SetDictionary(t), job[mine[t]].dict = None
      PROVE  OfSpace(k)' = OfSpace(k)
  <2>1. /\ UNCHANGED <<mpc, seq, dict, job, compress, mine>> /\ cpc[t] = "dict" /\ cpc'[t] # "dict"
        /\ \A u \in Compressors : u # t => cpc'[u] = cpc[u]
    BY <1>9, ControlParts, Zenon DEF SetDictionary, main, ThreadType
  <2>2. k # mine[t] => (Undone(k)' <=> Undone(k))
    BY <2>1, Zenon DEF Undone, Fresh
  <2> QED BY <1>9, <2>1, <2>2, Zenon DEF OfSpace
<1>10. CASE Combine
  <2>1. /\ wpc = "calc" /\ UNCHANGED <<mpc, seq, dict, compress, cpc, mine>>
        /\ DOMAIN job' = DOMAIN job \ {want} /\ \A n \in DOMAIN job : n # want => job'[n] = job[n]
    BY <1>10, Zenon DEF Combine, main, comp
  <2>2. Undone(k)' <=> Undone(k)
    BY <2>1, UndoneSame, Zenon
  <2>3. want \in DOMAIN job /\ AtWriter(want) /\ (mpc = "enqueue" => seq \in DOMAIN job)
    BY <2>1, ControlParts, Zenon DEF ListInv, JobInv, AtWriter
  <2>4. ~Undone(want) /\ ~Fresh(want)
    BY <2>3, ControlParts, Zenon DEF StageInv, Undone, Begun
  <2>5. mpc = "enqueue" => seq \in DOMAIN job /\ seq # want
    BY <2>3, <2>4, Zenon DEF Fresh
  <2> QED BY <2>1, <2>2, <2>4, <2>5, Zenon DEF OfSpace
<1> QED BY <1>1, <1>2, <1>3, <1>4, <1>5, <1>6, <1>7, <1>8, <1>9, <1>10, NextCases, Zenon

LEMMA OfNew ==
  ASSUME ControlInv, NewJob, More, NEW n, n = seq + 1
  PROVE  /\ n \in Nat /\ OfSpace(n) = None /\ OfSpace(n)' = curr /\ InSpace(seq) = curr
         /\ \A k \in Nat : k # n => OfSpace(k)' = OfSpace(k)
<1>1. /\ mpc = "job" /\ mpc' = "enqueue" /\ UNCHANGED <<seq, compress, cpc, mine>> /\ dict' = curr
      /\ DOMAIN job' = DOMAIN job \cup {seq} /\ job'[seq].dict = dict /\ job'[seq].more = TRUE
      /\ \A k \in DOMAIN job : k # seq => job'[k] = job[k]
  BY Zenon DEF NewJob, comp, More
<1>2. \A k \in Nat : k # seq => (Undone(k)' <=> Undone(k))
  BY <1>1, Zenon DEF Undone, Fresh
<1>3. Undone(seq)'
  BY <1>1, Zenon DEF Undone, Fresh
<1>4. OfSpace(n) = None /\ OfSpace(n)' = curr /\ InSpace(seq) = curr
  BY <1>1, Outside, Zenon DEF OfSpace, InSpace
<1>5. OfSpace(seq)' = OfSpace(seq)
  BY <1>1, <1>3, Outside, Zenon DEF OfSpace
<1>6. ASSUME NEW k \in Nat, k # seq + 1, k # seq PROVE OfSpace(k)' = OfSpace(k)
  BY <1>1, <1>2, <1>6, Outside, Zenon DEF OfSpace
<1>7. ASSUME NEW k \in Nat, k = seq PROVE OfSpace(k)' = OfSpace(k)
  BY <1>1, <1>5, <1>7, Zenon DEF OfSpace, Undone, Fresh
<1> QED BY <1>4, <1>6, <1>7, Outside, Zenon

LEMMA OfSet ==
  ASSUME ControlInv, NEW t \in Compressors, SetDictionary(t), NEW n, n = mine[t]
  PROVE  /\ n \in DOMAIN job /\ OfSpace(n) = job[n].dict /\ OfSpace(n)' = None
         /\ job[n].dict \in Spaces \cup {None}
         /\ \A k \in Nat : k # n => OfSpace(k)' = OfSpace(k)
<1>1. /\ UNCHANGED <<mpc, seq, dict, compress, mine>> /\ cpc[t] = "dict" /\ cpc'[t] = "compress"
      /\ \A u \in Compressors : u # t => cpc'[u] = cpc[u]
  BY ControlParts, Zenon DEF SetDictionary, main, ThreadType
<1>2. /\ n \in DOMAIN job /\ job[n] \in Job /\ DOMAIN job' = DOMAIN job
      /\ \A k \in DOMAIN job : k # n => job'[k] = job[k]
      /\ job'[n].more = job[n].more
  BY JobStepKeeps, Zenon DEF JobStep
<1>3. With(t, n) /\ Undone(n)
  BY <1>1, Zenon DEF With, Undone, Working
<1>4. ~Fresh(n) /\ n \notin Elems(compress)
  BY <1>2, <1>3, ControlParts, Zenon DEF StageInv
<1>5. \A u \in Compressors : cpc[u] = "dict" /\ mine[u] = n => u = t
  BY <1>1, ControlParts, Zenon DEF StageInv, Working
<1>6. ~Undone(n)'
  BY <1>1, <1>4, <1>5, Zenon DEF Undone, Fresh
<1>7. ASSUME NEW k \in Nat, k # n PROVE Undone(k)' <=> Undone(k)
  BY <1>1, <1>7, Zenon DEF Undone, Fresh
<1>8. n # seq + 1 /\ ~(mpc \in {"more", "job"} /\ n = seq) /\ (mpc = "enqueue" => seq \in DOMAIN job)
  BY <1>2, Outside, ControlParts, Zenon DEF JobInv
<1>9. OfSpace(n) = job[n].dict /\ OfSpace(n)' = None
  BY <1>1, <1>2, <1>3, <1>6, <1>8, Zenon DEF OfSpace
<1>10. ASSUME NEW k \in Nat, k # n PROVE OfSpace(k)' = OfSpace(k)
  BY <1>1, <1>2, <1>4, <1>7, <1>8, <1>10, Zenon DEF OfSpace, Fresh
<1>11. job[n].dict \in Spaces \cup {None}
  BY <1>2, Zenon DEF Job
<1> QED BY <1>2, <1>9, <1>10, <1>11, Zenon

LEMMA CheckQuiet ==
  ASSUME ControlInv, Next, NEW t \in Nat, t \in Compressors => ~Compress(t) /\ ~Check(t)
  PROVE  CheckSpace(t)' = CheckSpace(t)
<1> SUFFICES ASSUME t \in Compressors PROVE CheckSpace(t)' = CheckSpace(t)
  BY Zenon DEF CheckSpace
<1>1. mine[t] \in Nat /\ (cpc[t] \in {"insert", "check"} => mine[t] \in DOMAIN job)
  BY ControlParts, Zenon DEF ThreadType, ListInv, Working
<1>2. CASE \E u \in Threads : Dropping(u)
  BY <1>2, DroppingKeeps, Zenon DEF CheckSpace, comp
<1>3. CASE GetNew \/ GetUse \/ GetHead \/ Launch \/ Join \/ Finish \/ JoinAll \/ FreePools \/ TakeWrite
           \/ WriteOut \/ Trailer
  BY <1>3, Zenon DEF GetNew, GetUse, GetHead, Launch, Join, Finish, JoinAll, FreePools, TakeWrite,
                     WriteOut, Trailer, CheckSpace, comp
<1>4. CASE NewJob
  <2>1. /\ UNCHANGED <<cpc, mine>> /\ mpc = "job" /\ \A n \in DOMAIN job : n # seq => job'[n] = job[n]
    BY <1>4, Zenon DEF NewJob, comp
  <2> QED BY <1>1, <2>1, Outside, Zenon DEF CheckSpace
<1>5. CASE Enqueue
  <2>1. UNCHANGED <<mine, job>> /\ (cpc' = cpc \/ cpc' = [cpc EXCEPT ![cthreads + 1] = "idle"])
    BY <1>5, Zenon DEF Enqueue
  <2>2. \A u \in Compressors : u > cthreads => cpc[u] = "none"
    BY ControlParts, Zenon DEF MainInv
  <2>3. cthreads \in Nat /\ DOMAIN cpc = Compressors
    BY ControlParts, ThreadFacts DEF MainType, ThreadType
  <2>4. cthreads + 1 \in Compressors => cpc[cthreads + 1] = "none"
    BY <2>2, <2>3
  <2>5. cpc'[t] \in {"insert", "check"} <=> cpc[t] \in {"insert", "check"}
    BY <2>1, <2>3, <2>4, Zenon
  <2> QED BY <2>1, <2>5, Zenon DEF CheckSpace
<1>6. CASE Combine
  <2>1. UNCHANGED comp /\ job[want].calc = 1 /\ \A n \in DOMAIN job : n # want => job'[n] = job[n]
    BY <1>6, Zenon DEF Combine
  <2>2. cpc[t] \in {"insert", "check"} => mine[t] \in DOMAIN job /\ job[mine[t]].calc = 0
    BY ControlParts, Zenon DEF ListInv, Working
  <2>3. cpc[t] \in {"insert", "check"} => job'[mine[t]] = job[mine[t]]
    BY <2>1, <2>2
  <2> QED BY <2>1, <2>3, Zenon DEF CheckSpace, comp
<1>7. ASSUME NEW u \in Compressors,
             TakeJob(u) \/ Leave(u) \/ SetDictionary(u) \/ Compress(u) \/ InsertWrite(u) \/ Check(u)
             \/ Calc(u)
      PROVE  CheckSpace(t)' = CheckSpace(t)
  <2>1. \A n \in DOMAIN job : job'[n].in = job[n].in
    <3>1. CASE TakeJob(u) \/ Leave(u) \/ InsertWrite(u) \/ Check(u)
      BY <3>1, Zenon DEF TakeJob, Leave, InsertWrite, Check
    <3>2. CASE JobStep(u)
      BY <3>2, JobStepKeeps, Zenon
    <3> QED BY <1>7, <3>1, <3>2, Zenon DEF JobStep
  <2>2. /\ cpc'[t] \in {"insert", "check"} <=> cpc[t] \in {"insert", "check"}
        /\ cpc[t] \in {"insert", "check"} => mine'[t] = mine[t]
    BY <1>7, ControlParts, Zenon DEF TakeJob, Leave, SetDictionary, Compress, InsertWrite, Check, Calc, ThreadType
  <2> QED BY <1>1, <2>1, <2>2, Zenon DEF CheckSpace
<1> QED BY <1>2, <1>3, <1>4, <1>5, <1>6, <1>7, NextCases, Zenon

LEMMA CheckGain ==
  ASSUME ControlInv, NEW t \in Compressors, Compress(t)
  PROVE  /\ CheckSpace(t) = None /\ CheckSpace(t)' = job[mine[t]].in
         /\ mine[t] \in DOMAIN job /\ job[mine[t]].in \in Spaces /\ InSpace(mine[t]) = job[mine[t]].in
         /\ \A u \in Nat : u # t => CheckSpace(u)' = CheckSpace(u)
<1>1. /\ cpc[t] = "compress" /\ cpc'[t] = "insert" /\ UNCHANGED mine
      /\ \A u \in Compressors : u # t => cpc'[u] = cpc[u]
  BY ControlParts, Zenon DEF Compress, ThreadType
<1>2. /\ mine[t] \in DOMAIN job /\ job[mine[t]] \in Job
      /\ \A k \in DOMAIN job : job'[k].in = job[k].in
  BY JobStepKeeps, Zenon DEF JobStep
<1>3. job[mine[t]].in \in Spaces
  BY <1>2, Zenon DEF Job
<1>4. ~AtWriter(mine[t]) /\ mine[t] # seq + 1 /\ ~(mpc \in {"more", "job"} /\ mine[t] = seq)
  BY <1>1, <1>2, ControlParts, Outside, Zenon DEF StageInv, Begun
<1>5. \A u \in Compressors : cpc[u] \in {"insert", "check"} => mine[u] \in DOMAIN job
  BY ControlParts, Zenon DEF ListInv, Working
<1>6. CheckSpace(t) = None /\ CheckSpace(t)' = job[mine[t]].in
  BY <1>1, <1>2, Zenon DEF CheckSpace
<1>7. ASSUME NEW u \in Nat, u # t PROVE CheckSpace(u)' = CheckSpace(u)
  BY <1>1, <1>2, <1>5, <1>7, Zenon DEF CheckSpace
<1> QED BY <1>2, <1>3, <1>4, <1>6, <1>7, Zenon DEF InSpace

LEMMA CheckLose ==
  ASSUME ControlInv, NEW t \in Compressors, Check(t)
  PROVE  /\ CheckSpace(t) = job[mine[t]].in /\ CheckSpace(t)' = None /\ job[mine[t]].in \in Spaces
         /\ \A u \in Nat : u # t => CheckSpace(u)' = CheckSpace(u)
<1>1. /\ cpc[t] = "check" /\ cpc'[t] = "calc" /\ UNCHANGED <<mine, job>>
      /\ \A u \in Compressors : u # t => cpc'[u] = cpc[u]
  BY ControlParts, Zenon DEF Check, ThreadType
<1>2. job[mine[t]].in \in Spaces
  BY <1>1, ControlParts, Zenon DEF ListInv, JobType, Job, Working
<1>3. ASSUME NEW u \in Nat, u # t PROVE CheckSpace(u)' = CheckSpace(u)
  BY <1>1, <1>3, Zenon DEF CheckSpace
<1> QED BY <1>1, <1>2, <1>3, Zenon DEF CheckSpace

\* Letting go of a buffer begins, and ends with the twist of its use count.
Twisting == \E t \in Threads : DropTwist(t)
Begins ==
  \/ Enqueue /\ ~job[seq].more
  \/ \E t \in Compressors : Check(t) \/ (SetDictionary(t) /\ job[mine[t]].dict # None)
  \/ TakeWrite

LEMMA DropQuiet ==
  ASSUME ControlInv, Next, ~Begins, ~Twisting, NEW t \in Nat
  PROVE  DropSpace(t)' = DropSpace(t)
<1>1. ASSUME NEW u \in Threads, DropPossess(u) \/ DropPush(u) PROVE DropSpace(t)' = DropSpace(t)
  <2>1. drop \in [Threads -> [space : Spaces \cup {None}, step : {"no", "possess", "push", "twist"}]]
    BY ControlParts, Zenon DEF LockType
  <2>2. \A v \in Threads : drop'[v].space = drop[v].space
    BY <1>1, <2>1 DEF DropPossess, DropPush
  <2> QED BY <2>2, Zenon DEF DropSpace
<1>2. CASE \A u \in Threads : ~Dropping(u)
  <2>1. UNCHANGED drop
    <3>1. CASE GetNew \/ GetUse \/ GetHead \/ Launch \/ NewJob \/ Join \/ Finish \/ JoinAll \/ FreePools
               \/ WriteOut \/ Combine \/ Trailer
      BY <3>1, Zenon DEF GetNew, GetUse, GetHead, Launch, NewJob, Join, Finish, JoinAll, FreePools,
                         WriteOut, Combine, Trailer, pool
    <3>2. CASE Enqueue
      BY <3>2, Zenon DEF Enqueue, Begins
    <3>3. ASSUME NEW u \in Compressors,
                 TakeJob(u) \/ Leave(u) \/ SetDictionary(u) \/ Compress(u) \/ InsertWrite(u) \/ Calc(u)
          PROVE  UNCHANGED drop
      BY <3>3, Zenon DEF TakeJob, Leave, SetDictionary, Compress, InsertWrite, Calc, Begins, pool
    <3> QED BY <1>2, <3>1, <3>2, <3>3, NextCases, Zenon DEF Begins
  <2> QED BY <2>1, Zenon DEF DropSpace
<1> QED BY <1>1, <1>2, Zenon DEF Twisting, Dropping

LEMMA DropBegins ==
  ASSUME ControlInv, NEW t \in Threads, NEW s \in Spaces, Free(t), Drop(t, s)
  PROVE  /\ DropSpace(t) = None /\ DropSpace(t)' = s
         /\ \A u \in Nat : u # t => DropSpace(u)' = DropSpace(u)
<1>1. DOMAIN drop = Threads
  BY ControlParts, Zenon DEF LockType
<1>2. drop'[t].space = s /\ drop[t].space = None /\ \A u \in Threads : u # t => drop'[u] = drop[u]
  BY <1>1 DEF Drop, Free, NoDrop
<1> QED BY <1>2, Zenon DEF DropSpace

LEMMA DropEnds ==
  ASSUME ControlInv, NEW t \in Threads, DropTwist(t), NEW s, s = drop[t].space
  PROVE  /\ DropSpace(t) = s /\ DropSpace(t)' = None /\ s \in Spaces
         /\ \A u \in Nat : u # t => DropSpace(u)' = DropSpace(u)
<1>1. drop \in [Threads -> [space : Spaces \cup {None}, step : {"no", "possess", "push", "twist"}]]
  BY ControlParts, Zenon DEF LockType
<1>2. drop'[t].space = None /\ \A u \in Threads : u # t => drop'[u] = drop[u]
  BY <1>1, Zenon DEF DropTwist, NoDrop
<1>3. s \in Spaces
  BY <1>1, ControlParts, Zenon DEF DropTwist, DropInv
<1> QED BY <1>2, <1>3, Zenon DEF DropSpace

LEMMA BeginsDrop ==
  ASSUME ControlInv, Begins
  PROVE  \E t \in Threads, s \in Spaces :
           /\ Free(t) /\ Drop(t, s) /\ UNCHANGED <<limit, have, use, useLock, buf>>
           /\ mpc' = "done" <=> mpc = "done"
<1>1. CASE Enqueue /\ ~job[seq].more
  <2>1. next \in Spaces /\ Free(Main)
    BY <1>1, ControlParts, Zenon DEF Enqueue, MainInv, DropInv
  <2> QED BY <1>1, <2>1, ThreadFacts, Zenon DEF Enqueue
<1>2. ASSUME NEW t \in Compressors, Check(t)
      PROVE  /\ Free(t) /\ Drop(t, job[mine[t]].in) /\ job[mine[t]].in \in Spaces
             /\ UNCHANGED <<limit, have, use, useLock, buf, mpc>>
  BY <1>2, CheckLose, ControlParts, Zenon DEF Check, DropInv, main
<1>3. ASSUME NEW t \in Compressors, SetDictionary(t), job[mine[t]].dict # None
      PROVE  /\ Free(t) /\ Drop(t, job[mine[t]].dict) /\ job[mine[t]].dict \in Spaces
             /\ UNCHANGED <<limit, have, use, useLock, buf, mpc>>
  BY <1>3, OfSet, ControlParts, Zenon DEF SetDictionary, DropInv, main
<1>4. CASE TakeWrite
  <2>1. job[want].in \in Spaces /\ Free(Writer)
    BY <1>4, InTake, ControlParts, Zenon DEF TakeWrite, DropInv, JobType, Job
  <2> QED BY <1>4, <2>1, ThreadFacts, Zenon DEF TakeWrite, main
<1> QED BY <1>1, <1>2, <1>3, <1>4, ThreadFacts, Zenon DEF Begins

LEMMA PoolQuiet ==
  ASSUME ControlInv, Next, ~GetNew, ~GetUse, ~FreePools, NewJob => ~More, ~Begins,
         \A t \in Compressors : ~Compress(t), \A t \in Threads : ~Dropping(t)
  PROVE  /\ UNCHANGED <<limit, have, use, useLock, drop, buf>>
         /\ mpc' = "done" <=> mpc = "done"
<1>1. CASE GetHead \/ Launch \/ Join \/ Finish \/ JoinAll
  BY <1>1, Zenon DEF GetHead, Launch, Join, Finish, JoinAll, pool, main
<1>2. CASE NewJob \/ Enqueue
  BY <1>2, Zenon DEF NewJob, Enqueue, Begins
<1>3. CASE WriteOut \/ Combine \/ Trailer
  BY <1>3, Zenon DEF WriteOut, Combine, Trailer, pool, main
<1>4. ASSUME NEW t \in Compressors, TakeJob(t) \/ Leave(t) \/ SetDictionary(t) \/ InsertWrite(t) \/ Calc(t)
      PROVE  UNCHANGED <<limit, have, use, useLock, drop, buf, mpc>>
  BY <1>4, Zenon DEF TakeJob, Leave, SetDictionary, InsertWrite, Calc, Begins, pool, main
<1> QED BY <1>1, <1>2, <1>3, <1>4, NextCases, Zenon DEF Begins

-----------------------------------------------------------------------------
\* The use count of a buffer is locked by the thread that is letting go of it.
LocksInv ==
  /\ \A t \in Threads : drop[t].step \in {"push", "twist"} => useLock[drop[t].space] = t
  /\ \A s \in Spaces : useLock[s] # Nobody =>
       /\ useLock[s] \in Threads /\ drop[useLock[s]].space = s
       /\ drop[useLock[s]].step \in {"push", "twist"}

LEMMA LocksSame == ASSUME LocksInv, UNCHANGED <<drop, useLock>> PROVE LocksInv'
BY Zenon DEF LocksInv

LEMMA LocksStep == ASSUME ControlInv, LocksInv, Next PROVE LocksInv'
<1>0. /\ DOMAIN drop = Threads /\ DOMAIN useLock = Spaces /\ Nobody \notin Threads
      /\ \A t \in Threads : drop[t] \in [space : Spaces \cup {None}, step : {"no", "possess", "push", "twist"}]
      /\ \A t \in Threads : drop[t].step # "no" => drop[t].space \in Spaces
  BY ControlParts, ThreadFacts, Zenon DEF LockType, DropInv
<1>1. CASE Begins
  <2>1. PICK t \in Threads, s \in Spaces : Free(t) /\ Drop(t, s) /\ UNCHANGED useLock
    BY <1>1, BeginsDrop, Zenon
  <2>2. /\ drop'[t].step = "possess" /\ drop[t].step = "no"
        /\ \A u \in Threads : u # t => drop'[u] = drop[u]
    BY <1>0, <2>1 DEF Drop, Free, NoDrop
  <2> QED BY <1>0, <2>1, <2>2 DEF LocksInv
<1>2. ASSUME NEW t \in Threads, Dropping(t) PROVE LocksInv'
  <2>1. PICK s : s = drop[t].space
    BY Zenon
  <2>2. s \in Spaces /\ \A u \in Threads : u # t => drop'[u] = drop[u]
    BY <1>0, <1>2, <2>1, Zenon DEF Dropping, DropPossess, DropPush, DropTwist
  <2>3. CASE DropPossess(t)
    <3>1. /\ drop'[t].step \in {"push", "twist"} /\ drop'[t].space = s /\ useLock[s] = Nobody
          /\ useLock'[s] = t /\ \A r \in Spaces : r # s => useLock'[r] = useLock[r]
          /\ drop[t].step = "possess"
      BY <1>0, <2>1, <2>2, <2>3, Zenon DEF DropPossess
    <3> QED BY <1>0, <2>1, <2>2, <3>1 DEF LocksInv
  <2>4. CASE DropPush(t)
    <3>1. /\ drop'[t].step = "twist" /\ drop'[t].space = s /\ drop[t].step = "push" /\ UNCHANGED useLock
      BY <1>0, <2>1, <2>2, <2>4, Zenon DEF DropPush
    <3> QED BY <1>0, <2>1, <2>2, <3>1 DEF LocksInv
  <2>5. CASE DropTwist(t)
    <3>1. /\ drop'[t].step = "no" /\ drop[t].step = "twist"
          /\ useLock'[s] = Nobody /\ \A r \in Spaces : r # s => useLock'[r] = useLock[r]
      BY <1>0, <2>1, <2>2, <2>5, Zenon DEF DropTwist, NoDrop
    <3> QED BY <1>0, <2>1, <2>2, <3>1 DEF LocksInv
  <2> QED BY <1>2, <2>3, <2>4, <2>5, Zenon DEF Dropping
<1>3. CASE GetNew \/ GetUse \/ FreePools \/ NewJob \/ \E t \in Compressors : Compress(t)
  BY <1>3, LocksSame, Zenon DEF GetNew, GetUse, FreePools, NewJob, Compress
<1> QED BY <1>1, <1>2, <1>3, PoolQuiet, LocksSame, Zenon

\* What is held is counted (this is all the pool needs of the use counts).
InUse ==
  /\ use \in [Spaces -> Nat]
  /\ \A k \in Nat : /\ InSpace(k) # None => use[InSpace(k)] # 0
                    /\ OfSpace(k) # None => use[OfSpace(k)] # 0
  /\ \A t \in Nat : /\ CheckSpace(t) # None => use[CheckSpace(t)] # 0
                    /\ DropSpace(t) # None => use[DropSpace(t)] # 0

\* The list of the pool has each buffer that was made and is not counted, and apart from
\* those only the one that the last user has put there before its twist.
PushInv ==
  \A t \in Threads :
    /\ drop[t].step = "push" => use[drop[t].space] = 1 /\ drop[t].space \notin Elems(have)
    /\ drop[t].step = "twist" /\ use[drop[t].space] = 1 => drop[t].space \in Elems(have)
HaveInv ==
  /\ Distinct(have)
  /\ \A s \in Spaces :
       /\ s \in Elems(have) =>
            /\ s <= InBufs - limit
            /\ use[s] = 0 \/ (use[s] = 1 /\ useLock[s] # Nobody)
       /\ s > InBufs - limit => use[s] = 0
       /\ use[s] = 0 /\ s <= InBufs - limit /\ mpc # "done" => s \in Elems(have)

LEMMA DropFacts ==
  ASSUME ControlInv, InUse
  PROVE  /\ DOMAIN drop = Threads /\ DOMAIN useLock = Spaces /\ DOMAIN use = Spaces
         /\ have \in Seq(Spaces) /\ limit \in 0..InBufs /\ InBufs \in Nat
         /\ \A s \in Spaces : use[s] \in Nat /\ s \in Nat
         /\ \A t \in Threads : /\ drop[t].step \in {"no", "possess", "push", "twist"}
                               /\ drop[t] = [space |-> drop[t].space, step |-> drop[t].step]
         /\ \A t \in Threads : drop[t].step # "no" => drop[t].space \in Spaces /\ use[drop[t].space] # 0
<1>1. /\ drop \in [Threads -> [space : Spaces \cup {None}, step : {"no", "possess", "push", "twist"}]]
      /\ \A t \in Threads : drop[t].step = "no" <=> drop[t].space = None
      /\ useLock \in [Spaces -> Threads \cup {Nobody}]
      /\ have \in Seq(Spaces) /\ limit \in 0..InBufs
  BY ControlParts, Zenon DEF LockType, DropInv, PoolType
<1>2. use \in [Spaces -> Nat] /\ Threads \subseteq Nat /\ Spaces \subseteq Nat /\ InBufs \in Nat
  BY ThreadFacts, Zenon DEF InUse
<1>3. \A t \in Threads : drop[t].space # None => use[drop[t].space] # 0
  BY <1>2, Zenon DEF InUse, DropSpace
<1> QED BY <1>1, <1>2, <1>3, Zenon

\* A buffer is got from nobody.
LEMMA GotUnused ==
  ASSUME ControlInv, InUse, LocksInv, HaveInv, GetNew \/ GetUse, NEW s, s = next'
  PROVE  /\ s \in Spaces /\ ReadInto(s) /\ use[s] = 0 /\ use'[s] = 1
         /\ \A r \in Spaces : r # s => use'[r] = use[r]
         /\ GetNew => s = InBufs - limit + 1
         /\ ~GetNew => s = Head(have) /\ have # <<>>
<1>1. PICK r \in Spaces : /\ ReadInto(r) /\ use' = [use EXCEPT ![r] = 1]
                          /\ GetNew => r = InBufs - limit + 1
                          /\ ~GetNew => r = Head(have)
  BY GotSpace, Zenon
<1>2. r = s
  BY <1>1, Zenon DEF ReadInto
<1>3. GetNew => use[s] = 0
  BY <1>1, <1>2, DropFacts DEF HaveInv
<1>4. ~GetNew => have # <<>> /\ useLock[s] = Nobody
  BY <1>1, <1>2, ControlParts, Zenon DEF GetUse, MainInv
<1>5. ~GetNew => use[s] = 0
  BY <1>1, <1>2, <1>4, DropFacts, TailElems, Zenon DEF HaveInv
<1> QED BY <1>1, <1>2, <1>3, <1>4, <1>5, DropFacts, Zenon

LEMMA GetHaveStep ==
  ASSUME ControlInv, InUse, LocksInv, PushInv, HaveInv, GetNew \/ GetUse
  PROVE  PushInv' /\ HaveInv'
<1>1. PICK s : s = next'
  BY Zenon
<1>2. /\ s \in Spaces /\ use[s] = 0 /\ use'[s] = 1 /\ \A r \in Spaces : r # s => use'[r] = use[r]
      /\ GetNew => s = InBufs - limit + 1
      /\ ~GetNew => s = Head(have) /\ have # <<>>
  BY <1>1, GotUnused, Zenon
<1>3. UNCHANGED <<drop, useLock>> /\ mpc # "done"
  BY ControlParts, Zenon DEF GetNew, GetUse, MainInv
<1>4. CASE GetNew
  <2>1. have = <<>> /\ have' = have /\ limit' = limit - 1 /\ limit > 0
    BY <1>4, Zenon DEF GetNew
  <2>2. PushInv'
    BY <1>2, <1>3, <2>1, DropFacts, Zenon DEF PushInv
  <2>3. \A r \in Spaces : r # s => (r <= InBufs - limit' <=> r <= InBufs - limit)
    BY <1>2, <1>4, <2>1, DropFacts
  <2>4. s <= InBufs - limit' /\ Elems(have) = {}
    BY <1>2, <1>4, <2>1, DropFacts, EmptyList
  <2>5. \A r \in Spaces : ~(r > InBufs - limit') <=> r <= InBufs - limit'
    BY <2>1, DropFacts
  <2>6. \A r \in Spaces : ~(r > InBufs - limit) <=> r <= InBufs - limit
    BY DropFacts
  <2> QED BY <1>2, <1>3, <2>1, <2>2, <2>3, <2>4, <2>5, <2>6 DEF HaveInv
<1>5. CASE ~GetNew
  <2>1. have' = Tail(have) /\ UNCHANGED limit /\ s \in Elems(have)
        /\ Elems(Tail(have)) = Elems(have) \ {s} /\ Distinct(Tail(have))
    BY <1>2, <1>5, DropFacts, TailElems, Zenon DEF GetUse, HaveInv
  <2>2. PushInv'
    BY <1>2, <1>3, <2>1, DropFacts, Zenon DEF PushInv
  <2> QED BY <1>2, <1>3, <2>1, <2>2, DropFacts DEF HaveInv
<1> QED BY <1>4, <1>5, Zenon

\* One more use of a buffer that is used, its count not locked: to be a dictionary, or
\* to be checked.
LEMMA RaiseHaveStep ==
  ASSUME ControlInv, InUse, LocksInv, PushInv, HaveInv, NEW s \in Spaces, use[s] # 0,
         useLock[s] = Nobody, use' = [use EXCEPT ![s] = @ + 1],
         UNCHANGED <<limit, have, useLock, drop>>, mpc' = "done" <=> mpc = "done"
  PROVE  PushInv' /\ HaveInv'
<1>1. /\ use'[s] # 0 /\ use'[s] # 1 /\ \A r \in Spaces : r # s => use'[r] = use[r]
  BY DropFacts
<1>2. s \notin Elems(have) /\ s <= InBufs - limit
  BY DropFacts DEF HaveInv
<1>3. \A t \in Threads : drop[t].step \in {"push", "twist"} => drop[t].space \in Spaces /\ drop[t].space # s
  BY DropFacts, ThreadFacts DEF LocksInv
<1>4. PushInv'
  BY <1>1, <1>3, Zenon DEF PushInv
<1>5. ~(s > InBufs - limit)
  BY <1>2, DropFacts
<1>6. HaveInv'
  BY <1>1, <1>2, <1>5, Zenon DEF HaveInv
<1> QED BY <1>4, <1>6, Zenon

LEMMA DropHaveStep ==
  ASSUME ControlInv, InUse, LocksInv, PushInv, HaveInv, NEW t \in Threads, Dropping(t)
  PROVE  PushInv' /\ HaveInv'
<1>1. PICK s : s = drop[t].space
  BY Zenon
<1>2. s \in Spaces /\ use[s] \in Nat \ {0} /\ \A u \in Threads : u # t => drop'[u] = drop[u]
  BY <1>1, DropFacts, Zenon DEF Dropping, DropPossess, DropPush, DropTwist
<1>3. UNCHANGED <<mpc, limit>>
  BY DroppingKeeps, Zenon DEF main
<1>4. CASE DropPossess(t)
  <2>1. /\ drop'[t].space = s /\ drop'[t].step = (IF use[s] = 1 THEN "push" ELSE "twist")
        /\ useLock[s] = Nobody /\ UNCHANGED <<have, use>> /\ useLock'[s] = t
        /\ \A r \in Spaces : r # s => useLock'[r] = useLock[r]
    BY <1>1, <1>2, <1>4, DropFacts DEF DropPossess
  <2>2. s \notin Elems(have)
    BY <1>2, <2>1, DropFacts, Zenon DEF HaveInv
  <2>3. PushInv'
    BY <1>2, <2>1, <2>2, Zenon DEF PushInv
  <2>4. HaveInv'
    BY <1>2, <1>3, <2>1, <2>2, Zenon DEF HaveInv
  <2> QED BY <2>3, <2>4, Zenon
<1>5. CASE DropPush(t)
  <2>1. /\ drop'[t].space = s /\ drop'[t].step = "twist" /\ drop[t].step = "push"
        /\ have' = <<s>> \o have /\ UNCHANGED <<use, useLock>>
    BY <1>1, <1>2, <1>5, DropFacts DEF DropPush
  <2>2. /\ use[s] = 1 /\ s \notin Elems(have) /\ useLock[s] = t /\ t # Nobody
    BY <1>1, <2>1, ThreadFacts DEF PushInv, LocksInv
  <2>3. Elems(have') = Elems(have) \cup {s} /\ Distinct(have')
    <3>1. have \in Seq(Spaces) /\ Distinct(have)
      BY DropFacts, Zenon DEF HaveInv
    <3>2. Elems(<<s>> \o have) = Elems(have) \cup {s} /\ Distinct(<<s>> \o have)
      BY <1>2, <2>2, <3>1, PushElems
    <3> QED BY <2>1, <3>2, Zenon
  <2>4. \A u \in Threads : u # t /\ drop[u].step \in {"push", "twist"} => drop[u].space # s
    BY <2>2, Zenon DEF LocksInv
  <2>5. PushInv'
    BY <1>2, <2>1, <2>3, <2>4, Zenon DEF PushInv
  <2>6. s <= InBufs - limit
    <3>1. ~(s > InBufs - limit)
      BY <1>2, <2>2, Zenon DEF HaveInv
    <3> QED BY <1>2, <3>1, DropFacts
  <2>7. HaveInv'
    BY <1>2, <1>3, <2>1, <2>2, <2>3, <2>6, Zenon DEF HaveInv
  <2> QED BY <2>5, <2>7, Zenon
<1>6. CASE DropTwist(t)
  <2>1. /\ drop'[t].step = "no" /\ drop[t].step = "twist"
        /\ use'[s] = use[s] - 1 /\ (\A r \in Spaces : r # s => use'[r] = use[r])
        /\ \A r \in Spaces : r # s => useLock'[r] = useLock[r]
        /\ UNCHANGED have
    BY <1>1, <1>2, <1>6, DropFacts, Zenon DEF DropTwist, NoDrop
  <2>2. useLock[s] = t /\ (use[s] = 1 => s \in Elems(have))
    BY <1>1, <2>1, Zenon DEF PushInv, LocksInv
  <2>3. \A u \in Threads : u # t /\ drop[u].step \in {"push", "twist"} =>
          drop[u].space # s /\ drop[u].space \in Spaces
    BY <2>2, DropFacts, Zenon DEF LocksInv
  <2>4. PushInv'
    BY <1>2, <2>1, <2>3 DEF PushInv
  <2>5. use'[s] = 0 <=> use[s] = 1
    BY <1>2, <2>1
  <2>6. ~(s > InBufs - limit) /\ (s \in Elems(have) => use[s] = 1)
    BY <1>2, Zenon DEF HaveInv
  <2>7. HaveInv'
    BY <1>3, <2>1, <2>2, <2>5, <2>6, Zenon DEF HaveInv
  <2> QED BY <2>4, <2>7, Zenon
<1> QED BY <1>4, <1>5, <1>6, Zenon DEF Dropping

LEMMA HaveStep ==
  ASSUME ControlInv, InUse, LocksInv, PushInv, HaveInv, Next
  PROVE  PushInv' /\ HaveInv'
<1>1. CASE NewJob /\ More
  <2>1. curr \in Spaces /\ None \notin Spaces /\ InSpace(seq) = curr /\ seq \in Nat
    <3>1. PICK n : n = seq + 1
      BY Zenon
    <3> QED BY <1>1, <3>1, ControlParts, OfNew, Outside, ThreadFacts, Zenon DEF NewJob, MainInv
  <2>2. use[curr] # 0
    BY <2>1, Zenon DEF InUse
  <2>3. /\ useLock[curr] = Nobody /\ use' = [use EXCEPT ![curr] = @ + 1]
        /\ UNCHANGED <<limit, have, useLock, drop>> /\ mpc = "job" /\ mpc' = "enqueue"
    BY <1>1, Zenon DEF NewJob
  <2>4. mpc' = "done" <=> mpc = "done"
    BY <2>3, Zenon
  <2> QED BY <2>1, <2>2, <2>3, <2>4, RaiseHaveStep, Zenon
<1>2. ASSUME NEW t \in Compressors, Compress(t) PROVE PushInv' /\ HaveInv'
  <2>1. PICK s : s = job[mine[t]].in
    BY Zenon
  <2>2. s \in Spaces /\ None \notin Spaces /\ InSpace(mine[t]) = s /\ mine[t] \in Nat
    BY <1>2, <2>1, CheckGain, ThreadFacts, Outside, Zenon
  <2>3. use[s] # 0
    BY <2>2, Zenon DEF InUse
  <2>4. /\ useLock[s] = Nobody /\ use' = [use EXCEPT ![s] = @ + 1]
        /\ UNCHANGED <<limit, have, useLock, drop>> /\ mpc' = mpc
    BY <1>2, <2>1, Zenon DEF Compress, main
  <2> QED BY <2>2, <2>3, <2>4, RaiseHaveStep, Zenon
<1>3. CASE Begins
  <2>1. PICK t \in Threads, s \in Spaces :
          /\ Free(t) /\ Drop(t, s) /\ UNCHANGED <<limit, have, use, useLock>>
          /\ mpc' = "done" <=> mpc = "done"
    BY <1>3, BeginsDrop, Zenon
  <2>2. drop'[t].step = "possess" /\ \A u \in Threads : u # t => drop'[u] = drop[u]
    BY <2>1, DropFacts, Zenon DEF Drop
  <2>3. PushInv'
    BY <2>1, <2>2, Zenon DEF PushInv
  <2> QED BY <2>1, <2>3, Zenon DEF HaveInv
<1>4. CASE FreePools
  <2>1. /\ mpc = "free" /\ mpc' = "done" /\ have' = <<>> /\ UNCHANGED <<limit, use, useLock, drop>>
    BY <1>4, Zenon DEF FreePools
  <2>2. \A t \in Threads : drop[t].step = "no"
    <3>1. \A t \in Threads : Free(t)
      <4>1. /\ \A t \in Compressors : cpc[t] \in {"none", "exited"}
            /\ wpc # "write" /\ mpc # "join"
        BY <2>1, ControlParts, Outside, Zenon DEF MainInv
      <4> QED BY <4>1, ControlParts, ThreadFacts, Zenon DEF DropInv
    <3> QED BY <3>1 DEF Free, NoDrop
  <2>3. Elems(have') = {} /\ Distinct(have')
    BY <2>1, EmptyList, Zenon
  <2>4. PushInv'
    BY <2>1, <2>2, Zenon DEF PushInv
  <2> QED BY <2>1, <2>3, <2>4, Zenon DEF HaveInv
<1>5. ASSUME UNCHANGED <<limit, have, use, useLock, drop>>, mpc' = "done" <=> mpc = "done"
      PROVE  PushInv' /\ HaveInv'
  BY <1>5, Zenon DEF PushInv, HaveInv
<1> QED BY <1>1, <1>2, <1>3, <1>4, <1>5, GetHaveStep, DropHaveStep, PoolQuiet, Zenon

\* The job just made has the buffers that the main thread had.
MadeInv == mpc = "enqueue" => job[seq].in = curr /\ (~job[seq].more => job[seq].dict = dict)

LEMMA MadeStep == ASSUME ControlInv, MadeInv, Next PROVE MadeInv'
<1>1. CASE NewJob
  <2>1. /\ job'[seq].in = curr /\ job'[seq].dict = dict /\ job'[seq].more = More
        /\ (~More => UNCHANGED dict) /\ UNCHANGED <<seq, curr>>
    BY <1>1, Zenon DEF NewJob
  <2> QED BY <2>1, Zenon DEF MadeInv
<1>2. ASSUME UNCHANGED <<main, job>> PROVE MadeInv'
  BY <1>2, Zenon DEF MadeInv, main
<1>3. CASE GetNew \/ GetUse \/ Launch \/ Enqueue \/ Join \/ Finish \/ JoinAll \/ FreePools
  <2>1. mpc' # "enqueue"
    BY <1>3, Zenon DEF GetNew, GetUse, ReadInto, Launch, Enqueue, Join, Finish, JoinAll, FreePools
  <2> QED BY <2>1, Zenon DEF MadeInv
<1>4. ASSUME NEW t \in Compressors, JobStep(t) PROVE MadeInv'
  <2>1. UNCHANGED main /\ (mpc = "enqueue" => seq \in DOMAIN job)
    BY <1>4, ControlParts, Zenon DEF JobStep, SetDictionary, Compress, Calc, JobInv
  <2>2. \A k \in DOMAIN job : /\ job'[k].in = job[k].in /\ job'[k].dict = job[k].dict
                              /\ job'[k].more = job[k].more
    BY <1>4, JobStepKeeps, Zenon
  <2> QED BY <2>1, <2>2, Zenon DEF MadeInv, main
<1>5. CASE Combine
  <2>1. /\ wpc = "calc" /\ UNCHANGED main /\ \A n \in DOMAIN job : n # want => job'[n] = job[n]
    BY <1>5, Zenon DEF Combine
  <2>2. mpc = "enqueue" => seq \in DOMAIN job /\ seq # want
    BY <2>1, ControlParts, Zenon DEF JobInv, StageInv, Fresh, AtWriter
  <2> QED BY <2>1, <2>2, Zenon DEF MadeInv, main
<1>6. CASE GetHead \/ TakeWrite \/ WriteOut \/ Trailer
  BY <1>2, <1>6, Zenon DEF GetHead, TakeWrite, WriteOut, Trailer
<1>7. ASSUME NEW t \in Compressors, TakeJob(t) \/ Leave(t) \/ InsertWrite(t) \/ Check(t) PROVE MadeInv'
  BY <1>2, <1>7, Zenon DEF TakeJob, Leave, InsertWrite, Check
<1> QED BY <1>1, <1>2, <1>3, <1>4, <1>5, <1>6, <1>7, DroppingKeeps, NextCases, Zenon DEF JobStep

LEMMA JobSpaces ==
  ASSUME ControlInv, NEW k \in DOMAIN job
  PROVE  /\ k \in Nat /\ job[k].in \in Spaces /\ job[k].dict \in Spaces \cup {None}
         /\ ~AtWriter(k) => InSpace(k) = job[k].in
         /\ Undone(k) => OfSpace(k) = job[k].dict
<1>1. job[k] \in Job /\ k \in Nat
  BY ControlParts, Zenon DEF JobType
<1>2. job[k].in \in Spaces /\ job[k].dict \in Spaces \cup {None}
  BY <1>1, Zenon DEF Job
<1> QED BY <1>1, <1>2, Outside, Zenon DEF InSpace, OfSpace

LEMMA HeldSpaces ==
  ASSUME ControlInv, NEW k \in Nat
  PROVE  /\ InSpace(k) \in Spaces \cup {None} /\ OfSpace(k) \in Spaces \cup {None}
         /\ CheckSpace(k) \in Spaces \cup {None} /\ DropSpace(k) \in Spaces \cup {None}
<1>1. \A n \in DOMAIN job : job[n].in \in Spaces /\ job[n].dict \in Spaces \cup {None}
  BY JobSpaces, Zenon
<1>2. curr \in Spaces \cup {None} /\ next \in Spaces \cup {None} /\ dict \in Spaces \cup {None}
  BY ControlParts, Zenon DEF MainType
<1>3. \A t \in Compressors : cpc[t] \in {"insert", "check"} => mine[t] \in DOMAIN job
  BY ControlParts, Zenon DEF ListInv, Working
<1>4. \A t \in Threads : drop[t].space \in Spaces \cup {None}
  BY ControlParts, Zenon DEF LockType
<1> QED BY <1>1, <1>2, <1>3, <1>4, Zenon DEF InSpace, OfSpace, CheckSpace, DropSpace

\* No thread looks into the buffer any more.  The last one that lets go of it may still
\* be about to count that.
Unread(s) ==
  /\ \A k \in Nat : InSpace(k) # s /\ OfSpace(k) # s
  /\ \A t \in Nat : CheckSpace(t) # s
LastUser == \A t \in Threads : drop[t].space \in Spaces /\ use[drop[t].space] = 1 => Unread(drop[t].space)

LEMMA UnusedUnread == ASSUME InUse, NEW s \in Spaces, use[s] = 0 PROVE Unread(s)
BY ThreadFacts, Zenon DEF InUse, Unread

LEMMA FreeUnread ==
  ASSUME InUse, LocksInv, HaveInv, LastUser, NEW s \in Spaces, s \in Elems(have)
  PROVE  Unread(s)
<1>1. CASE use[s] = 0
  BY <1>1, UnusedUnread, Zenon
<1>2. CASE use[s] = 1 /\ useLock[s] # Nobody
  <2>1. useLock[s] \in Threads /\ drop[useLock[s]].space = s
    BY <1>2, Zenon DEF LocksInv
  <2> QED BY <1>2, <2>1, Zenon DEF LastUser
<1> QED BY <1>1, <1>2, Zenon DEF HaveInv

LEMMA MainUnread ==
  ASSUME ControlInv, MadeInv, NEW s, Unread(s) PROVE ~HeldByMain(s)
<1>1. seq \in Nat /\ seq + 1 \in Nat /\ seq + 1 # seq
  BY Outside, Zenon
<1>2. InSpace(seq) # s /\ OfSpace(seq) # s /\ InSpace(seq + 1) # s /\ OfSpace(seq + 1) # s
  BY <1>1, Zenon DEF Unread
<1>3. CASE mpc = "more"
  <2>1. InSpace(seq) = curr /\ OfSpace(seq) = dict /\ next = curr
    BY <1>3, ControlParts, Zenon DEF InSpace, OfSpace, MainInv
  <2> QED BY <1>2, <2>1, Zenon DEF HeldByMain
<1>4. CASE mpc = "job"
  <2>1. InSpace(seq) = curr /\ OfSpace(seq) = dict /\ InSpace(seq + 1) = next
    BY <1>1, <1>4, Zenon DEF InSpace, OfSpace
  <2> QED BY <1>2, <2>1, Zenon DEF HeldByMain
<1>5. CASE mpc = "enqueue"
  <2>1. InSpace(seq + 1) = next /\ (job[seq].more => OfSpace(seq + 1) = dict)
    BY <1>1, <1>5, Zenon DEF InSpace, OfSpace
  <2>2. seq \in DOMAIN job /\ ~AtWriter(seq) /\ Undone(seq)
    BY <1>5, ControlParts, Zenon DEF JobInv, StageInv, Fresh, Undone
  <2>3. InSpace(seq) = curr /\ (~job[seq].more => OfSpace(seq) = dict)
    BY <1>5, <2>2, JobSpaces, Zenon DEF MadeInv
  <2> QED BY <1>2, <2>1, <2>3, Zenon DEF HeldByMain
<1> QED BY <1>3, <1>4, <1>5, Zenon DEF HeldByMain

LEMMA PoolFree ==
  ASSUME ControlInv, InUse, LocksInv, HaveInv, LastUser, MadeInv
  PROVE  PoolIsFree
<1>1. have \in Seq(Spaces) /\ compress \in Seq(Nat)
  BY ControlParts, Zenon DEF PoolType, ListType
<1>2. DOMAIN have = 1..Len(have) /\ DOMAIN compress = 1..Len(compress)
  BY <1>1
<1>3. \A i \in DOMAIN compress : compress[i] \in Elems(compress)
  BY <1>2, Zenon DEF Elems
<1> SUFFICES ASSUME NEW i \in DOMAIN have, NEW s, s = have[i]
             PROVE  /\ \A j \in DOMAIN have : have[j] = s => i = j
                    /\ ~HeldByMain(s)
                    /\ \A k \in DOMAIN job : ~InputOf(s, k) /\ ~DictionaryOf(s, k)
                    /\ \A t \in Compressors : ~CheckedBy(s, t)
  BY Zenon DEF PoolIsFree
<1>4. s \in Elems(have)
  BY <1>2, Zenon DEF Elems
<1>5. s \in Spaces
  BY <1>1, <1>2
<1>6. Unread(s)
  BY <1>4, <1>5, FreeUnread, Zenon
<1>7. \A j \in DOMAIN have : have[j] = s => i = j
  BY <1>2, Zenon DEF HaveInv, Distinct
<1>8. ASSUME NEW k \in DOMAIN job PROVE ~InputOf(s, k) /\ ~DictionaryOf(s, k)
  <2>1. InSpace(k) # s /\ OfSpace(k) # s
    BY <1>6, JobSpaces, Zenon DEF Unread
  <2>2. InputOf(s, k) => ~AtWriter(k) /\ job[k].in = s
    BY Zenon DEF InputOf, AtWriter
  <2>3. DictionaryOf(s, k) => Undone(k) /\ job[k].dict = s
    BY <1>3, Zenon DEF DictionaryOf, Undone
  <2> QED BY <2>1, <2>2, <2>3, JobSpaces, Zenon
<1>9. ASSUME NEW t \in Compressors PROVE ~CheckedBy(s, t)
  BY <1>6, ThreadFacts, Zenon DEF Unread, CheckedBy, CheckSpace
<1> QED BY <1>6, <1>7, <1>8, <1>9, MainUnread, Zenon
-----------------------------------------------------------------------------
\* What is in the buffers, the jobs and the results while a stream is compressed.
BlockAt(k) == IF k <= InOrder!Count THEN InOrder!Block(k) ELSE <<stream, 0>>
BufInv ==
  /\ \A k \in Nat :
       /\ InSpace(k) # None => buf[InSpace(k)] = BlockAt(k)
       /\ OfSpace(k) # None => buf[OfSpace(k)] = BlockAt(k - 1)
  /\ \A t \in Compressors : CheckSpace(t) # None => buf[CheckSpace(t)] = BlockAt(mine[t])
ReadInv ==
  /\ mpc = "first" => read = 0 /\ seq = 1
  /\ mpc \in {"more", "job", "enqueue"} => seq <= InOrder!Count
  /\ mpc \in {"more", "job"} => (dict = None <=> seq = 1)
  /\ mpc = "enqueue" /\ job[seq].more => dict # None
  /\ mpc = "more" => read = InOrder!Number(seq)
  /\ mpc \in {"job", "enqueue"} =>
       read = InOrder!Number(IF seq < InOrder!Count THEN seq + 1 ELSE seq)
  /\ mpc = "join" => seq = InOrder!Count
JobWork(k) ==
  /\ job[k].more <=> k < InOrder!Count
  /\ Undone(k) => job[k].from = Nothing /\ (job[k].dict = None <=> k = 1)
  /\ ~Undone(k) => job[k].from = InOrder!Dictionary(k)
  /\ k \in Elems(write) \/ AtWriter(k) => job[k].data = InOrder!Block(k)
  /\ job[k].calc = 1 => job[k].check = InOrder!Block(k)
ThreadWork(t) ==
  /\ cpc[t] = "insert" => job[mine[t]].data = InOrder!Block(mine[t])
  /\ cpc[t] = "calc" => sum[t] = InOrder!Block(mine[t])
WorkInv == (\A k \in DOMAIN job : JobWork(k)) /\ (\A t \in Compressors : ThreadWork(t))
ResultInv ==
  /\ Len(output) = IF wpc \in {"take", "write"} THEN want - 1 ELSE want
  /\ Len(check) = IF wpc \in {"take", "write", "calc"} THEN want - 1 ELSE want
  /\ wpc \in {"trailer", "exited"} => want = InOrder!Count
Content == Running => BufInv /\ ReadInv /\ WorkInv /\ ResultInv

LEMMA StreamFacts ==
  ASSUME ControlInv, Running
  PROVE  /\ Inputs[stream] \in Nat /\ InOrder!Count \in Nat /\ InOrder!Count >= 1
         /\ Inputs[stream] = 0 => InOrder!Count = 1 /\ \A k : InOrder!Number(k) = 0
         /\ Inputs[stream] # 0 => InOrder!Count = Inputs[stream] /\ \A k : InOrder!Number(k) = k
<1>1. stream \in 1..Len(Inputs)
  BY ControlParts, PigzAssumption DEF MainInv, MainType
<1>2. Inputs[stream] \in Nat
  BY <1>1, PigzAssumption
<1> QED BY <1>2 DEF InOrder!Count, InOrder!Number

LEMMA SameStream ==
  ASSUME stream' = stream
  PROVE  /\ InOrder!Count' = InOrder!Count
         /\ \A k : /\ InOrder!Number(k)' = InOrder!Number(k) /\ InOrder!Block(k)' = InOrder!Block(k)
                   /\ InOrder!Dictionary(k)' = InOrder!Dictionary(k) /\ BlockAt(k)' = BlockAt(k)
BY Zenon DEF InOrder!Count, InOrder!Number, InOrder!Block, InOrder!Dictionary, BlockAt

\* The stream is the same while it is compressed.
LEMMA StreamStays ==
  ASSUME ControlInv, Next, Running, Running' PROVE stream' = stream
<1>1. CASE Join
  BY <1>1, Zenon DEF Join, Running
<1>2. CASE Launch \/ Finish \/ JoinAll \/ FreePools \/ GetNew \/ GetUse \/ NewJob \/ Enqueue
  BY <1>2, Zenon DEF Launch, Finish, JoinAll, FreePools, GetNew, GetUse, NewJob, Enqueue
<1>3. CASE GetHead \/ TakeWrite \/ WriteOut \/ Combine \/ Trailer
  BY <1>3, Zenon DEF GetHead, TakeWrite, WriteOut, Combine, Trailer, main
<1>4. ASSUME NEW t \in Compressors,
             TakeJob(t) \/ Leave(t) \/ SetDictionary(t) \/ Compress(t) \/ InsertWrite(t)
             \/ Check(t) \/ Calc(t)
      PROVE  stream' = stream
  BY <1>4, Zenon DEF TakeJob, Leave, SetDictionary, Compress, InsertWrite, Check, Calc, main
<1>5. ASSUME NEW t \in Threads, Dropping(t) PROVE stream' = stream
  BY <1>5, DroppingKeeps, Zenon DEF main
<1> QED BY <1>1, <1>2, <1>3, <1>4, <1>5, NextCases, Zenon

\* readn: the number of blocks read, and the block that is in the buffer.
LEMMA ReadBlock ==
  ASSUME ControlInv, ReadInv, NEW s \in Spaces, ReadInto(s), mpc \in {"first", "more"}, NEW n, n = NextIn
  PROVE  /\ buf'[s] = BlockAt(n) /\ \A r \in Spaces : r # s => buf'[r] = buf[r]
         /\ mpc = "first" => n = 1 /\ read' = InOrder!Number(1) /\ 1 <= InOrder!Count
         /\ mpc = "more" => read' = InOrder!Number(IF seq < InOrder!Count THEN seq + 1 ELSE seq)
<1>1. Running
  BY Zenon DEF Running
<1>2. /\ seq \in Nat \ {0} /\ read \in Nat /\ buf \in [Spaces -> Blocks]
  BY ControlParts, Zenon DEF MainType, PoolType
<1>3. /\ buf'[s] = <<stream, IF read < Inputs[stream] THEN read + 1 ELSE 0>>
      /\ \A r \in Spaces : r # s => buf'[r] = buf[r]
      /\ read' = IF read < Inputs[stream] THEN read + 1 ELSE read
  BY <1>2, Zenon DEF ReadInto
<1>4. CASE mpc = "first"
  <2>1. read = 0 /\ seq = 1 /\ n = 1
    BY <1>4, Zenon DEF ReadInv, NextIn
  <2> QED BY <1>1, <1>3, <1>4, <2>1, StreamFacts DEF BlockAt, InOrder!Block
<1>5. CASE mpc = "more"
  <2>1. read = InOrder!Number(seq) /\ seq <= InOrder!Count /\ n = seq + 1
    BY <1>5, Zenon DEF ReadInv, NextIn
  <2>2. CASE Inputs[stream] = 0
    BY <1>1, <1>2, <1>3, <1>5, <2>1, <2>2, StreamFacts DEF BlockAt, InOrder!Block
  <2>3. CASE Inputs[stream] # 0
    BY <1>1, <1>2, <1>3, <1>5, <2>1, <2>3, StreamFacts DEF BlockAt, InOrder!Block
  <2> QED BY <2>2, <2>3, Zenon
<1> QED BY <1>4, <1>5, Zenon

\* A job is the last one if readn found nothing after its block.
LEMMA MoreBlocks ==
  ASSUME ControlInv, ReadInv, BufInv, mpc = "job"
  PROVE  More <=> seq < InOrder!Count
<1>1. Running /\ seq \in Nat \ {0} /\ seq + 1 \in Nat /\ next \in Spaces
  BY ControlParts, Outside, Zenon DEF Running, MainType, MainInv
<1>2. InSpace(seq + 1) = next
  BY <1>1 DEF InSpace
<1>3. next # None
  BY <1>1, ThreadFacts, Zenon
<1>4. buf[next] = BlockAt(seq + 1)
  BY <1>1, <1>2, <1>3, Zenon DEF BufInv
<1> QED BY <1>1, <1>4, StreamFacts DEF More, BlockAt, InOrder!Block

LEMMA ReadStep ==
  ASSUME ControlInv, Next, Running, Running', BufInv, ReadInv, WorkInv
  PROVE  ReadInv'
<1>0. /\ stream' = stream /\ InOrder!Count' = InOrder!Count
      /\ \A k : InOrder!Number(k)' = InOrder!Number(k)
  BY StreamStays, SameStream, Zenon
<1>1. seq \in Nat \ {0} /\ InOrder!Count \in Nat
  BY ControlParts, StreamFacts, Zenon DEF MainType
<1>2. ASSUME UNCHANGED main, mpc = "enqueue" => job'[seq].more = job[seq].more PROVE ReadInv'
  BY <1>0, <1>2, Zenon DEF ReadInv, main
<1>3. CASE GetNew \/ GetUse
  <2>1. PICK s \in Spaces : ReadInto(s) /\ mpc \in {"first", "more"}
    BY <1>3, GotSpace, Zenon
  <2>2. UNCHANGED <<seq, dict>>
    BY <1>3, Zenon DEF GetNew, GetUse
  <2>3. mpc' = IF mpc = "first" THEN "more" ELSE "job"
    BY <2>1, Zenon DEF ReadInto
  <2>4. PICK n : n = NextIn
    BY Zenon
  <2>5. CASE mpc = "first"
    <3>1. mpc' = "more" /\ dict' = None /\ seq' = 1
      BY <2>2, <2>3, <2>5, ControlParts, Zenon DEF ReadInv, MainInv
    <3>2. read' = InOrder!Number(1) /\ 1 <= InOrder!Count
      BY <2>1, <2>4, <2>5, ReadBlock, Zenon
    <3> QED BY <1>0, <3>1, <3>2, Zenon DEF ReadInv
  <2>6. CASE mpc = "more"
    <3>1. mpc' = "job" /\ UNCHANGED <<seq, dict>>
      BY <2>2, <2>3, <2>6, Zenon
    <3>2. read' = InOrder!Number(IF seq < InOrder!Count THEN seq + 1 ELSE seq)
      BY <2>1, <2>4, <2>6, ReadBlock, Zenon
    <3> QED BY <1>0, <2>6, <3>1, <3>2, Zenon DEF ReadInv
  <2> QED BY <2>1, <2>5, <2>6, Zenon
<1>4. CASE NewJob
  <2>1. /\ mpc = "job" /\ mpc' = "enqueue" /\ UNCHANGED <<seq, read>> /\ job'[seq].more = More
        /\ (More => dict' = curr) /\ curr \in Spaces
    BY <1>4, ControlParts, Zenon DEF NewJob, MainInv
  <2>2. curr # None
    BY <2>1, ThreadFacts, Zenon
  <2> QED BY <1>0, <2>1, <2>2, Zenon DEF ReadInv
<1>5. CASE Enqueue
  <2>1. /\ mpc = "enqueue" /\ UNCHANGED <<dict, read>> /\ seq \in DOMAIN job
    BY <1>5, ControlParts, Zenon DEF Enqueue, JobInv
  <2>2. job[seq].more <=> seq < InOrder!Count
    BY <2>1, Zenon DEF WorkInv, JobWork
  <2>3. CASE job[seq].more
    <3>1. mpc' = "more" /\ seq' = seq + 1
      BY <1>5, <2>3, Zenon DEF Enqueue
    <3>2. dict # None /\ read = InOrder!Number(seq + 1)
      BY <2>1, <2>2, <2>3, Zenon DEF ReadInv
    <3> QED BY <1>0, <1>1, <2>1, <2>2, <2>3, <3>1, <3>2 DEF ReadInv
  <2>4. CASE ~job[seq].more
    <3>1. mpc' = "join" /\ seq' = seq
      BY <1>5, <2>4, Zenon DEF Enqueue
    <3> QED BY <1>0, <1>1, <2>1, <2>2, <2>4, <3>1 DEF ReadInv
  <2> QED BY <2>3, <2>4, Zenon
<1>6. CASE Launch \/ Join \/ Finish \/ JoinAll \/ FreePools
  BY <1>6, Zenon DEF Launch, Join, Finish, JoinAll, FreePools, Running
<1>7. ASSUME NEW t \in Compressors, JobStep(t) PROVE ReadInv'
  <2>1. UNCHANGED main /\ (mpc = "enqueue" => seq \in DOMAIN job)
    BY <1>7, ControlParts, Zenon DEF JobStep, SetDictionary, Compress, Calc, JobInv
  <2>2. \A k \in DOMAIN job : job'[k].more = job[k].more
    BY <1>7, JobStepKeeps, Zenon
  <2> QED BY <1>2, <2>1, <2>2, Zenon
<1>8. CASE Combine
  <2>1. /\ wpc = "calc" /\ UNCHANGED main /\ \A n \in DOMAIN job : n # want => job'[n] = job[n]
    BY <1>8, Zenon DEF Combine
  <2>2. mpc = "enqueue" => seq \in DOMAIN job /\ seq # want
    BY <2>1, ControlParts, Zenon DEF JobInv, StageInv, Fresh, AtWriter
  <2> QED BY <1>2, <2>1, <2>2, Zenon
<1>9. CASE GetHead \/ TakeWrite \/ WriteOut \/ Trailer
  BY <1>2, <1>9, Zenon DEF GetHead, TakeWrite, WriteOut, Trailer
<1>10. ASSUME NEW t \in Compressors, TakeJob(t) \/ Leave(t) \/ InsertWrite(t) \/ Check(t) PROVE ReadInv'
  BY <1>2, <1>10, Zenon DEF TakeJob, Leave, InsertWrite, Check
<1>11. ASSUME NEW t \in Threads, Dropping(t) PROVE ReadInv'
  BY <1>2, <1>11, DroppingKeeps, Zenon
<1> QED BY <1>3, <1>4, <1>5, <1>6, <1>7, <1>8, <1>9, <1>10, <1>11, NextCases, Zenon DEF JobStep

\* One step is one action.
Moves(t, a, b) == cpc[t] = a /\ cpc' = [cpc EXCEPT ![t] = b]

LEMMA MovesOne ==
  ASSUME ControlInv, NEW t \in Compressors, NEW u \in Compressors, NEW a, NEW b, NEW c, NEW d,
         Moves(t, a, b), Moves(u, c, d), a # b
  PROVE  t = u /\ a = c
<1>1. DOMAIN cpc = Compressors
  BY ControlParts, Zenon DEF ThreadType
<1> QED BY <1>1, Zenon DEF Moves

LEMMA Signatures ==
  ASSUME ControlInv
  PROVE  /\ GetNew \/ GetUse => mpc \in {"first", "more"} /\ mpc' # mpc
         /\ NewJob => mpc = "job" /\ mpc' # mpc
         /\ Enqueue => mpc = "enqueue" /\ mpc' # mpc
         /\ TakeWrite => UNCHANGED <<mpc, cpc>> /\ wpc' # wpc
         /\ \A t \in Compressors :
              /\ SetDictionary(t) => UNCHANGED <<mpc, wpc>> /\ Moves(t, "dict", "compress")
              /\ Compress(t) => UNCHANGED <<mpc, wpc>> /\ Moves(t, "compress", "insert")
              /\ Check(t) => UNCHANGED <<mpc, wpc>> /\ Moves(t, "check", "calc")
              /\ SetDictionary(t) \/ Compress(t) \/ Check(t) => cpc' # cpc
         /\ Twisting => UNCHANGED <<mpc, wpc, cpc>>
<1>1. GetNew \/ GetUse => mpc \in {"first", "more"} /\ mpc' # mpc
  <2>1. GetNew \/ GetUse => mpc \in {"first", "more"} /\ mpc' = IF mpc = "first" THEN "more" ELSE "job"
    BY GotSpace, Zenon DEF ReadInto
  <2> QED BY <2>1, Zenon
<1>2. NewJob => mpc = "job" /\ mpc' # mpc
  BY Zenon DEF NewJob
<1>3. Enqueue => mpc = "enqueue" /\ mpc' # mpc
  BY Zenon DEF Enqueue
<1>4. TakeWrite => UNCHANGED <<mpc, cpc>> /\ wpc' # wpc
  BY Zenon DEF TakeWrite, main, comp
<1>5. ASSUME NEW t \in Compressors
      PROVE  /\ SetDictionary(t) => UNCHANGED <<mpc, wpc>> /\ Moves(t, "dict", "compress")
             /\ Compress(t) => UNCHANGED <<mpc, wpc>> /\ Moves(t, "compress", "insert")
             /\ Check(t) => UNCHANGED <<mpc, wpc>> /\ Moves(t, "check", "calc")
             /\ SetDictionary(t) \/ Compress(t) \/ Check(t) => cpc' # cpc
  <2>1. DOMAIN cpc = Compressors
    BY ControlParts, Zenon DEF ThreadType
  <2>2. /\ SetDictionary(t) => UNCHANGED <<mpc, wpc>> /\ Moves(t, "dict", "compress")
        /\ Compress(t) => UNCHANGED <<mpc, wpc>> /\ Moves(t, "compress", "insert")
        /\ Check(t) => UNCHANGED <<mpc, wpc>> /\ Moves(t, "check", "calc")
    BY Zenon DEF SetDictionary, Compress, Check, Moves, main, wthread
  <2>3. SetDictionary(t) \/ Compress(t) \/ Check(t) => cpc' # cpc
    BY <2>1, <2>2, Zenon DEF Moves
  <2> QED BY <2>2, <2>3, Zenon
<1>6. Twisting => UNCHANGED <<mpc, wpc, cpc>>
  BY Zenon DEF Twisting, DropTwist, main, wthread, comp
<1> QED BY <1>1, <1>2, <1>3, <1>4, <1>5, <1>6, Zenon

LEMMA Alone ==
  ASSUME ControlInv
  PROVE  /\ GetNew \/ GetUse => ~NewJob /\ ~Enqueue
         /\ NewJob => ~Enqueue
         /\ GetNew \/ GetUse \/ NewJob \/ Enqueue =>
              /\ ~TakeWrite /\ ~Twisting
              /\ \A t \in Compressors : ~SetDictionary(t) /\ ~Compress(t) /\ ~Check(t)
         /\ TakeWrite =>
              /\ ~Twisting
              /\ \A t \in Compressors : ~SetDictionary(t) /\ ~Compress(t) /\ ~Check(t)
         /\ \A t \in Compressors : SetDictionary(t) \/ Compress(t) \/ Check(t) => ~Twisting
         /\ \A t, u \in Compressors :
              /\ SetDictionary(t) => ~Compress(u) /\ ~Check(u) /\ (SetDictionary(u) => u = t)
              /\ Compress(t) => ~Check(u) /\ (Compress(u) => u = t)
              /\ Check(t) /\ Check(u) => u = t
<1>1. /\ GetNew \/ GetUse => ~NewJob /\ ~Enqueue
      /\ NewJob => ~Enqueue
  BY Signatures, Zenon
<1>2. GetNew \/ GetUse \/ NewJob \/ Enqueue =>
        /\ ~TakeWrite /\ ~Twisting
        /\ \A t \in Compressors : ~SetDictionary(t) /\ ~Compress(t) /\ ~Check(t)
  BY Signatures, Zenon
<1>3. TakeWrite =>
        /\ ~Twisting
        /\ \A t \in Compressors : ~SetDictionary(t) /\ ~Compress(t) /\ ~Check(t)
  BY Signatures, Zenon
<1>4. \A t \in Compressors : SetDictionary(t) \/ Compress(t) \/ Check(t) => ~Twisting
  BY Signatures, Zenon
<1>5. ASSUME NEW t \in Compressors, NEW u \in Compressors
      PROVE  /\ SetDictionary(t) => ~Compress(u) /\ ~Check(u) /\ (SetDictionary(u) => u = t)
             /\ Compress(t) => ~Check(u) /\ (Compress(u) => u = t)
             /\ Check(t) /\ Check(u) => u = t
  <2>1. "dict" # "compress" /\ "compress" # "insert" /\ "check" # "calc" /\ "dict" # "check"
        /\ "compress" # "check"
    BY Zenon
  <2> QED BY <2>1, Signatures, MovesOne, Zenon
<1> QED BY <1>1, <1>2, <1>3, <1>4, <1>5, Zenon

\* Whoever has a buffer finds in it what it was read for.
LEMMA BufSame ==
  ASSUME ControlInv, Running, stream' = stream, BufInv, UNCHANGED buf,
         \A k \in Nat : /\ InSpace(k)' = InSpace(k) \/ InSpace(k)' = None
                        /\ OfSpace(k)' = OfSpace(k) \/ OfSpace(k)' = None,
         \A t \in Compressors : \/ CheckSpace(t)' = None
                                \/ CheckSpace(t)' = CheckSpace(t) /\ mine'[t] = mine[t]
  PROVE  BufInv'
<1>1. \A k : BlockAt(k)' = BlockAt(k)
  BY SameStream, Zenon
<1>2. \A k \in Nat : /\ InSpace(k)' # None => buf'[InSpace(k)'] = BlockAt(k)'
                     /\ OfSpace(k)' # None => buf'[OfSpace(k)'] = BlockAt(k - 1)'
  BY <1>1, Zenon DEF BufInv
<1>3. \A t \in Compressors : CheckSpace(t)' # None => buf'[CheckSpace(t)'] = BlockAt(mine[t])'
  <2> SUFFICES ASSUME NEW t \in Compressors, CheckSpace(t)' # None
               PROVE  buf'[CheckSpace(t)'] = BlockAt(mine[t])'
    BY Zenon
  <2>1. buf[CheckSpace(t)] = BlockAt(mine[t]) /\ CheckSpace(t)' = CheckSpace(t) /\ mine'[t] = mine[t]
    BY Zenon DEF BufInv
  <2>2. BlockAt(mine[t])' = BlockAt(mine[t])
    BY <2>1, SameStream, Zenon DEF BlockAt, InOrder!Block, InOrder!Count, InOrder!Number
  <2> QED BY <2>1, <2>2, Zenon
<1> QED BY <1>2, <1>3, Zenon DEF BufInv

LEMMA BufGet ==
  ASSUME ControlInv, InUse, LocksInv, HaveInv, GetNew \/ GetUse, BufInv, ReadInv
  PROVE  BufInv'
<1>1. PICK n : n = NextIn
  BY Zenon
<1>2. PICK s : s = next'
  BY Zenon
<1>3. s \in Spaces /\ ReadInto(s) /\ use[s] = 0 /\ mpc \in {"first", "more"}
  BY <1>2, GotUnused, GotSpace, Zenon
<1>4. Unread(s)
  BY <1>3, UnusedUnread, Zenon
<1>5. buf'[s] = BlockAt(n) /\ \A r \in Spaces : r # s => buf'[r] = buf[r]
  BY <1>1, <1>3, ReadBlock, Zenon
<1>6. stream' = stream /\ UNCHANGED <<comp, job>>
  BY Zenon DEF GetNew, GetUse
<1>7. \A k : BlockAt(k)' = BlockAt(k)
  BY <1>6, SameStream, Zenon
<1>8. /\ n \in Nat /\ InSpace(n)' = s /\ \A k \in Nat : k # n => InSpace(k)' = InSpace(k)
  BY <1>1, <1>2, InGet, Zenon
<1>9. /\ \A k \in Nat : OfSpace(k)' = OfSpace(k)
      /\ \A t \in Compressors : CheckSpace(t)' = CheckSpace(t)
  <2>1. Next
    BY Zenon DEF Next, MainStep
  <2> QED BY <2>1, Alone, OfQuiet, CheckQuiet, ThreadFacts, Zenon
<1>10. \A k \in Nat : /\ InSpace(k) \in Spaces \cup {None} /\ OfSpace(k) \in Spaces \cup {None}
                      /\ CheckSpace(k) \in Spaces \cup {None}
  BY HeldSpaces, Zenon
<1>11. ASSUME NEW k \in Nat
       PROVE  /\ InSpace(k)' # None => buf'[InSpace(k)'] = BlockAt(k)'
              /\ OfSpace(k)' # None => buf'[OfSpace(k)'] = BlockAt(k - 1)'
  <2>1. CASE k = n
    BY <1>4, <1>5, <1>7, <1>8, <1>9, <1>10, <2>1, Zenon DEF Unread, BufInv
  <2>2. CASE k # n
    BY <1>4, <1>5, <1>7, <1>8, <1>9, <1>10, <2>2, Zenon DEF Unread, BufInv
  <2> QED BY <2>1, <2>2, Zenon
<1>12. ASSUME NEW t \in Compressors, CheckSpace(t)' # None
       PROVE  buf'[CheckSpace(t)'] = BlockAt(mine[t])'
  <2>1. CheckSpace(t)' = CheckSpace(t) /\ CheckSpace(t) \in Spaces /\ CheckSpace(t) # s
    BY <1>4, <1>9, <1>10, <1>12, ThreadFacts, Zenon DEF Unread
  <2>2. buf'[CheckSpace(t)] = BlockAt(mine[t])
    BY <1>5, <2>1, <1>12, Zenon DEF BufInv
  <2>3. BlockAt(mine[t])' = BlockAt(mine[t])
    BY <1>6, SameStream, Zenon DEF comp, BlockAt, InOrder!Block, InOrder!Count, InOrder!Number
  <2> QED BY <2>1, <2>2, <2>3, Zenon
<1> QED BY <1>11, <1>12, Zenon DEF BufInv

\* Only readn writes into a buffer, and a thread gets a new job when it has no buffer.
LEMMA BufStays ==
  ASSUME ControlInv, Next, ~GetNew, ~GetUse
  PROVE  /\ UNCHANGED buf
         /\ \A t \in Compressors : mine'[t] = mine[t] \/ CheckSpace(t)' = None
<1>1. ASSUME UNCHANGED mine PROVE \A t \in Compressors : mine'[t] = mine[t] \/ CheckSpace(t)' = None
  BY <1>1, Zenon
<1>2. CASE Launch \/ Join \/ Finish \/ JoinAll \/ FreePools \/ NewJob \/ Enqueue
  BY <1>1, <1>2, Zenon DEF Launch, Join, Finish, JoinAll, FreePools, NewJob, Enqueue, comp, pool
<1>3. CASE GetHead \/ TakeWrite \/ WriteOut \/ Combine \/ Trailer
  BY <1>1, <1>3, Zenon DEF GetHead, TakeWrite, WriteOut, Combine, Trailer, comp, pool
<1>4. ASSUME NEW t \in Compressors, Leave(t) \/ SetDictionary(t) \/ Compress(t) \/ InsertWrite(t)
                                    \/ Check(t) \/ Calc(t)
      PROVE  UNCHANGED <<buf, mine>>
  BY <1>4, Zenon DEF Leave, SetDictionary, Compress, InsertWrite, Check, Calc, pool
<1>5. ASSUME NEW t \in Compressors, TakeJob(t)
      PROVE  UNCHANGED buf /\ \A u \in Compressors : mine'[u] = mine[u] \/ CheckSpace(u)' = None
  <2>1. cpc' = [cpc EXCEPT ![t] = "dict"] /\ mine' = [mine EXCEPT ![t] = Head(compress)] /\ UNCHANGED buf
    BY <1>5, Zenon DEF TakeJob, pool
  <2>2. DOMAIN cpc = Compressors /\ DOMAIN mine = Compressors
    BY ControlParts, Zenon DEF ThreadType
  <2>3. cpc'[t] = "dict" /\ \A u \in Compressors : u # t => mine'[u] = mine[u]
    BY <2>1, <2>2, Zenon
  <2>4. CheckSpace(t)' = None
    BY <2>3, Zenon DEF CheckSpace
  <2> QED BY <2>1, <2>3, <2>4, Zenon
<1>6. ASSUME NEW t \in Threads, Dropping(t) PROVE UNCHANGED <<buf, mine>>
  BY <1>6, DroppingKeeps, Zenon DEF comp
<1> QED BY <1>1, <1>2, <1>3, <1>4, <1>5, <1>6, NextCases, Zenon

LEMMA BufStep ==
  ASSUME ControlInv, InUse, LocksInv, HaveInv, Next, Running, Running', BufInv, ReadInv
  PROVE  BufInv'
<1>0. stream' = stream
  BY StreamStays, Zenon
<1>1. CASE GetNew \/ GetUse
  BY <1>1, BufGet, Zenon
<1>2. CASE NewJob /\ More
  <2>1. /\ \A k \in Nat : InSpace(k)' = InSpace(k)
        /\ \A t \in Compressors : CheckSpace(t)' = CheckSpace(t)
    BY <1>2, Alone, InQuiet, CheckQuiet, ThreadFacts, Zenon
  <2>0. PICK n : n = seq + 1
    BY Zenon
  <2>2. /\ OfSpace(n)' = curr /\ InSpace(seq) = curr
        /\ \A k \in Nat : k # n => OfSpace(k)' = OfSpace(k)
    BY <1>2, <2>0, OfNew, Zenon
  <2>3. UNCHANGED <<buf, mine>> /\ seq \in Nat /\ curr # None /\ seq + 1 - 1 = seq
    <3>1. seq \in Nat /\ curr \in Spaces /\ UNCHANGED <<buf, mine>>
      BY <1>2, Outside, ControlParts, Zenon DEF NewJob, MainInv, comp
    <3> QED BY <3>1, ThreadFacts
  <2>4. buf[curr] = BlockAt(seq)
    BY <2>2, <2>3, Zenon DEF BufInv
  <2>5. \A k : BlockAt(k)' = BlockAt(k)
    BY <1>0, SameStream, Zenon
  <2>6. ASSUME NEW k \in Nat
        PROVE  /\ InSpace(k)' # None => buf'[InSpace(k)'] = BlockAt(k)'
               /\ OfSpace(k)' # None => buf'[OfSpace(k)'] = BlockAt(k - 1)'
    <3>1. CASE k = n
      <4>1. k - 1 = seq /\ OfSpace(k)' = curr
        BY <2>0, <2>2, <2>3, <3>1
      <4> QED BY <2>1, <2>3, <2>4, <2>5, <4>1, Zenon DEF BufInv
    <3>2. CASE k # n
      BY <2>1, <2>2, <2>3, <2>5, <3>2, Zenon DEF BufInv
    <3> QED BY <3>1, <3>2, Zenon
  <2>7. ASSUME NEW t \in Compressors, CheckSpace(t)' # None
        PROVE  buf'[CheckSpace(t)'] = BlockAt(mine[t])'
    <3>1. BlockAt(mine[t])' = BlockAt(mine[t])
      BY <1>0, <2>3, SameStream, Zenon DEF BlockAt, InOrder!Block, InOrder!Count, InOrder!Number
    <3> QED BY <2>1, <2>3, <2>7, <3>1, Zenon DEF BufInv
  <2> QED BY <2>6, <2>7, Zenon DEF BufInv
<1>3. ASSUME NEW t \in Compressors, Compress(t) PROVE BufInv'
  <2>1. \A k \in Nat : InSpace(k)' = InSpace(k) /\ OfSpace(k)' = OfSpace(k)
    BY <1>3, Alone, InQuiet, OfQuiet, Zenon
  <2>2. PICK s : s = job[mine[t]].in
    BY Zenon
  <2>3. /\ CheckSpace(t)' = s /\ s \in Spaces /\ InSpace(mine[t]) = s /\ mine[t] \in DOMAIN job
        /\ \A u \in Compressors : u # t => CheckSpace(u)' = CheckSpace(u)
    BY <1>3, <2>2, CheckGain, ThreadFacts, Zenon
  <2>4. UNCHANGED <<buf, mine>>
    BY <1>3, Zenon DEF Compress
  <2>5. buf[s] = BlockAt(mine[t])
    BY <2>3, JobSpaces, ThreadFacts, Zenon DEF BufInv
  <2>6. \A k : BlockAt(k)' = BlockAt(k)
    BY <1>0, SameStream, Zenon
  <2>7. ASSUME NEW u \in Compressors, CheckSpace(u)' # None
        PROVE  buf'[CheckSpace(u)'] = BlockAt(mine[u])'
    <3>1. BlockAt(mine[u])' = BlockAt(mine[u])
      BY <1>0, <2>4, SameStream, Zenon DEF BlockAt, InOrder!Block, InOrder!Count, InOrder!Number
    <3> QED BY <2>3, <2>4, <2>5, <2>7, <3>1, Zenon DEF BufInv
  <2>8. ASSUME NEW k \in Nat
        PROVE  /\ InSpace(k)' # None => buf'[InSpace(k)'] = BlockAt(k)'
               /\ OfSpace(k)' # None => buf'[OfSpace(k)'] = BlockAt(k - 1)'
    BY <2>1, <2>4, <2>6, Zenon DEF BufInv
  <2> QED BY <2>7, <2>8, Zenon DEF BufInv
<1>4. ASSUME ~GetNew, ~GetUse, NewJob => ~More, \A t \in Compressors : ~Compress(t) PROVE BufInv'
  <2>1. ASSUME NEW k \in Nat PROVE InSpace(k)' = InSpace(k) \/ InSpace(k)' = None
    <3>1. CASE Enqueue /\ ~job[seq].more
      <4>1. PICK n : n = seq + 1
        BY Zenon
      <4> QED BY <3>1, <4>1, InLast, Zenon
    <3>2. CASE TakeWrite
      <4>1. PICK n : n = want
        BY Zenon
      <4> QED BY <3>2, <4>1, InTake, Zenon
    <3> QED BY <1>4, <3>1, <3>2, InQuiet, Zenon
  <2>2. ASSUME NEW k \in Nat PROVE OfSpace(k)' = OfSpace(k) \/ OfSpace(k)' = None
    <3>1. ASSUME NEW t \in Compressors, SetDictionary(t)
          PROVE  OfSpace(k)' = OfSpace(k) \/ OfSpace(k)' = None
      <4>1. PICK n : n = mine[t]
        BY Zenon
      <4> QED BY <3>1, <4>1, OfSet, Zenon
    <3> QED BY <1>4, <3>1, OfQuiet, Zenon
  <2>3. ASSUME NEW t \in Compressors PROVE CheckSpace(t)' = CheckSpace(t) \/ CheckSpace(t)' = None
    BY <1>4, CheckQuiet, CheckLose, ThreadFacts, Zenon
  <2> QED BY <1>0, <1>4, <2>1, <2>2, <2>3, BufStays, BufSame, Zenon
<1> QED BY <1>1, <1>2, <1>3, <1>4, Zenon

\* What can happen to a job that is allocated.
LEMMA JobStays ==
  ASSUME ControlInv, Next, NEW k \in DOMAIN job, k \in DOMAIN job',
         \A t \in Compressors : JobStep(t) => mine[t] # k
  PROVE  job'[k] = job[k]
<1>1. ASSUME NEW t \in Compressors, JobStep(t) PROVE job'[k] = job[k]
  BY <1>1, JobStepKeeps, Zenon
<1>2. CASE NewJob
  <2>1. k # seq
    BY <1>2, Outside, Zenon DEF NewJob
  <2> QED BY <1>2, <2>1, Zenon DEF NewJob
<1>3. CASE Combine
  BY <1>3, Zenon DEF Combine
<1>4. CASE GetNew \/ GetUse \/ GetHead \/ Launch \/ Enqueue \/ Join \/ Finish \/ JoinAll \/ FreePools
           \/ TakeWrite \/ WriteOut \/ Trailer
  BY <1>4, Zenon DEF GetNew, GetUse, GetHead, Launch, Enqueue, Join, Finish, JoinAll, FreePools,
                     TakeWrite, WriteOut, Trailer
<1>5. ASSUME NEW t \in Compressors, TakeJob(t) \/ Leave(t) \/ InsertWrite(t) \/ Check(t)
      PROVE  job'[k] = job[k]
  BY <1>5, Zenon DEF TakeJob, Leave, InsertWrite, Check
<1>6. ASSUME NEW t \in Threads, Dropping(t) PROVE job'[k] = job[k]
  BY <1>6, DroppingKeeps, Zenon
<1> QED BY <1>1, <1>2, <1>3, <1>4, <1>5, <1>6, NextCases, Zenon DEF JobStep

LEMMA JobDomain ==
  ASSUME ControlInv, Next
  PROVE  /\ \A k \in DOMAIN job' : k \notin DOMAIN job => NewJob /\ k = seq
         /\ \A k \in DOMAIN job : k \notin DOMAIN job' => Combine /\ k = want
<1>1. CASE NewJob
  BY <1>1, Zenon DEF NewJob
<1>2. CASE Combine
  BY <1>2, Zenon DEF Combine
<1>3. CASE GetNew \/ GetUse \/ GetHead \/ Launch \/ Enqueue \/ Join \/ Finish \/ JoinAll \/ FreePools
           \/ TakeWrite \/ WriteOut \/ Trailer
  BY <1>3, Zenon DEF GetNew, GetUse, GetHead, Launch, Enqueue, Join, Finish, JoinAll, FreePools,
                     TakeWrite, WriteOut, Trailer
<1>4. ASSUME NEW t \in Compressors, TakeJob(t) \/ Leave(t) \/ InsertWrite(t) \/ Check(t) \/ JobStep(t)
      PROVE  DOMAIN job' = DOMAIN job
  BY <1>4, JobStepKeeps, Zenon DEF TakeJob, Leave, InsertWrite, Check
<1>5. ASSUME NEW t \in Threads, Dropping(t) PROVE DOMAIN job' = DOMAIN job
  BY <1>5, DroppingKeeps, Zenon
<1> QED BY <1>1, <1>2, <1>3, <1>4, <1>5, NextCases, Zenon DEF JobStep

LEMMA UndoneStep ==
  ASSUME ControlInv, Next, NEW k \in DOMAIN job,
         \A t \in Compressors : SetDictionary(t) => mine[t] # k
  PROVE  Undone(k)' <=> Undone(k)
<1>1. CASE GetHead \/ TakeWrite \/ WriteOut \/ Trailer \/ Combine
  BY <1>1, UndoneSame, Zenon DEF GetHead, TakeWrite, WriteOut, Trailer, Combine, main, comp
<1>2. CASE Launch \/ Join \/ Finish \/ JoinAll \/ FreePools
  BY <1>2, Outside, ControlParts, Zenon DEF Launch, Join, Finish, JoinAll, FreePools, MainInv, JobInv
<1>3. CASE GetNew \/ GetUse
  <2>1. PICK s \in Spaces : ReadInto(s) /\ mpc \in {"first", "more"}
    BY <1>3, GotSpace, Zenon
  <2>2. UNCHANGED <<compress, cpc, mine>> /\ mpc # "enqueue" /\ mpc' # "enqueue"
    BY <1>3, <2>1, Zenon DEF GetNew, GetUse, comp, ReadInto
  <2> QED BY <2>2, Zenon DEF Undone, Fresh
<1>4. CASE NewJob
  <2>1. mpc = "job" /\ mpc' = "enqueue" /\ UNCHANGED <<seq, compress, cpc, mine>> /\ k # seq
    BY <1>4, Outside, Zenon DEF NewJob, comp
  <2> QED BY <2>1, Zenon DEF Undone, Fresh
<1>5. CASE Enqueue
  <2>1. /\ mpc = "enqueue" /\ mpc' # "enqueue" /\ compress' = Append(compress, seq) /\ UNCHANGED mine
    BY <1>5, Zenon DEF Enqueue
  <2>2. Elems(compress') = Elems(compress) \cup {seq}
    <3>1. seq \in DOMAIN job /\ Fresh(seq) /\ seq \in Nat /\ compress \in Seq(Nat) /\ Distinct(compress)
      BY <2>1, ControlParts, Outside, Zenon DEF ListType, ListInv, JobInv, Fresh
    <3>2. seq \notin Elems(compress)
      BY <3>1, ControlParts, Zenon DEF StageInv
    <3>3. Elems(Append(compress, seq)) = Elems(compress) \cup {seq}
      BY <3>1, <3>2, AppendElems
    <3> QED BY <2>1, <3>3, Zenon
  <2>3. \A t \in Compressors : cpc'[t] = "dict" <=> cpc[t] = "dict"
    <3>1. \A t \in Compressors : t > cthreads => cpc[t] = "none"
      BY ControlParts, Zenon DEF MainInv
    <3>2. cthreads \in Nat /\ DOMAIN cpc = Compressors
      BY ControlParts, ThreadFacts DEF MainType, ThreadType
    <3>3. cthreads + 1 \in Compressors => cpc[cthreads + 1] = "none"
      BY <3>1, <3>2
    <3>4. cpc' = cpc \/ cpc' = [cpc EXCEPT ![cthreads + 1] = "idle"]
      BY <1>5, Zenon DEF Enqueue
    <3> QED BY <3>2, <3>3, <3>4, Zenon
  <2> QED BY <2>1, <2>2, <2>3, Zenon DEF Undone, Fresh
<1>6. ASSUME NEW t \in Compressors, TakeJob(t) PROVE Undone(k)' <=> Undone(k)
  <2>1. /\ UNCHANGED <<mpc, seq>> /\ compress # <<>> /\ compress' = Tail(compress)
        /\ cpc[t] = "idle" /\ cpc'[t] = "dict" /\ mine'[t] = Head(compress)
        /\ \A u \in Compressors : u # t => cpc'[u] = cpc[u] /\ mine'[u] = mine[u]
    BY <1>6, ControlParts, Zenon DEF TakeJob, main, ThreadType
  <2>2. Head(compress) \in Elems(compress) /\ Elems(compress') = Elems(compress) \ {Head(compress)}
    BY <2>1, TailElems, ControlParts, Zenon DEF ListType, ListInv
  <2> QED BY <2>1, <2>2, Zenon DEF Undone, Fresh
<1>7. ASSUME NEW t \in Compressors,
             \/ Leave(t) \/ InsertWrite(t) \/ Check(t) \/ Compress(t) \/ Calc(t)
             \/ SetDictionary(t) /\ mine[t] # k
      PROVE  Undone(k)' <=> Undone(k)
  <2>1. /\ UNCHANGED <<mpc, seq, compress, mine>> /\ (cpc[t] # "dict" \/ mine[t] # k)
        /\ cpc'[t] # "dict" /\ \A u \in Compressors : u # t => cpc'[u] = cpc[u]
    BY <1>7, ControlParts, Zenon DEF Leave, InsertWrite, Check, Compress, Calc, SetDictionary, main, ThreadType
  <2> QED BY <2>1, Zenon DEF Undone, Fresh
<1>8. ASSUME NEW t \in Threads, Dropping(t) PROVE Undone(k)' <=> Undone(k)
  BY <1>8, DroppingKeeps, UndoneSame, Zenon DEF main, comp
<1> QED BY <1>1, <1>2, <1>3, <1>4, <1>5, <1>6, <1>7, <1>8, NextCases, Zenon

\* A result comes to the write thread through the list.
LEMMA WriteArrives ==
  ASSUME ControlInv, Next, NEW k, k \in Elems(write') \/ AtWriter(k)'
  PROVE  k \in Elems(write) \/ AtWriter(k) \/ \E t \in Compressors : InsertWrite(t) /\ mine[t] = k
<1>1. ASSUME UNCHANGED write, UNCHANGED wthread PROVE k \in Elems(write) \/ AtWriter(k)
  BY <1>1, Zenon DEF AtWriter, wthread
<1>2. CASE GetNew \/ GetUse \/ GetHead \/ NewJob \/ Enqueue \/ Finish \/ JoinAll \/ FreePools
  BY <1>1, <1>2, Zenon DEF GetNew, GetUse, GetHead, NewJob, Enqueue, Finish, JoinAll, FreePools
<1>3. CASE Launch \/ Join \/ Trailer \/ Combine
  <2>1. write' = write /\ wpc' \notin {"write", "calc"}
    BY <1>3, Zenon DEF Launch, Join, Trailer, Combine
  <2> QED BY <2>1, Zenon DEF AtWriter
<1>4. CASE WriteOut
  BY <1>4, Zenon DEF WriteOut, AtWriter
<1>5. CASE TakeWrite
  <2>1. write # <<>> /\ Head(write) = want /\ write' = Tail(write) /\ want' = want
    BY <1>5, Zenon DEF TakeWrite
  <2>2. want \in Elems(write) /\ Elems(write') \subseteq Elems(write)
    BY <2>1, TailElems, ControlParts, Zenon DEF ListType, ListInv
  <2> QED BY <2>1, <2>2, Zenon DEF AtWriter
<1>6. ASSUME NEW t \in Compressors, InsertWrite(t)
      PROVE  k \in Elems(write) \/ AtWriter(k) \/ k = mine[t]
  <2>1. PICK n \in 0..Len(write) : write' = Insert(write, mine[t], n)
    BY <1>6, Zenon DEF InsertWrite
  <2>2. /\ UNCHANGED wthread /\ mine[t] \in Nat /\ mine[t] \notin Elems(write)
        /\ write \in Seq(Nat) /\ Distinct(write)
    <3>1. mine[t] \in DOMAIN job /\ Begun(t, mine[t]) /\ UNCHANGED wthread
      BY <1>6, ControlParts, Zenon DEF InsertWrite, ListInv, Begun, Working
    <3> QED BY <3>1, ControlParts, Zenon DEF StageInv, ListType, ListInv, JobType
  <2>3. Elems(Insert(write, mine[t], n)) = Elems(write) \cup {mine[t]}
    BY <2>2, InsertElems
  <2> QED BY <2>1, <2>2, <2>3, Zenon DEF AtWriter, wthread
<1>7. ASSUME NEW t \in Compressors, TakeJob(t) \/ Leave(t) \/ SetDictionary(t) \/ Compress(t)
                                    \/ Check(t) \/ Calc(t)
      PROVE  k \in Elems(write) \/ AtWriter(k)
  BY <1>1, <1>7, Zenon DEF TakeJob, Leave, SetDictionary, Compress, Check, Calc
<1>8. ASSUME NEW t \in Threads, Dropping(t) PROVE k \in Elems(write) \/ AtWriter(k)
  BY <1>1, <1>8, DroppingKeeps, Zenon
<1> QED BY <1>2, <1>3, <1>4, <1>5, <1>6, <1>7, <1>8, NextCases, Zenon

\* The jobs are numbered by the blocks of the stream.
LEMMA JobNumber ==
  ASSUME ControlInv, Running, ReadInv, NEW k \in DOMAIN job
  PROVE  /\ k \in Nat \ {0} /\ k <= InOrder!Count /\ BlockAt(k) = InOrder!Block(k)
         /\ BlockAt(k - 1) = InOrder!Block(k - 1)
         /\ InOrder!Count \in Nat
<1>1. /\ k \in Nat /\ 1 <= want /\ want <= k /\ k <= seq /\ want \in Nat /\ seq \in Nat
      /\ (mpc \in {"first", "more", "job"} => k < seq)
  BY ControlParts, Outside, Zenon DEF JobInv, JobType
<1>2. InOrder!Count \in Nat
  BY StreamFacts, Zenon
<1>3. mpc # "first"
  BY <1>1 DEF ReadInv
<1>4. seq <= InOrder!Count
  BY <1>2, <1>1, <1>3 DEF ReadInv, Running
<1> QED BY <1>1, <1>2, <1>4 DEF BlockAt

LEMMA JobWorkSame ==
  ASSUME stream' = stream, NEW k, JobWork(k), job'[k] = job[k], Undone(k)' <=> Undone(k),
         k \in Elems(write') \/ AtWriter(k)' => k \in Elems(write) \/ AtWriter(k)
  PROVE  JobWork(k)'
<1>1. /\ InOrder!Count' = InOrder!Count /\ InOrder!Block(k)' = InOrder!Block(k)
      /\ InOrder!Dictionary(k)' = InOrder!Dictionary(k)
  BY SameStream, Zenon
<1> QED BY <1>1, Zenon DEF JobWork

LEMMA NewJobWork ==
  ASSUME ControlInv, Running, stream' = stream, ReadInv, BufInv, NewJob, NEW k, k = seq
  PROVE  JobWork(k)'
<1>1. /\ mpc = "job" /\ mpc' = "enqueue" /\ seq' = seq /\ UNCHANGED <<write, wthread>>
      /\ job'[k].more = More /\ job'[k].from = Nothing /\ job'[k].dict = dict /\ job'[k].calc = 0
  BY Zenon DEF NewJob
<1>2. Undone(k)'
  BY <1>1, Zenon DEF Undone, Fresh
<1>3. k \notin Elems(write) /\ ~AtWriter(k)
  BY <1>1, Outside, ControlParts, Zenon DEF ListInv, AtWriter
<1>4. (More <=> k < InOrder!Count) /\ (dict = None <=> k = 1)
  BY <1>1, MoreBlocks, Zenon DEF ReadInv
<1>5. InOrder!Count' = InOrder!Count
  BY SameStream, Zenon
<1>6. ~(k \in Elems(write') \/ AtWriter(k)')
  BY <1>1, <1>3, Zenon DEF AtWriter, wthread
<1>7. job'[k].calc # 1
  BY <1>1
<1> QED BY <1>1, <1>2, <1>4, <1>5, <1>6, <1>7, Zenon DEF JobWork

\* The dictionary that is set is the block before.
LEMMA SetDictionaryWork ==
  ASSUME ControlInv, Running, stream' = stream, ReadInv, BufInv, WorkInv,
         NEW t \in Compressors, SetDictionary(t), NEW k, k = mine[t]
  PROVE  JobWork(k)'
<1>1. k \in DOMAIN job /\ OfSpace(k) = job[k].dict /\ job[k].dict \in Spaces \cup {None}
  BY OfSet, Zenon
<1>2. /\ cpc[t] = "dict" /\ cpc' = [cpc EXCEPT ![t] = "compress"] /\ DOMAIN cpc = Compressors
      /\ UNCHANGED <<main, compress, mine, write, wthread>>
  BY ControlParts, Zenon DEF SetDictionary, ThreadType
<1>3. With(t, k) /\ Begun(t, k) /\ Undone(k)
  BY <1>2, Zenon DEF With, Begun, Undone, Working
<1>4. /\ ~Fresh(k) /\ k \notin Elems(compress) /\ k \notin Elems(write) /\ ~AtWriter(k)
      /\ job[k].calc = 0
  BY <1>1, <1>2, <1>3, ControlParts, Zenon DEF StageInv, ListInv, Working
<1>5. \A u \in Compressors : cpc[u] = "dict" /\ mine[u] = k => u = t
  BY <1>2, ControlParts, Zenon DEF StageInv, Working
<1>6. cpc'[t] # "dict" /\ \A u \in Compressors : u # t => cpc'[u] = cpc[u]
  BY <1>2, Zenon
<1>7. ~Undone(k)'
  BY <1>2, <1>4, <1>5, <1>6, Zenon DEF Undone, Fresh, main
<1>8. ~(k \in Elems(write') \/ AtWriter(k)')
  BY <1>2, <1>4, Zenon DEF AtWriter, wthread
<1>9. /\ job[k] \in Job /\ job'[k].more = job[k].more /\ job'[k].calc = job[k].calc
  BY <1>1, <1>2, JobStepKeeps, Zenon DEF JobStep, Calc
<1>10. JobWork(k)
  BY <1>1, Zenon DEF WorkInv
<1>11. job'[k].from = InOrder!Dictionary(k)
  <2>1. CASE job[k].dict = None
    <3>1. job' = job /\ k = 1 /\ job[k].from = Nothing
      BY <1>3, <1>10, <2>1, Zenon DEF SetDictionary, JobWork
    <3> QED BY <3>1, Zenon DEF InOrder!Dictionary, Nothing
  <2>2. CASE job[k].dict # None
    <3>1. k # 1 /\ k \in Nat
      BY <1>1, <1>3, <1>10, <2>2, JobNumber, Zenon DEF JobWork
    <3>2. job'[k].from = buf[job[k].dict]
      BY <1>1, <1>9, <2>2, Zenon DEF SetDictionary, Job
    <3>3. buf[job[k].dict] = BlockAt(k - 1)
      BY <1>1, <2>2, <3>1, Zenon DEF BufInv
    <3> QED BY <1>1, <3>1, <3>2, <3>3, JobNumber, Zenon DEF InOrder!Dictionary
  <2> QED BY <2>1, <2>2, Zenon
<1>12. /\ InOrder!Count' = InOrder!Count /\ InOrder!Dictionary(k)' = InOrder!Dictionary(k)
  BY SameStream, Zenon
<1>13. job'[k].calc # 1
  BY <1>4, <1>9
<1> QED BY <1>7, <1>8, <1>9, <1>10, <1>11, <1>12, <1>13, Zenon DEF JobWork

\* Compressing, and telling the check value, are the other two ways to write into a job.
LEMMA CompressWork ==
  ASSUME ControlInv, Running, stream' = stream, ReadInv, BufInv, WorkInv, Next,
         NEW t \in Compressors, Compress(t) \/ Calc(t), NEW k, k = mine[t]
  PROVE  JobWork(k)' /\ (Compress(t) => job'[k].data = InOrder!Block(k))
<1>1. /\ k \in DOMAIN job /\ job[k] \in Job
      /\ job'[k].more = job[k].more /\ job'[k].dict = job[k].dict
      /\ (~Calc(t) => job'[k].calc = job[k].calc)
  BY JobStepKeeps, Zenon DEF JobStep
<1>2. JobWork(k)
  BY <1>1, Zenon DEF WorkInv
<1>3. UNCHANGED <<write, wthread>> /\ cpc[t] \in {"compress", "calc"} /\ job'[k].from = job[k].from
  BY <1>1 DEF Compress, Calc, Job
<1>4. Undone(k)' <=> Undone(k)
  <2>1. ASSUME NEW u \in Compressors, SetDictionary(u) PROVE mine[u] # k
    BY <1>3, <2>1, ControlParts, Zenon DEF StageInv, SetDictionary, Working
  <2> QED BY <1>1, <2>1, UndoneStep, Zenon
<1>5. k \in Elems(write') \/ AtWriter(k)' => k \in Elems(write) \/ AtWriter(k)
  BY <1>3, Zenon DEF AtWriter, wthread
<1>6. /\ InOrder!Count' = InOrder!Count /\ InOrder!Block(k)' = InOrder!Block(k)
      /\ InOrder!Dictionary(k)' = InOrder!Dictionary(k)
  BY SameStream, Zenon
<1>7. CASE Compress(t)
  <2>1. /\ job'[k].data = buf[job[k].in] /\ job'[k].check = job[k].check /\ job'[k].calc = job[k].calc
        /\ cpc[t] = "compress"
    BY <1>1, <1>7, Zenon DEF Compress, Job
  <2>2. k \notin Elems(write) /\ ~AtWriter(k)
    BY <1>1, <2>1, ControlParts, Zenon DEF StageInv, Begun
  <2>3. buf[job[k].in] = BlockAt(k)
    <3>1. InSpace(k) = job[k].in /\ k \in Nat /\ job[k].in # None
      BY <1>1, <2>2, JobSpaces, ThreadFacts, Zenon
    <3> QED BY <3>1, Zenon DEF BufInv
  <2>4. BlockAt(k) = InOrder!Block(k)
    BY <1>1, JobNumber, Zenon
  <2> QED BY <1>1, <1>2, <1>3, <1>4, <1>5, <1>6, <2>1, <2>2, <2>3, <2>4, Zenon DEF JobWork
<1>8. CASE Calc(t)
  <2>1. job'[k].data = job[k].data /\ job'[k].check = sum[t] /\ cpc[t] = "calc"
    BY <1>1, <1>8, Zenon DEF Calc, Job
  <2>2. sum[t] = InOrder!Block(k)
    BY <2>1, Zenon DEF WorkInv, ThreadWork
  <2>3. ~Compress(t)
    BY <2>1, Zenon DEF Compress
  <2> QED BY <1>1, <1>2, <1>3, <1>4, <1>5, <1>6, <2>1, <2>2, <2>3, Zenon DEF JobWork
<1> QED BY <1>7, <1>8, Zenon

LEMMA JobsWork ==
  ASSUME ControlInv, Running, stream' = stream, ReadInv, BufInv, WorkInv, Next,
         NEW k \in DOMAIN job'
  PROVE  JobWork(k)'
<1>1. CASE k \notin DOMAIN job
  BY <1>1, JobDomain, NewJobWork, Zenon
<1>2. ASSUME NEW t \in Compressors, JobStep(t), mine[t] = k PROVE JobWork(k)'
  BY <1>2, SetDictionaryWork, CompressWork, Zenon DEF JobStep
<1>3. ASSUME k \in DOMAIN job, \A t \in Compressors : JobStep(t) => mine[t] # k PROVE JobWork(k)'
  <2>1. job'[k] = job[k] /\ (Undone(k)' <=> Undone(k)) /\ JobWork(k)
    BY <1>3, JobStays, UndoneStep, Zenon DEF JobStep, WorkInv
  <2>2. CASE k \in Elems(write') \/ AtWriter(k)' => k \in Elems(write) \/ AtWriter(k)
    BY <2>1, <2>2, JobWorkSame, Zenon
  <2>3. ASSUME NEW t \in Compressors, InsertWrite(t), mine[t] = k PROVE JobWork(k)'
    <3>1. job[k].data = InOrder!Block(k)
      BY <2>3, Zenon DEF InsertWrite, WorkInv, ThreadWork
    <3>2. /\ InOrder!Count' = InOrder!Count /\ InOrder!Block(k)' = InOrder!Block(k)
          /\ InOrder!Dictionary(k)' = InOrder!Dictionary(k)
      BY SameStream, Zenon
    <3> QED BY <2>1, <3>1, <3>2, Zenon DEF JobWork
  <2> QED BY <2>2, <2>3, WriteArrives, Zenon
<1> QED BY <1>1, <1>2, <1>3, Zenon

LEMMA ThreadStays ==
  ASSUME ControlInv, Next, NEW t \in Compressors, ~Compress(t), ~Check(t), cpc'[t] \in {"insert", "calc"}
  PROVE  cpc'[t] = cpc[t] /\ mine'[t] = mine[t] /\ sum'[t] = sum[t]
<1>0. DOMAIN cpc = Compressors /\ DOMAIN mine = Compressors /\ DOMAIN sum = Compressors
  BY ControlParts, Zenon DEF ThreadType
<1>1. CASE UNCHANGED comp
  BY <1>1, Zenon DEF comp
<1>2. CASE GetNew \/ GetUse \/ GetHead \/ Launch \/ NewJob \/ Join \/ Finish \/ JoinAll \/ FreePools
           \/ TakeWrite \/ WriteOut \/ Combine \/ Trailer
  BY <1>1, <1>2, Zenon DEF GetNew, GetUse, GetHead, Launch, NewJob, Join, Finish, JoinAll, FreePools,
                           TakeWrite, WriteOut, Combine, Trailer
<1>3. CASE Enqueue
  BY <1>0, <1>3, Zenon DEF Enqueue
<1>4. ASSUME NEW u \in Compressors, TakeJob(u) \/ Leave(u) \/ SetDictionary(u) \/ InsertWrite(u) \/ Calc(u)
      PROVE  cpc'[t] = cpc[t] /\ mine'[t] = mine[t] /\ sum'[t] = sum[t]
  BY <1>0, <1>4, Zenon DEF TakeJob, Leave, SetDictionary, InsertWrite, Calc
<1>5. ASSUME NEW u \in Compressors, u # t, Compress(u) \/ Check(u)
      PROVE  cpc'[t] = cpc[t] /\ mine'[t] = mine[t] /\ sum'[t] = sum[t]
  BY <1>0, <1>5, Zenon DEF Compress, Check
<1>6. ASSUME NEW u \in Threads, Dropping(u) PROVE UNCHANGED comp
  BY <1>6, DroppingKeeps, Zenon
<1> QED BY <1>1, <1>2, <1>3, <1>4, <1>5, <1>6, NextCases, Zenon

LEMMA ThreadsWork ==
  ASSUME ControlInv, Running, stream' = stream, ReadInv, BufInv, WorkInv, Next,
         NEW t \in Compressors
  PROVE  ThreadWork(t)'
<1>0. DOMAIN cpc = Compressors /\ DOMAIN sum = Compressors
  BY ControlParts, Zenon DEF ThreadType
<1>1. \A k : InOrder!Block(k)' = InOrder!Block(k)
  BY SameStream, Zenon
<1>2. CASE Compress(t)
  <2>1. cpc'[t] = "insert" /\ mine' = mine
    BY <1>0, <1>2, Zenon DEF Compress
  <2>2. PICK k : k = mine[t]
    BY Zenon
  <2>3. job'[k].data = InOrder!Block(k) /\ k = mine'[t]
    BY <1>2, <2>1, <2>2, CompressWork, Zenon
  <2>4. InOrder!Block(mine[t])' = InOrder!Block(k)
    BY <2>3, Zenon DEF InOrder!Block, InOrder!Number
  <2> QED BY <2>1, <2>3, <2>4, Zenon DEF ThreadWork
<1>3. CASE Check(t)
  <2>1. /\ cpc[t] = "check" /\ cpc'[t] = "calc" /\ mine' = mine /\ sum'[t] = buf[job[mine[t]].in]
    BY <1>0, <1>3, Zenon DEF Check
  <2>2. CheckSpace(t) = job[mine[t]].in /\ job[mine[t]].in # None
    <3>1. CheckSpace(t) = job[mine[t]].in /\ job[mine[t]].in \in Spaces
      BY <1>3, CheckLose, Zenon
    <3> QED BY <3>1, ThreadFacts, Zenon
  <2>3. buf[job[mine[t]].in] = BlockAt(mine[t])
    BY <2>2, Zenon DEF BufInv
  <2>4. mine[t] \in DOMAIN job
    BY <2>1, ControlParts, Zenon DEF ListInv, Working
  <2>5. BlockAt(mine[t]) = InOrder!Block(mine[t])
    BY <2>4, JobNumber, Zenon
  <2>6. InOrder!Block(mine[t])' = InOrder!Block(mine[t])
    BY <2>1, Zenon DEF InOrder!Block, InOrder!Number
  <2> QED BY <2>1, <2>3, <2>5, <2>6, Zenon DEF ThreadWork
<1>4. ASSUME ~Compress(t), ~Check(t), cpc'[t] \in {"insert", "calc"} PROVE ThreadWork(t)'
  <2>1. cpc'[t] = cpc[t] /\ mine'[t] = mine[t] /\ sum'[t] = sum[t]
    BY <1>4, ThreadStays, Zenon
  <2>2. InOrder!Block(mine[t])' = InOrder!Block(mine[t])
    BY <2>1, Zenon DEF InOrder!Block, InOrder!Number
  <2>3. cpc[t] = "insert" => job'[mine[t]] = job[mine[t]]
    <3> SUFFICES ASSUME cpc[t] = "insert" PROVE job'[mine[t]] = job[mine[t]]
      BY Zenon
    <3>1. mine[t] \in DOMAIN job /\ ~AtWriter(mine[t])
      BY ControlParts, Zenon DEF ListInv, StageInv, Begun, Working
    <3>2. mine[t] \in DOMAIN job'
      <4>1. Combine => mine[t] # want
        BY <3>1, Zenon DEF Combine, AtWriter
      <4> QED BY <3>1, <4>1, JobDomain, Zenon
    <3>3. ASSUME NEW u \in Compressors, JobStep(u) PROVE mine[u] # mine[t]
      <4>1. cpc[u] \in {"dict", "compress", "calc"}
        BY <3>3, Zenon DEF JobStep, SetDictionary, Compress, Calc
      <4> QED BY <4>1, ControlParts, Zenon DEF StageInv, Working
    <3> QED BY <3>1, <3>2, <3>3, JobStays, Zenon
  <2> QED BY <2>1, <2>2, <2>3, Zenon DEF ThreadWork, WorkInv
<1>5. ASSUME cpc'[t] \notin {"insert", "calc"} PROVE ThreadWork(t)'
  BY <1>5, Zenon DEF ThreadWork
<1> QED BY <1>2, <1>3, <1>4, <1>5, Zenon

LEMMA ResultStep ==
  ASSUME ControlInv, Running, Running', stream' = stream, ReadInv, WorkInv, ResultInv, Next
  PROVE  ResultInv'
<1>0. /\ want \in Nat /\ Len(output) \in Nat /\ Len(check) \in Nat /\ wpc # "none"
      /\ output \in Seq([data : Blocks, from : Blocks]) /\ check \in Seq(Blocks)
  BY ControlParts DEF ThreadType, ResultType, MainInv
<1>1. InOrder!Count' = InOrder!Count
  BY SameStream, Zenon
<1>2. CASE UNCHANGED <<wthread, result>>
  BY <1>1, <1>2, Zenon DEF ResultInv, wthread, result
<1>3. CASE GetNew \/ GetUse \/ GetHead \/ NewJob \/ Enqueue \/ Finish \/ JoinAll \/ FreePools
  BY <1>2, <1>3, Zenon DEF GetNew, GetUse, GetHead, NewJob, Enqueue, Finish, JoinAll, FreePools
<1>4. CASE Launch \/ Join
  BY <1>4, Zenon DEF Launch, Join, Running
<1>5. CASE TakeWrite \/ Trailer
  BY <1>1, <1>5, Zenon DEF TakeWrite, Trailer, ResultInv, result
<1>6. CASE WriteOut
  <2>1. /\ wpc = "write" /\ wpc' = "calc" /\ UNCHANGED <<want, check>>
        /\ output' = Append(output, [data |-> job[want].data, from |-> job[want].from])
    BY <1>6, Zenon DEF WriteOut
  <2>2. Len(output') = Len(output) + 1
    BY <1>0, <2>1
  <2> QED BY <1>0, <1>1, <2>1, <2>2 DEF ResultInv
<1>7. CASE Combine
  <2>1. /\ wpc = "calc" /\ output' = output /\ Len(check') = Len(check) + 1
        /\ IF job[want].more THEN wpc' = "take" /\ want' = want + 1
                             ELSE wpc' = "trailer" /\ want' = want
    BY <1>0, <1>7 DEF Combine
  <2>2. want \in DOMAIN job
    BY <2>1, ControlParts, Zenon DEF ListInv
  <2>3. (job[want].more <=> want < InOrder!Count) /\ want <= InOrder!Count /\ InOrder!Count \in Nat
    BY <2>2, JobNumber, Zenon DEF WorkInv, JobWork
  <2> QED BY <1>0, <1>1, <2>1, <2>3 DEF ResultInv
<1>8. ASSUME NEW t \in Compressors,
             TakeJob(t) \/ Leave(t) \/ SetDictionary(t) \/ Compress(t) \/ InsertWrite(t)
             \/ Check(t) \/ Calc(t)
      PROVE  UNCHANGED <<wthread, result>>
  BY <1>8, Zenon DEF TakeJob, Leave, SetDictionary, Compress, InsertWrite, Check, Calc
<1>9. ASSUME NEW t \in Threads, Dropping(t) PROVE UNCHANGED <<wthread, result>>
  BY <1>9, DroppingKeeps, Zenon
<1> QED BY <1>2, <1>3, <1>4, <1>5, <1>6, <1>7, <1>8, <1>9, NextCases, Zenon

\* The steps that the sequential compression does not see.
LEMMA Unseen ==
  ASSUME ControlInv, Next, ~Launch, ~Join, ~WriteOut, ~Combine
  PROVE  UNCHANGED <<stream, result>> /\ (Running' <=> Running)
<1>1. ASSUME UNCHANGED <<mpc, stream, result>>
      PROVE  UNCHANGED <<stream, result>> /\ (Running' <=> Running)
  BY <1>1, Zenon DEF Running
<1>2. CASE GetNew \/ GetUse
  <2>1. PICK s \in Spaces : ReadInto(s) /\ mpc \in {"first", "more"}
    BY <1>2, GotSpace, Zenon
  <2>2. mpc' \in {"more", "job"} /\ UNCHANGED <<stream, result>>
    BY <1>2, <2>1, Zenon DEF ReadInto, GetNew, GetUse
  <2> QED BY <2>1, <2>2, Zenon DEF Running
<1>3. CASE NewJob \/ Enqueue \/ Finish \/ JoinAll \/ FreePools
  BY <1>3, Zenon DEF NewJob, Enqueue, Finish, JoinAll, FreePools, Running
<1>4. CASE GetHead \/ TakeWrite \/ Trailer
  BY <1>1, <1>4, Zenon DEF GetHead, TakeWrite, Trailer, main
<1>5. ASSUME NEW t \in Compressors,
             TakeJob(t) \/ Leave(t) \/ SetDictionary(t) \/ Compress(t) \/ InsertWrite(t)
             \/ Check(t) \/ Calc(t)
      PROVE  UNCHANGED <<mpc, stream, result>>
  BY <1>5, Zenon DEF TakeJob, Leave, SetDictionary, Compress, InsertWrite, Check, Calc, main
<1>6. ASSUME NEW t \in Threads, Dropping(t) PROVE UNCHANGED <<mpc, stream, result>>
  BY <1>6, DroppingKeeps, Zenon DEF main
<1> QED BY <1>1, <1>2, <1>3, <1>4, <1>5, <1>6, NextCases, Zenon

\* Nothing is left of the stream before.
LEMMA LaunchContent == ASSUME ControlInv, Launch PROVE Content'
<1>1. /\ mpc = "start" /\ mpc' = "first" /\ read' = 0 /\ seq' = 1 /\ wpc' = "take" /\ want' = 1
      /\ output' = <<>> /\ check' = <<>> /\ UNCHANGED <<job, cpc, mine>>
  BY Zenon DEF Launch, comp
<1>2. DOMAIN job = {}
  BY <1>1, Outside, Zenon
<1>3. \A t \in Compressors : cpc[t] \notin Working
  BY <1>2, ControlParts, Zenon DEF ListInv
<1>4. \A t \in Compressors : cpc'[t] \notin {"insert", "check", "calc"}
  BY <1>1, <1>3, Zenon DEF Working
<1>5. \A k \in Nat : InSpace(k)' = None /\ OfSpace(k)' = None
  BY <1>1, <1>2, Zenon DEF InSpace, OfSpace
<1>6. \A t \in Compressors : CheckSpace(t)' = None
  BY <1>4, Zenon DEF CheckSpace
<1>7. BufInv'
  BY <1>5, <1>6, Zenon DEF BufInv
<1>8. ReadInv'
  BY <1>1, Zenon DEF ReadInv
<1>9. \A t \in Compressors : ThreadWork(t)'
  BY <1>4, Zenon DEF ThreadWork
<1>10. WorkInv'
  BY <1>1, <1>2, <1>9, Zenon DEF WorkInv
<1>11. ResultInv'
  BY <1>1 DEF ResultInv
<1> QED BY <1>7, <1>8, <1>10, <1>11, Zenon DEF Content

LEMMA ContentStep ==
  ASSUME ControlInv, InUse, LocksInv, HaveInv, Content, Next PROVE Content'
<1>1. CASE Launch
  BY <1>1, LaunchContent, Zenon
<1>2. CASE ~Running'
  BY <1>2, Zenon DEF Content
<1>3. CASE Running /\ Running'
  <2>1. BufInv /\ ReadInv /\ WorkInv /\ ResultInv /\ stream' = stream
    BY <1>3, StreamStays, Zenon DEF Content
  <2>2. BufInv' /\ ReadInv' /\ ResultInv'
    BY <1>3, <2>1, BufStep, ReadStep, ResultStep, Zenon
  <2>3. WorkInv'
    BY <1>3, <2>1, JobsWork, ThreadsWork, Zenon DEF WorkInv
  <2> QED BY <2>2, <2>3, Zenon DEF Content
<1>4. ASSUME ~Running, Running', ~Launch PROVE FALSE
  <2>1. Join => ~Running'
    BY Zenon DEF Join, Running
  <2>2. wpc = "none"
    BY <1>4, ControlParts, Zenon DEF MainInv
  <2>3. ~WriteOut /\ ~Combine
    BY <2>2, Zenon DEF WriteOut, Combine
  <2> QED BY <1>4, <2>1, <2>3, Unseen, Zenon
<1> QED BY <1>1, <1>2, <1>3, <1>4, Zenon

\* Each step is a step of the sequential compression, or none.
LEMMA InOrderStep ==
  ASSUME ControlInv, Content, Next
  PROVE  \/ InOrder!Begin \/ InOrder!Write \/ InOrder!Sum \/ InOrder!End
         \/ UNCHANGED InOrder!state
<1>1. CASE Launch
  <2>1. stream <= Len(Inputs)
    BY <1>1, ControlParts, Zenon DEF Launch, MainInv
  <2> QED BY <1>1, <2>1, Zenon DEF Launch, InOrder!Begin
<1>2. CASE WriteOut
  <2>1. /\ wpc = "write" /\ UNCHANGED <<main, check>>
        /\ output' = Append(output, [data |-> job[want].data, from |-> job[want].from])
    BY <1>2, Zenon DEF WriteOut
  <2>2. Running /\ want \in DOMAIN job /\ AtWriter(want)
    BY <2>1, ControlParts, Zenon DEF MainInv, ListInv, AtWriter
  <2>3. ~Undone(want)
    BY <2>2, ControlParts, Zenon DEF StageInv, Undone, Begun
  <2>4. job[want].data = InOrder!Block(want) /\ job[want].from = InOrder!Dictionary(want)
    BY <2>2, <2>3, Zenon DEF Content, WorkInv, JobWork
  <2>5. want \in Nat /\ want <= InOrder!Count
    BY <2>2, JobNumber, Zenon DEF Content
  <2>6. Len(output) + 1 = want
    BY <2>1, <2>2, <2>5 DEF Content, ResultInv
  <2>7. mpc \notin {"start", "finish", "join_all", "free", "done"} /\ UNCHANGED <<mpc, stream>>
    BY <2>1, <2>2, Zenon DEF Running, main
  <2>8. InOrder!Write
    BY <2>1, <2>4, <2>5, <2>6, <2>7, Zenon DEF InOrder!Write
  <2> QED BY <2>8, Zenon
<1>3. CASE Combine
  <2>1. /\ wpc = "calc" /\ job[want].calc = 1 /\ UNCHANGED <<main, output>>
        /\ check' = Append(check, job[want].check)
    BY <1>3, Zenon DEF Combine
  <2>2. Running /\ want \in DOMAIN job
    BY <2>1, ControlParts, Zenon DEF MainInv, ListInv
  <2>3. job[want].check = InOrder!Block(want)
    BY <2>1, <2>2, Zenon DEF Content, WorkInv, JobWork
  <2>4. want \in Nat
    BY <2>2, JobNumber, Zenon DEF Content
  <2>5. Len(check) + 1 = want /\ Len(output) = want /\ want <= want
    BY <2>1, <2>2, <2>4 DEF Content, ResultInv
  <2>6. mpc \notin {"start", "finish", "join_all", "free", "done"} /\ UNCHANGED <<mpc, stream>>
    BY <2>1, <2>2, Zenon DEF Running, main
  <2>7. InOrder!Sum
    BY <2>1, <2>3, <2>5, <2>6, Zenon DEF InOrder!Sum
  <2> QED BY <2>7, Zenon
<1>4. CASE Join
  <2>1. /\ mpc = "join" /\ wpc = "exited" /\ stream' = stream + 1 /\ UNCHANGED <<output, check>>
        /\ mpc' \in {"start", "finish"}
    BY <1>4, Zenon DEF Join, result
  <2>2. Running
    BY <2>1, Zenon DEF Running
  <2>3. Len(check) = InOrder!Count
    BY <2>1, <2>2, Zenon DEF Content, ResultInv
  <2>4. InOrder!End
    BY <2>1, <2>3, Zenon DEF InOrder!End
  <2> QED BY <2>4, Zenon
<1>5. CASE ~Launch /\ ~Join /\ ~WriteOut /\ ~Combine
  <2>1. UNCHANGED <<stream, result>> /\ (Running' <=> Running)
    BY <1>5, Unseen, Zenon
  <2>2. mpc \in {"start", "finish", "join_all", "free", "done"} <=> ~Running
    BY ControlParts, Zenon DEF MainType, Running
  <2>3. (mpc \in {"start", "finish", "join_all", "free", "done"} <=> ~Running)'
    BY ControlStep, ControlParts, MainTypeStep, Zenon DEF MainType, Running
  <2> QED BY <2>1, <2>2, <2>3, Zenon DEF InOrder!state, result
<1> QED BY <1>1, <1>2, <1>3, <1>4, <1>5, Zenon
-----------------------------------------------------------------------------
\* Everyone who holds a buffer, and which.
Tokens == {"in", "of", "check", "drop"} \X Nat
Held(x) ==
  CASE x[1] = "in" -> InSpace(x[2])
    [] x[1] = "of" -> OfSpace(x[2])
    [] x[1] = "check" -> CheckSpace(x[2])
    [] x[1] = "drop" -> DropSpace(x[2])
hold == [x \in Tokens |-> Held(x)]

LEMMA HoldFacts ==
  /\ DOMAIN hold = Tokens /\ DOMAIN hold' = Tokens
  /\ \A k \in Nat :
       /\ <<"in", k>> \in Tokens /\ <<"of", k>> \in Tokens
       /\ <<"check", k>> \in Tokens /\ <<"drop", k>> \in Tokens
       /\ hold[<<"in", k>>] = InSpace(k) /\ hold'[<<"in", k>>] = InSpace(k)'
       /\ hold[<<"of", k>>] = OfSpace(k) /\ hold'[<<"of", k>>] = OfSpace(k)'
       /\ hold[<<"check", k>>] = CheckSpace(k) /\ hold'[<<"check", k>>] = CheckSpace(k)'
       /\ hold[<<"drop", k>>] = DropSpace(k) /\ hold'[<<"drop", k>>] = DropSpace(k)'
  /\ \A x \in Tokens : \E k \in Nat :
       x = <<"in", k>> \/ x = <<"of", k>> \/ x = <<"check", k>> \/ x = <<"drop", k>>
<1>1. DOMAIN hold = Tokens /\ DOMAIN hold' = Tokens
  BY Zenon DEF hold
<1>2. ASSUME NEW k \in Nat
      PROVE  /\ <<"in", k>> \in Tokens /\ <<"of", k>> \in Tokens
             /\ <<"check", k>> \in Tokens /\ <<"drop", k>> \in Tokens
  BY Zenon DEF Tokens
<1>3. \A x \in Tokens : hold[x] = Held(x) /\ hold'[x] = Held(x)'
  BY Zenon DEF hold
<1>4. ASSUME NEW k \in Nat
      PROVE  /\ Held(<<"in", k>>) = InSpace(k) /\ Held(<<"of", k>>) = OfSpace(k)
             /\ Held(<<"check", k>>) = CheckSpace(k) /\ Held(<<"drop", k>>) = DropSpace(k)
  BY Zenon DEF Held
<1>5. ASSUME NEW k \in Nat
      PROVE  /\ Held(<<"in", k>>)' = InSpace(k)' /\ Held(<<"of", k>>)' = OfSpace(k)'
             /\ Held(<<"check", k>>)' = CheckSpace(k)' /\ Held(<<"drop", k>>)' = DropSpace(k)'
  BY Zenon DEF Held
<1>6. ASSUME NEW x \in Tokens
      PROVE  \E k \in Nat : \/ x = <<"in", k>> \/ x = <<"of", k>>
                            \/ x = <<"check", k>> \/ x = <<"drop", k>>
  <2>1. x = <<x[1], x[2]>> /\ x[1] \in {"in", "of", "check", "drop"} /\ x[2] \in Nat
    BY DEF Tokens
  <2> QED BY <2>1, Zenon
<1> QED BY <1>1, <1>2, <1>3, <1>4, <1>5, <1>6, Zenon

LEMMA HoldOthers ==
  ASSUME NEW C,
         \A k \in Nat : /\ <<"in", k>> \notin C => InSpace(k)' = InSpace(k)
                        /\ <<"of", k>> \notin C => OfSpace(k)' = OfSpace(k)
                        /\ <<"check", k>> \notin C => CheckSpace(k)' = CheckSpace(k)
                        /\ <<"drop", k>> \notin C => DropSpace(k)' = DropSpace(k)
  PROVE  \A y \in Tokens : y \notin C => hold'[y] = hold[y]
<1> SUFFICES ASSUME NEW y \in Tokens, y \notin C PROVE hold'[y] = hold[y]
  BY Zenon
<1>1. PICK k \in Nat : y = <<"in", k>> \/ y = <<"of", k>> \/ y = <<"check", k>> \/ y = <<"drop", k>>
  BY HoldFacts, Zenon
<1> QED BY <1>1, HoldFacts, Zenon

LEMMA OtherTokens ==
  ASSUME NEW k, NEW n
  PROVE  /\ <<"in", k>> # <<"of", n>> /\ <<"in", k>> # <<"check", n>> /\ <<"in", k>> # <<"drop", n>>
         /\ <<"of", k>> # <<"check", n>> /\ <<"of", k>> # <<"drop", n>> /\ <<"check", k>> # <<"drop", n>>
         /\ k # n => /\ <<"in", k>> # <<"in", n>> /\ <<"of", k>> # <<"of", n>>
                     /\ <<"check", k>> # <<"check", n>> /\ <<"drop", k>> # <<"drop", n>>
BY Zenon

\* What a step does to the holders and to the use counts: one holder more, and one more
\* counted ...
Gains(x, s) ==
  /\ hold[x] = None /\ hold'[x] = s /\ (\A y \in Tokens : y # x => hold'[y] = hold[y])
  /\ use'[s] = use[s] + 1 /\ (\A r \in Spaces : r # s => use'[r] = use[r])
\* ... or one less ...
Loses(x, s) ==
  /\ hold[x] = s /\ hold'[x] = None /\ (\A y \in Tokens : y # x => hold'[y] = hold[y])
  /\ use'[s] = use[s] - 1 /\ (\A r \in Spaces : r # s => use'[r] = use[r])
\* ... or one for another.
Passes(x, z) ==
  /\ x # z /\ hold[z] = None /\ hold'[z] = hold[x] /\ hold'[x] = None
  /\ \A y \in Tokens : y # x /\ y # z => hold'[y] = hold[y]

Gaining == GetNew \/ GetUse \/ (NewJob /\ More) \/ \E t \in Compressors : Compress(t)

LEMMA GetGains ==
  ASSUME ControlInv, InUse, LocksInv, HaveInv, Next, GetNew \/ GetUse
  PROVE  \E x \in Tokens, s \in Spaces : Gains(x, s)
<1>1. PICK n : n = NextIn
  BY Zenon
<1>2. PICK s : s = next'
  BY Zenon
<1>3. /\ n \in Nat /\ InSpace(n) = None /\ InSpace(n)' = s
      /\ \A k \in Nat : k # n => InSpace(k)' = InSpace(k)
  BY <1>1, <1>2, InGet, Zenon
<1>4. /\ s \in Spaces /\ use[s] = 0 /\ use'[s] = 1 /\ \A r \in Spaces : r # s => use'[r] = use[r]
  BY <1>2, GotUnused, Zenon
<1>5. \A k \in Nat : /\ OfSpace(k)' = OfSpace(k) /\ CheckSpace(k)' = CheckSpace(k)
                     /\ DropSpace(k)' = DropSpace(k)
  BY Alone, OfQuiet, CheckQuiet, DropQuiet, Zenon DEF Begins
<1>6. \A y \in Tokens : y \notin {<<"in", n>>} => hold'[y] = hold[y]
  <2>1. \A k \in Nat : <<"in", k>> \notin {<<"in", n>>} => InSpace(k)' = InSpace(k)
    BY <1>3, OtherTokens, Zenon
  <2> QED BY <1>5, <2>1, HoldOthers, Zenon
<1>7. use'[s] = use[s] + 1
  BY <1>4
<1>8. hold[<<"in", n>>] = None /\ hold'[<<"in", n>>] = s /\ <<"in", n>> \in Tokens
  BY <1>3, HoldFacts, Zenon
<1>9. Gains(<<"in", n>>, s)
  BY <1>4, <1>6, <1>7, <1>8, Zenon DEF Gains
<1> QED BY <1>4, <1>8, <1>9, Zenon

LEMMA NewJobGains ==
  ASSUME ControlInv, InUse, Next, NewJob, More
  PROVE  \E x \in Tokens, s \in Spaces : Gains(x, s)
<1>1. PICK n : n = seq + 1
  BY Zenon
<1>2. PICK s : s = curr
  BY Zenon
<1>3. /\ n \in Nat /\ OfSpace(n) = None /\ OfSpace(n)' = s
      /\ \A k \in Nat : k # n => OfSpace(k)' = OfSpace(k)
  BY <1>1, <1>2, OfNew, Zenon
<1>4. s \in Spaces /\ use' = [use EXCEPT ![s] = @ + 1] /\ use \in [Spaces -> Nat]
  BY <1>2, ControlParts, Zenon DEF NewJob, MainInv, InUse
<1>5. \A k \in Nat : /\ InSpace(k)' = InSpace(k) /\ CheckSpace(k)' = CheckSpace(k)
                     /\ DropSpace(k)' = DropSpace(k)
  BY Alone, InQuiet, CheckQuiet, DropQuiet, Zenon DEF Begins
<1>6. \A y \in Tokens : y \notin {<<"of", n>>} => hold'[y] = hold[y]
  <2>1. \A k \in Nat : <<"of", k>> \notin {<<"of", n>>} => OfSpace(k)' = OfSpace(k)
    BY <1>3, OtherTokens, Zenon
  <2> QED BY <1>5, <2>1, HoldOthers, Zenon
<1>7. use'[s] = use[s] + 1 /\ (\A r \in Spaces : r # s => use'[r] = use[r])
  BY <1>4, Zenon
<1>8. hold[<<"of", n>>] = None /\ hold'[<<"of", n>>] = s /\ <<"of", n>> \in Tokens
  BY <1>3, HoldFacts, Zenon
<1>9. Gains(<<"of", n>>, s)
  BY <1>6, <1>7, <1>8, Zenon DEF Gains
<1> QED BY <1>4, <1>8, <1>9, Zenon

LEMMA CompressGains ==
  ASSUME ControlInv, InUse, Next, NEW t \in Compressors, Compress(t)
  PROVE  \E x \in Tokens, s \in Spaces : Gains(x, s)
<1>2. PICK s : s = job[mine[t]].in
  BY Zenon
<1>3. /\ t \in Nat /\ CheckSpace(t) = None /\ CheckSpace(t)' = s /\ s \in Spaces
      /\ \A k \in Nat : k # t => CheckSpace(k)' = CheckSpace(k)
  BY <1>2, CheckGain, ThreadFacts, Zenon
<1>4. use' = [use EXCEPT ![s] = @ + 1] /\ use \in [Spaces -> Nat]
  BY <1>2, Zenon DEF Compress, InUse
<1>5. \A k \in Nat : /\ InSpace(k)' = InSpace(k) /\ OfSpace(k)' = OfSpace(k)
                     /\ DropSpace(k)' = DropSpace(k)
  BY Alone, InQuiet, OfQuiet, DropQuiet, Zenon DEF Begins
<1>6. \A y \in Tokens : y \notin {<<"check", t>>} => hold'[y] = hold[y]
  <2>1. \A k \in Nat : <<"check", k>> \notin {<<"check", t>>} => CheckSpace(k)' = CheckSpace(k)
    BY <1>3, OtherTokens, Zenon
  <2> QED BY <1>5, <2>1, HoldOthers, Zenon
<1>7. use'[s] = use[s] + 1 /\ (\A r \in Spaces : r # s => use'[r] = use[r])
  BY <1>3, <1>4, Zenon
<1>8. hold[<<"check", t>>] = None /\ hold'[<<"check", t>>] = s /\ <<"check", t>> \in Tokens
  BY <1>3, HoldFacts, Zenon
<1>9. Gains(<<"check", t>>, s)
  BY <1>6, <1>7, <1>8, Zenon DEF Gains
<1> QED BY <1>3, <1>8, <1>9, Zenon

LEMMA TwistLoses ==
  ASSUME ControlInv, InUse, Next, NEW t \in Threads, DropTwist(t)
  PROVE  \E x \in Tokens, s \in Spaces : Loses(x, s)
<1>1. Twisting
  BY Zenon DEF Twisting
<1>2. PICK s : s = drop[t].space
  BY Zenon
<1>3. /\ t \in Nat /\ DropSpace(t) = s /\ DropSpace(t)' = None /\ s \in Spaces
      /\ \A k \in Nat : k # t => DropSpace(k)' = DropSpace(k)
  BY <1>2, DropEnds, ThreadFacts, Zenon
<1>4. use' = [use EXCEPT ![s] = @ - 1] /\ use \in [Spaces -> Nat]
  BY <1>2, Zenon DEF DropTwist, InUse
<1>5. \A k \in Nat : /\ InSpace(k)' = InSpace(k) /\ OfSpace(k)' = OfSpace(k)
                     /\ CheckSpace(k)' = CheckSpace(k)
  BY <1>1, Alone, InQuiet, OfQuiet, CheckQuiet, Zenon
<1>6. \A y \in Tokens : y \notin {<<"drop", t>>} => hold'[y] = hold[y]
  <2>1. \A k \in Nat : <<"drop", k>> \notin {<<"drop", t>>} => DropSpace(k)' = DropSpace(k)
    BY <1>3, OtherTokens, Zenon
  <2> QED BY <1>5, <2>1, HoldOthers, Zenon
<1>7. use'[s] = use[s] - 1 /\ (\A r \in Spaces : r # s => use'[r] = use[r])
  BY <1>3, <1>4, Zenon
<1>8. hold[<<"drop", t>>] = s /\ hold'[<<"drop", t>>] = None /\ <<"drop", t>> \in Tokens
  BY <1>3, HoldFacts, Zenon
<1>9. Loses(<<"drop", t>>, s)
  BY <1>6, <1>7, <1>8, Zenon DEF Loses
<1> QED BY <1>3, <1>8, <1>9, Zenon

LEMMA PassOn ==
  ASSUME ControlInv, NEW t \in Threads, NEW s \in Spaces, Free(t), Drop(t, s),
         NEW x \in Tokens, hold[x] = s, hold'[x] = None, x # <<"drop", t>>,
         \A k \in Nat : /\ <<"in", k>> # x => InSpace(k)' = InSpace(k)
                        /\ <<"of", k>> # x => OfSpace(k)' = OfSpace(k)
                        /\ <<"check", k>> # x => CheckSpace(k)' = CheckSpace(k)
  PROVE  \E y, z \in Tokens : Passes(y, z)
<1>1. /\ t \in Nat /\ DropSpace(t) = None /\ DropSpace(t)' = s
      /\ \A k \in Nat : k # t => DropSpace(k)' = DropSpace(k)
  BY DropBegins, ThreadFacts, Zenon
<1>2. PICK z : z = <<"drop", t>>
  BY Zenon
<1>3. z \in Tokens /\ hold[z] = None /\ hold'[z] = s
  BY <1>1, <1>2, HoldFacts, Zenon
<1>4. \A y \in Tokens : y \notin {x, z} => hold'[y] = hold[y]
  <2>1. \A k \in Nat : <<"drop", k>> \notin {x, z} => DropSpace(k)' = DropSpace(k)
    BY <1>1, <1>2, Zenon
  <2>2. \A k \in Nat : /\ <<"in", k>> \notin {x, z} => InSpace(k)' = InSpace(k)
                       /\ <<"of", k>> \notin {x, z} => OfSpace(k)' = OfSpace(k)
                       /\ <<"check", k>> \notin {x, z} => CheckSpace(k)' = CheckSpace(k)
    BY Zenon
  <2> QED BY <2>1, <2>2, HoldOthers, Zenon
<1>5. Passes(x, z)
  BY <1>2, <1>3, <1>4, Zenon DEF Passes
<1> QED BY <1>3, <1>5, Zenon

LEMMA BeginsPasses ==
  ASSUME ControlInv, Next, Begins
  PROVE  \E x, z \in Tokens : Passes(x, z)
<1>1. CASE Enqueue /\ ~job[seq].more
  <2>1. PICK n : n = seq + 1
    BY Zenon
  <2>2. PICK s : s = next
    BY Zenon
  <2>3. /\ n \in Nat /\ InSpace(n) = s /\ InSpace(n)' = None
        /\ \A k \in Nat : k # n => InSpace(k)' = InSpace(k)
    BY <1>1, <2>1, <2>2, InLast, Zenon
  <2>4. s \in Spaces /\ Free(Main) /\ Drop(Main, s)
    BY <1>1, <2>2, ControlParts, Zenon DEF Enqueue, MainInv, DropInv
  <2>5. \A k \in Nat : OfSpace(k)' = OfSpace(k) /\ CheckSpace(k)' = CheckSpace(k)
    BY <1>1, Alone, OfQuiet, CheckQuiet, Zenon
  <2>6. /\ <<"in", n>> \in Tokens /\ hold[<<"in", n>>] = s /\ hold'[<<"in", n>>] = None
        /\ <<"in", n>> # <<"drop", Main>>
    BY <2>3, HoldFacts, OtherTokens, Zenon
  <2>7. \A k \in Nat : <<"in", k>> # <<"in", n>> => InSpace(k)' = InSpace(k)
    BY <2>3, Zenon
  <2> QED BY <2>4, <2>5, <2>6, <2>7, PassOn, ThreadFacts, Zenon
<1>2. ASSUME NEW t \in Compressors, Check(t) PROVE \E x, z \in Tokens : Passes(x, z)
  <2>2. PICK s : s = job[mine[t]].in
    BY Zenon
  <2>3. /\ t \in Nat /\ CheckSpace(t) = s /\ CheckSpace(t)' = None /\ s \in Spaces
        /\ \A k \in Nat : k # t => CheckSpace(k)' = CheckSpace(k)
    BY <1>2, <2>2, CheckLose, ThreadFacts, Zenon
  <2>4. Free(t) /\ Drop(t, s)
    BY <1>2, <2>2, ControlParts, Zenon DEF Check, DropInv
  <2>5. \A k \in Nat : OfSpace(k)' = OfSpace(k) /\ InSpace(k)' = InSpace(k)
    BY <1>2, Alone, OfQuiet, InQuiet, Zenon
  <2>6. /\ <<"check", t>> \in Tokens /\ hold[<<"check", t>>] = s /\ hold'[<<"check", t>>] = None
        /\ <<"check", t>> # <<"drop", t>>
    BY <2>3, HoldFacts, OtherTokens, Zenon
  <2>7. \A k \in Nat : <<"check", k>> # <<"check", t>> => CheckSpace(k)' = CheckSpace(k)
    BY <2>3, Zenon
  <2> QED BY <2>3, <2>4, <2>5, <2>6, <2>7, PassOn, ThreadFacts, Zenon
<1>3. ASSUME NEW t \in Compressors, SetDictionary(t), job[mine[t]].dict # None
      PROVE  \E x, z \in Tokens : Passes(x, z)
  <2>1. PICK n : n = mine[t]
    BY Zenon
  <2>2. PICK s : s = job[n].dict
    BY Zenon
  <2>3. /\ n \in Nat /\ OfSpace(n) = s /\ OfSpace(n)' = None /\ s \in Spaces
        /\ \A k \in Nat : k # n => OfSpace(k)' = OfSpace(k)
    BY <1>3, <2>1, <2>2, OfSet, Outside, Zenon
  <2>4. Free(t) /\ Drop(t, s)
    BY <1>3, <2>1, <2>2, ControlParts, Zenon DEF SetDictionary, DropInv
  <2>5. \A k \in Nat : CheckSpace(k)' = CheckSpace(k) /\ InSpace(k)' = InSpace(k)
    BY <1>3, Alone, CheckQuiet, InQuiet, Zenon
  <2>6. /\ <<"of", n>> \in Tokens /\ hold[<<"of", n>>] = s /\ hold'[<<"of", n>>] = None
        /\ <<"of", n>> # <<"drop", t>>
    BY <2>3, HoldFacts, OtherTokens, Zenon
  <2>7. \A k \in Nat : <<"of", k>> # <<"of", n>> => OfSpace(k)' = OfSpace(k)
    BY <2>3, Zenon
  <2> QED BY <2>3, <2>4, <2>5, <2>6, <2>7, PassOn, ThreadFacts, Zenon
<1>4. CASE TakeWrite
  <2>1. PICK n : n = want
    BY Zenon
  <2>2. PICK s : s = job[n].in
    BY Zenon
  <2>3. /\ n \in Nat /\ n \in DOMAIN job /\ InSpace(n) = s /\ InSpace(n)' = None
        /\ \A k \in Nat : k # n => InSpace(k)' = InSpace(k)
    BY <1>4, <2>1, <2>2, InTake, Zenon
  <2>4. s \in Spaces /\ Free(Writer) /\ Drop(Writer, s)
    <3>1. s \in Spaces
      BY <2>2, <2>3, JobSpaces, Zenon
    <3> QED BY <1>4, <2>1, <2>2, <3>1, ControlParts, Zenon DEF TakeWrite, DropInv
  <2>5. \A k \in Nat : OfSpace(k)' = OfSpace(k) /\ CheckSpace(k)' = CheckSpace(k)
    BY <1>4, Alone, OfQuiet, CheckQuiet, Zenon
  <2>6. /\ <<"in", n>> \in Tokens /\ hold[<<"in", n>>] = s /\ hold'[<<"in", n>>] = None
        /\ <<"in", n>> # <<"drop", Writer>>
    BY <2>3, HoldFacts, OtherTokens, Zenon
  <2>7. \A k \in Nat : <<"in", k>> # <<"in", n>> => InSpace(k)' = InSpace(k)
    BY <2>3, Zenon
  <2> QED BY <2>4, <2>5, <2>6, <2>7, PassOn, ThreadFacts, Zenon
<1> QED BY <1>1, <1>2, <1>3, <1>4, Zenon DEF Begins

LEMMA HoldQuiet ==
  ASSUME ControlInv, Next, ~Gaining, ~Begins, ~Twisting
  PROVE  \A y \in Tokens : hold'[y] = hold[y]
<1>1. \A k \in Nat : InSpace(k)' = InSpace(k)
  BY InQuiet, Zenon DEF Gaining, Begins
<1>2. \A k \in Nat : OfSpace(k)' = OfSpace(k)
  BY OfQuiet, Zenon DEF Gaining, Begins
<1>3. \A k \in Nat : CheckSpace(k)' = CheckSpace(k) /\ DropSpace(k)' = DropSpace(k)
  BY CheckQuiet, DropQuiet, Zenon DEF Gaining, Begins
<1>4. PICK C : C = {}
  BY Zenon
<1>5. \A y \in Tokens : y \notin C => hold'[y] = hold[y]
  BY <1>1, <1>2, <1>3, HoldOthers, Zenon
<1> QED BY <1>4, <1>5, Zenon

LEMMA UseQuiet ==
  ASSUME ControlInv, Next, ~Gaining, ~Twisting PROVE use' = use
<1>1. CASE Begins
  BY <1>1, BeginsDrop, Zenon
<1>2. CASE FreePools
  BY <1>2, Zenon DEF FreePools
<1>3. ASSUME NEW t \in Threads, DropPossess(t) \/ DropPush(t) PROVE use' = use
  BY <1>3, Zenon DEF DropPossess, DropPush
<1> QED BY <1>1, <1>2, <1>3, PoolQuiet, Zenon DEF Gaining, Twisting, Dropping

LEMMA UseTypeStep ==
  ASSUME ControlInv, InUse, Next PROVE use' \in [Spaces -> Nat]
<1>0. use \in [Spaces -> Nat]
  BY Zenon DEF InUse
<1>1. CASE GetNew \/ GetUse
  <2>1. PICK s \in Spaces : use' = [use EXCEPT ![s] = 1]
    BY <1>1, GotSpace, Zenon
  <2> QED BY <1>0, <2>1, Zenon
<1>2. CASE NewJob
  <2>1. use' = use \/ use' = [use EXCEPT ![curr] = @ + 1]
    BY <1>2, Zenon DEF NewJob
  <2> QED BY <1>0, <2>1
<1>3. ASSUME NEW t \in Compressors, Compress(t) PROVE use' \in [Spaces -> Nat]
  <2>1. PICK s \in Spaces : use' = [use EXCEPT ![s] = @ + 1]
    BY <1>3, CheckGain, Zenon DEF Compress
  <2> QED BY <1>0, <2>1
<1>4. ASSUME NEW t \in Threads, DropTwist(t) PROVE use' \in [Spaces -> Nat]
  <2>1. PICK s : s = drop[t].space
    BY Zenon
  <2>2. s \in Spaces /\ use[s] # 0 /\ use' = [use EXCEPT ![s] = @ - 1]
    BY <1>4, <2>1, DropFacts, Zenon DEF DropTwist
  <2> QED BY <1>0, <2>2
<1> QED BY <1>0, <1>1, <1>2, <1>3, <1>4, UseQuiet, Zenon DEF Gaining, Twisting

\* The buffers of out_pool are with the results that are not written yet.
OutHeld(k) ==
  \/ \E t \in Compressors : cpc[t] = "insert" /\ mine[t] = k
  \/ k \in Elems(write)
  \/ wpc = "write" /\ want = k
outHold == [k \in Nat |-> IF OutHeld(k) THEN 1 ELSE 0]

LEMMA OutQuiet ==
  ASSUME ControlInv, Next, ~WriteOut, \A t \in Compressors : ~Compress(t), NEW k \in Nat
  PROVE  outs' = outs /\ (OutHeld(k)' <=> OutHeld(k))
<1>0. DOMAIN cpc = Compressors /\ DOMAIN mine = Compressors
  BY ControlParts, Zenon DEF ThreadType
<1>1. ASSUME UNCHANGED <<write, wpc, want, cpc, mine>> PROVE OutHeld(k)' <=> OutHeld(k)
  BY <1>1, Zenon DEF OutHeld
<1>2. CASE GetNew \/ GetUse \/ GetHead \/ NewJob \/ Finish \/ JoinAll \/ FreePools
  BY <1>1, <1>2, Zenon DEF GetNew, GetUse, GetHead, NewJob, Finish, JoinAll, FreePools, wthread, comp
<1>3. CASE Launch \/ Join \/ Trailer \/ Combine
  <2>1. UNCHANGED <<outs, write, cpc, mine>> /\ wpc # "write" /\ wpc' # "write"
    BY <1>3, ControlParts, Zenon DEF Launch, Join, Trailer, Combine, comp, MainInv, Running
  <2> QED BY <2>1, Zenon DEF OutHeld
<1>4. CASE Enqueue
  <2>1. /\ UNCHANGED <<outs, write, wpc, want, mine>>
        /\ cpc' = cpc \/ cpc' = [cpc EXCEPT ![cthreads + 1] = "idle"]
    BY <1>4, Zenon DEF Enqueue, wthread
  <2>2. cthreads + 1 \in Compressors => cpc[cthreads + 1] = "none"
    <3>1. (\A t \in Compressors : t > cthreads => cpc[t] = "none") /\ cthreads \in Nat
      BY ControlParts, ThreadFacts DEF MainInv, MainType
    <3> QED BY <3>1
  <2>3. \A t \in Compressors : cpc'[t] = "insert" <=> cpc[t] = "insert"
    BY <1>0, <2>1, <2>2, Zenon
  <2> QED BY <2>1, <2>3, Zenon DEF OutHeld
<1>5. CASE TakeWrite
  <2>1. /\ wpc = "take" /\ wpc' = "write" /\ write # <<>> /\ Head(write) = want /\ write' = Tail(write)
        /\ UNCHANGED <<want, outs, cpc, mine>>
    BY <1>5, Zenon DEF TakeWrite, comp
  <2>2. want \in Elems(write) /\ Elems(write') = Elems(write) \ {want}
    BY <2>1, TailElems, ControlParts, Zenon DEF ListType, ListInv
  <2>3. wpc # "write"
    BY <2>1, Zenon
  <2> QED BY <2>1, <2>2, <2>3, Zenon DEF OutHeld
<1>6. ASSUME NEW t \in Compressors, InsertWrite(t) PROVE outs' = outs /\ (OutHeld(k)' <=> OutHeld(k))
  <2>1. PICK n \in 0..Len(write) : write' = Insert(write, mine[t], n)
    BY <1>6, Zenon DEF InsertWrite
  <2>2. /\ UNCHANGED <<wpc, want, mine, outs>> /\ cpc[t] = "insert" /\ cpc'[t] = "check"
        /\ \A u \in Compressors : u # t => cpc'[u] = cpc[u]
    BY <1>0, <1>6, Zenon DEF InsertWrite, wthread
  <2>3. /\ mine[t] \in Nat /\ mine[t] \notin Elems(write) /\ write \in Seq(Nat) /\ Distinct(write)
    <3>1. mine[t] \in DOMAIN job /\ Begun(t, mine[t])
      BY <2>2, ControlParts, Zenon DEF ListInv, Begun, Working
    <3> QED BY <3>1, ControlParts, Zenon DEF StageInv, ListType, ListInv, JobType
  <2>4. Elems(Insert(write, mine[t], n)) = Elems(write) \cup {mine[t]}
    BY <2>3, InsertElems
  <2>5. cpc'[t] # "insert"
    BY <2>2, Zenon
  <2> QED BY <2>1, <2>2, <2>4, <2>5, Zenon DEF OutHeld
<1>7. ASSUME NEW t \in Compressors, TakeJob(t) \/ Leave(t) \/ SetDictionary(t) \/ Check(t) \/ Calc(t)
      PROVE  outs' = outs /\ (OutHeld(k)' <=> OutHeld(k))
  <2>1. /\ UNCHANGED <<write, wpc, want, outs>> /\ cpc[t] # "insert" /\ cpc'[t] # "insert"
        /\ \A u \in Compressors : u # t => cpc'[u] = cpc[u] /\ mine'[u] = mine[u]
    BY <1>0, <1>7, Zenon DEF TakeJob, Leave, SetDictionary, Check, Calc, wthread
  <2> QED BY <2>1, Zenon DEF OutHeld
<1>8. ASSUME NEW t \in Threads, Dropping(t) PROVE outs' = outs /\ (OutHeld(k)' <=> OutHeld(k))
  BY <1>1, <1>8, DroppingKeeps, Zenon DEF comp, wthread
<1> QED BY <1>2, <1>3, <1>4, <1>5, <1>6, <1>7, <1>8, NextCases, Zenon

LEMMA OutGain ==
  ASSUME ControlInv, NEW t \in Compressors, Compress(t), NEW n, n = mine[t]
  PROVE  /\ n \in Nat /\ ~OutHeld(n) /\ OutHeld(n)' /\ outs' = outs + 1
         /\ \A k \in Nat : k # n => (OutHeld(k)' <=> OutHeld(k))
<1>1. /\ cpc[t] = "compress" /\ cpc'[t] = "insert" /\ UNCHANGED <<write, wpc, want, mine>>
      /\ \A u \in Compressors : u # t => cpc'[u] = cpc[u]
      /\ outs' = outs + 1
  BY ControlParts, Zenon DEF Compress, ThreadType, wthread
<1>2. n \in DOMAIN job /\ Begun(t, n) /\ n \in Nat
  BY <1>1, ControlParts, Zenon DEF ListInv, Begun, Working, ThreadType
<1>3. n \notin Elems(write) /\ ~AtWriter(n)
  BY <1>2, ControlParts, Zenon DEF StageInv
<1>4. \A u \in Compressors : cpc[u] = "insert" => mine[u] # n
  BY <1>1, ControlParts, Zenon DEF StageInv, Working
<1>5. ~OutHeld(n)
  BY <1>3, <1>4, Zenon DEF OutHeld, AtWriter
<1>6. OutHeld(n)'
  BY <1>1, Zenon DEF OutHeld
<1>7. cpc[t] # "insert"
  BY <1>1, Zenon
<1>8. ASSUME NEW k \in Nat, k # n PROVE OutHeld(k)' <=> OutHeld(k)
  BY <1>1, <1>7, <1>8, Zenon DEF OutHeld
<1> QED BY <1>1, <1>2, <1>5, <1>6, <1>8, Zenon

LEMMA OutLose ==
  ASSUME ControlInv, WriteOut, NEW n, n = want
  PROVE  /\ n \in Nat /\ OutHeld(n) /\ ~OutHeld(n)' /\ outs' = outs - 1
         /\ \A k \in Nat : k # n => (OutHeld(k)' <=> OutHeld(k))
<1>1. /\ wpc = "write" /\ wpc' # "write" /\ UNCHANGED <<write, want, cpc, mine>>
      /\ outs' = outs - 1
  BY Zenon DEF WriteOut, comp
<1>2. n \in DOMAIN job /\ AtWriter(n) /\ n \in Nat
  BY <1>1, ControlParts, Zenon DEF ListInv, AtWriter, ThreadType
<1>3. n \notin Elems(write) /\ \A t \in Compressors : cpc[t] = "insert" => mine[t] # n
  BY <1>2, ControlParts, Zenon DEF StageInv, Begun
<1>4. OutHeld(n) /\ ~OutHeld(n)'
  BY <1>1, <1>3, Zenon DEF OutHeld
<1>5. ASSUME NEW k \in Nat, k # n PROVE OutHeld(k)' <=> OutHeld(k)
  BY <1>1, <1>5, Zenon DEF OutHeld
<1> QED BY <1>1, <1>2, <1>4, <1>5, Zenon

\* Before the first thread runs, and when all have returned, nobody holds a buffer of either pool.
LEMMA NoneHeld ==
  ASSUME ControlInv, ~Running, \A t \in Compressors : cpc[t] \in {"none", "exited"}
  PROVE  (\A x \in Tokens : hold[x] = None) /\ \A k \in Nat : ~OutHeld(k)
<1>1. /\ DOMAIN job = {} /\ wpc = "none" /\ mpc \notin {"more", "job", "enqueue", "join"}
  BY Outside, ControlParts, Zenon DEF MainInv, Running
<1>2. \A t \in Threads : Free(t)
  BY <1>1, ControlParts, ThreadFacts, Zenon DEF DropInv
<1>3. \A k \in Nat : InSpace(k) = None /\ OfSpace(k) = None
  BY <1>1, Zenon DEF InSpace, OfSpace
<1>4. \A k \in Nat : CheckSpace(k) = None /\ DropSpace(k) = None
  BY <1>1, <1>2 DEF CheckSpace, DropSpace, Free, NoDrop
<1>5. Elems(write) = {}
  BY <1>1, ControlParts, Zenon DEF ListInv
<1>6. \A k \in Nat : ~OutHeld(k)
  BY <1>1, <1>5, Zenon DEF OutHeld
<1>7. \A x \in Tokens : hold[x] = None
  BY <1>3, <1>4, HoldFacts, Zenon
<1> QED BY <1>6, <1>7, Zenon

LEMMA AllBack ==
  ASSUME ControlInv, HaveInv, mpc = "free", \A s \in Spaces : use[s] = 0
  PROVE  Elems(have) = 1..(InBufs - limit) /\ have \in Seq(Spaces) /\ InBufs - limit \in Nat
<1>1. have \in Seq(Spaces) /\ limit \in 0..InBufs /\ InBufs \in Nat
  BY ControlParts, ThreadFacts, Zenon DEF PoolType
<1>2. Elems(have) \subseteq Spaces
  BY <1>1 DEF Elems
<1>3. \A s \in Spaces : s \in Elems(have) <=> s <= InBufs - limit
  BY Zenon DEF HaveInv
<1>4. PICK n \in Nat : n = InBufs - limit /\ n <= InBufs
  BY <1>1
<1>5. Elems(have) = 1..n
  <2>1. 1..n \subseteq Spaces /\ \A s \in Spaces : s <= n <=> s \in 1..n
    BY <1>1, <1>4 DEF Spaces
  <2>2. \A s \in Spaces : s \in Elems(have) <=> s \in 1..n
    BY <1>3, <1>4, <2>1, Zenon
  <2> QED BY <1>2, <2>1, <2>2, Zenon
<1> QED BY <1>1, <1>4, <1>5, Zenon

LEMMA Asserts ==
  ASSUME ControlInv, InUse, mpc = "free" => Len(have) = InBufs - limit /\ outs = 0
  PROVE  AssertsHold
<1>1. ASSUME NEW t \in Threads, drop[t].step = "possess" PROVE use[drop[t].space] > 0
  <2>1. drop[t].step # "no"
    BY <1>1, Zenon
  <2>2. use[drop[t].space] \in Nat /\ use[drop[t].space] # 0
    BY <2>1, DropFacts, Zenon
  <2> QED BY <2>2
<1>2. compress \in Seq(Nat) /\ write \in Seq(Nat)
  BY ControlParts, Zenon DEF ListType
<1>3. DOMAIN job = {} /\ mpc \notin {"join_all", "free"} => compress = <<>> /\ write = <<>>
  <2>1. DOMAIN job = {} /\ mpc \notin {"join_all", "free"} => Elems(compress) = {} /\ Elems(write) = {}
    BY ControlParts, Zenon DEF ListInv
  <2> QED BY <1>2, <2>1, NoElems, Zenon
<1>4. wpc = "trailer" => DOMAIN job = {} /\ mpc \notin {"join_all", "free"}
  BY Outside, ControlParts, Zenon DEF MainInv
<1>5. mpc = "finish" => DOMAIN job = {} /\ mpc \notin {"join_all", "free"}
  BY Outside, Zenon
<1> QED BY <1>1, <1>3, <1>4, <1>5, Zenon DEF AssertsHold

\* No freed job is touched.
LEMMA Allocated == ControlInv => JobsAreAllocated
BY ControlParts, Zenon DEF ListInv, JobsAreAllocated

LEMMA StartsFree ==
  ASSUME Init
  PROVE  /\ ControlInv /\ LocksInv /\ PushInv /\ HaveInv /\ MadeInv /\ Content
         /\ use = [s \in Spaces |-> 0] /\ outs = 0
         /\ ~Running /\ \A t \in Compressors : cpc[t] = "none"
<1>1. /\ mpc = "start" /\ limit = InBufs /\ have = <<>> /\ use = [s \in Spaces |-> 0]
      /\ useLock = [s \in Spaces |-> Nobody] /\ drop = [t \in Threads |-> NoDrop] /\ outs = 0
      /\ cpc = [t \in Compressors |-> "none"]
  BY Zenon DEF Init
<1>2. ControlInv
  BY ControlInit, Zenon
<1>3. LocksInv
  BY <1>1, Zenon DEF LocksInv, NoDrop
<1>4. PushInv
  BY <1>1, Zenon DEF PushInv, NoDrop
<1>5. HaveInv
  <2>1. Elems(have) = {} /\ Distinct(have)
    BY <1>1, EmptyList, Zenon
  <2>2. \A s \in Spaces : use[s] = 0 /\ ~(s <= InBufs - limit)
    BY <1>1, ThreadFacts DEF Spaces
  <2> QED BY <2>1, <2>2, Zenon DEF HaveInv
<1>6. MadeInv /\ ~Running
  BY <1>1, Zenon DEF MadeInv, Running
<1>7. Content
  BY <1>6, Zenon DEF Content
<1> QED BY <1>1, <1>2, <1>3, <1>4, <1>5, <1>6, <1>7, Zenon

LEMMA SameTokens ==
  ASSUME UNCHANGED vars, NEW k
  PROVE  /\ InSpace(k)' = InSpace(k) /\ OfSpace(k)' = OfSpace(k) /\ (Undone(k)' <=> Undone(k))
         /\ CheckSpace(k)' = CheckSpace(k) /\ DropSpace(k)' = DropSpace(k)
         /\ (OutHeld(k)' <=> OutHeld(k)) /\ (AtWriter(k)' <=> AtWriter(k))
<1>1. UNCHANGED <<mpc, seq, curr, next, dict, job, compress, write, cpc, mine, wpc, want, drop>>
  BY Zenon DEF vars, main, comp, wthread, pool
<1>2. (Undone(k)' <=> Undone(k)) /\ (AtWriter(k)' <=> AtWriter(k))
  BY <1>1, UndoneSame, Zenon DEF AtWriter
<1> QED BY <1>1, <1>2, Zenon DEF InSpace, OfSpace, CheckSpace, DropSpace, OutHeld

LEMMA SameInv ==
  ASSUME ControlInv, LocksInv, PushInv, HaveInv, MadeInv, Content, UNCHANGED vars
  PROVE  /\ LocksInv' /\ PushInv' /\ HaveInv' /\ MadeInv' /\ Content'
         /\ use' = use /\ outs' = outs /\ hold' = hold /\ outHold' = outHold
<1>1. /\ UNCHANGED main /\ UNCHANGED <<job, cpc, mine, sum, wpc, want, write>>
      /\ UNCHANGED <<limit, have, use, useLock, drop, buf, outs, output, check>>
  BY Zenon DEF vars, comp, wthread, pool, result
<1>2. UNCHANGED <<mpc, stream, read, seq, curr, dict>>
  BY <1>1, Zenon DEF main
<1>3. LocksInv' /\ MadeInv'
  BY <1>1, <1>2, LocksSame, Zenon DEF MadeInv
<1>4. PushInv' /\ HaveInv'
  BY <1>1, <1>2, Zenon DEF PushInv, HaveInv
<1>5. hold' = hold
  <2>1. \A x \in Tokens : hold'[x] = hold[x]
    <3> SUFFICES ASSUME NEW x \in Tokens PROVE hold'[x] = hold[x]
      BY Zenon
    <3>1. PICK k \in Nat : x = <<"in", k>> \/ x = <<"of", k>> \/ x = <<"check", k>> \/ x = <<"drop", k>>
      BY HoldFacts, Zenon
    <3>2. /\ InSpace(k)' = InSpace(k) /\ OfSpace(k)' = OfSpace(k)
          /\ CheckSpace(k)' = CheckSpace(k) /\ DropSpace(k)' = DropSpace(k)
      BY SameTokens, Zenon
    <3>3. /\ hold'[<<"in", k>>] = hold[<<"in", k>>] /\ hold'[<<"of", k>>] = hold[<<"of", k>>]
          /\ hold'[<<"check", k>>] = hold[<<"check", k>>] /\ hold'[<<"drop", k>>] = hold[<<"drop", k>>]
      <4>1. /\ hold[<<"in", k>>] = InSpace(k) /\ hold'[<<"in", k>>] = InSpace(k)'
            /\ hold[<<"of", k>>] = OfSpace(k) /\ hold'[<<"of", k>>] = OfSpace(k)'
            /\ hold[<<"check", k>>] = CheckSpace(k) /\ hold'[<<"check", k>>] = CheckSpace(k)'
            /\ hold[<<"drop", k>>] = DropSpace(k) /\ hold'[<<"drop", k>>] = DropSpace(k)'
        BY HoldFacts, Zenon
      <4> QED BY <3>2, <4>1, Zenon
    <3> QED BY <3>1, <3>3, Zenon
  <2>2. hold = [x \in Tokens |-> hold[x]] /\ hold' = [x \in Tokens |-> hold'[x]]
    BY Zenon DEF hold
  <2> QED BY <2>1, <2>2, Zenon
<1>6. outHold' = outHold
  BY SameTokens, Zenon DEF outHold
<1>7. ASSUME Running PROVE BufInv' /\ ReadInv' /\ WorkInv' /\ ResultInv'
  <2>1. BufInv /\ ReadInv /\ WorkInv /\ ResultInv
    BY <1>7, Zenon DEF Content
  <2>2. BufInv'
    BY <1>1, <1>2, <1>7, <2>1, SameTokens, BufSame, ThreadFacts, Zenon
  <2>3. /\ InOrder!Count' = InOrder!Count
        /\ \A k : InOrder!Number(k)' = InOrder!Number(k) /\ InOrder!Block(k)' = InOrder!Block(k)
    BY <1>2, SameStream, Zenon
  <2>4. ReadInv'
    BY <1>1, <1>2, <2>1, <2>3, Zenon DEF ReadInv
  <2>5. ResultInv'
    BY <1>1, <2>1, <2>3, Zenon DEF ResultInv
  <2>6. \A k \in DOMAIN job : JobWork(k)'
    BY <1>1, <1>2, <2>1, SameTokens, JobWorkSame, Zenon DEF WorkInv
  <2>7. ASSUME NEW t \in Compressors PROVE ThreadWork(t)'
    <3>1. InOrder!Block(mine[t])' = InOrder!Block(mine[t])
      BY <1>1, <1>2, Zenon DEF InOrder!Block, InOrder!Number
    <3> QED BY <1>1, <2>1, <3>1, Zenon DEF ThreadWork, WorkInv
  <2> QED BY <1>1, <2>2, <2>4, <2>5, <2>6, <2>7, Zenon DEF WorkInv
<1>8. Content'
  BY <1>2, <1>7, Zenon DEF Content, Running
<1> QED BY <1>1, <1>3, <1>4, <1>5, <1>6, <1>8, Zenon
-----------------------------------------------------------------------------
\* Counting.  A function h says for each holder what it holds; u[s] is the number of
\* those that hold s.
LOCAL INSTANCE FiniteSetTheorems

Users(h, s) == {x \in DOMAIN h : h[x] = s}
Counts(h, u) == \A s \in DOMAIN u : IsFiniteSet(Users(h, s)) /\ u[s] = Cardinality(Users(h, s))

LEMMA CountZero ==
  ASSUME NEW h, NEW u, Counts(h, u), NEW s \in DOMAIN u, NEW x \in DOMAIN h, h[x] = s
  PROVE  u[s] # 0 /\ u[s] \in Nat
<1>1. x \in Users(h, s) /\ IsFiniteSet(Users(h, s)) /\ u[s] = Cardinality(Users(h, s))
  BY Zenon DEF Users, Counts
<1> QED BY <1>1, FS_EmptySet, FS_CardinalityType, Zenon

LEMMA CountOne ==
  ASSUME NEW h, NEW u, Counts(h, u), NEW s \in DOMAIN u, u[s] = 1,
         NEW x \in DOMAIN h, h[x] = s, NEW y \in DOMAIN h, h[y] = s
  PROVE  x = y
<1>1. x \in Users(h, s) /\ y \in Users(h, s)
      /\ IsFiniteSet(Users(h, s)) /\ Cardinality(Users(h, s)) = 1
  BY Zenon DEF Users, Counts
<1>2. PICK z : Users(h, s) = {z}
  BY <1>1, FS_Singleton, Zenon
<1> QED BY <1>1, <1>2, Zenon

LEMMA OneMoreIn ==
  ASSUME NEW A, NEW B, NEW x, IsFiniteSet(A), B = A \cup {x}, x \notin A
  PROVE  IsFiniteSet(B) /\ Cardinality(B) = Cardinality(A) + 1
<1>1. /\ IsFiniteSet(A \cup {x})
      /\ Cardinality(A \cup {x}) = IF x \in A THEN Cardinality(A) ELSE Cardinality(A) + 1
  BY FS_AddElement, Zenon
<1> QED BY <1>1, Zenon

\* One more holder of s ...
OneMore(h, g, u, v, x, s) ==
  /\ x \in DOMAIN h /\ DOMAIN g = DOMAIN h /\ \A y \in DOMAIN h : y # x => g[y] = h[y]
  /\ h[x] \notin DOMAIN u /\ g[x] = s
  /\ DOMAIN v = DOMAIN u /\ (\A r \in DOMAIN u : r # s => v[r] = u[r]) /\ v[s] = u[s] + 1

LEMMA CountGain ==
  ASSUME NEW h, NEW g, NEW u, NEW v, NEW x, NEW s, Counts(h, u), OneMore(h, g, u, v, x, s)
  PROVE  Counts(g, v)
<1> USE DEF OneMore
<1> SUFFICES ASSUME NEW r \in DOMAIN u
             PROVE  IsFiniteSet(Users(g, r)) /\ v[r] = Cardinality(Users(g, r))
  BY Zenon DEF Counts
<1>1. IsFiniteSet(Users(h, r)) /\ u[r] = Cardinality(Users(h, r))
  BY Zenon DEF Counts
<1>2. CASE r = s
  <2>1. Users(g, r) = Users(h, r) \cup {x} /\ x \notin Users(h, r)
    BY <1>2, Zenon DEF Users
  <2>2. IsFiniteSet(Users(g, r)) /\ Cardinality(Users(g, r)) = Cardinality(Users(h, r)) + 1
    BY <1>1, <2>1, OneMoreIn, Zenon
  <2> QED BY <1>1, <1>2, <2>2, Zenon
<1>3. CASE r # s
  <2>1. Users(g, r) = Users(h, r)
    BY <1>3, Zenon DEF Users
  <2> QED BY <1>1, <1>3, <2>1, Zenon
<1> QED BY <1>2, <1>3, Zenon

\* ... or one less.
OneLess(h, g, u, v, x, s) ==
  /\ x \in DOMAIN h /\ DOMAIN g = DOMAIN h /\ \A y \in DOMAIN h : y # x => g[y] = h[y]
  /\ h[x] = s /\ g[x] \notin DOMAIN u
  /\ DOMAIN v = DOMAIN u /\ (\A r \in DOMAIN u : r # s => v[r] = u[r]) /\ v[s] = u[s] - 1

LEMMA CountLose ==
  ASSUME NEW h, NEW g, NEW u, NEW v, NEW x, NEW s, Counts(h, u), OneLess(h, g, u, v, x, s)
  PROVE  Counts(g, v)
<1> USE DEF OneLess
<1> SUFFICES ASSUME NEW r \in DOMAIN u
             PROVE  IsFiniteSet(Users(g, r)) /\ v[r] = Cardinality(Users(g, r))
  BY Zenon DEF Counts
<1>1. IsFiniteSet(Users(h, r)) /\ u[r] = Cardinality(Users(h, r))
  BY Zenon DEF Counts
<1>2. CASE r = s
  <2>1. Users(g, r) = Users(h, r) \ {x} /\ x \in Users(h, r)
    BY <1>2, Zenon DEF Users
  <2>2. IsFiniteSet(Users(g, r)) /\ Cardinality(Users(g, r)) = Cardinality(Users(h, r)) - 1
    BY <1>1, <2>1, FS_RemoveElement, ZenonT(30)
  <2> QED BY <1>1, <1>2, <2>2, Zenon
<1>3. CASE r # s
  <2>1. Users(g, r) = Users(h, r)
    BY <1>3, Zenon DEF Users
  <2> QED BY <1>1, <1>3, <2>1, Zenon
<1> QED BY <1>2, <1>3, Zenon

\* What one holder held another one holds.
OneForAnother(h, g, u, x, z) ==
  /\ x \in DOMAIN h /\ z \in DOMAIN h /\ x # z /\ DOMAIN g = DOMAIN h
  /\ \A y \in DOMAIN h : y # x /\ y # z => g[y] = h[y]
  /\ g[z] = h[x] /\ g[x] \notin DOMAIN u /\ h[z] \notin DOMAIN u

LEMMA CountMove ==
  ASSUME NEW h, NEW g, NEW u, NEW x, NEW z, Counts(h, u), OneForAnother(h, g, u, x, z)
  PROVE  Counts(g, u)
<1> USE DEF OneForAnother
<1> SUFFICES ASSUME NEW r \in DOMAIN u
             PROVE  IsFiniteSet(Users(g, r)) /\ u[r] = Cardinality(Users(g, r))
  BY Zenon DEF Counts
<1>1. IsFiniteSet(Users(h, r)) /\ u[r] = Cardinality(Users(h, r))
  BY Zenon DEF Counts
<1>2. CASE r = h[x]
  <2>1. Users(g, r) = (Users(h, r) \ {x}) \cup {z} /\ x \in Users(h, r)
        /\ z \notin Users(h, r) \ {x}
    BY <1>2, Zenon DEF Users
  <2>2. /\ IsFiniteSet(Users(h, r) \ {x})
        /\ Cardinality(Users(h, r) \ {x}) = Cardinality(Users(h, r)) - 1
    BY <1>1, <2>1, FS_RemoveElement, Zenon
  <2>3. /\ IsFiniteSet(Users(g, r))
        /\ Cardinality(Users(g, r)) = Cardinality(Users(h, r) \ {x}) + 1
    BY <2>1, <2>2, OneMoreIn, Zenon
  <2>4. Cardinality(Users(h, r)) \in Nat
    BY <1>1, FS_CardinalityType, Zenon
  <2> QED BY <1>1, <2>2, <2>3, <2>4
<1>3. CASE r # h[x]
  <2>1. Users(g, r) = Users(h, r)
    BY <1>3, Zenon DEF Users
  <2> QED BY <1>1, <2>1, Zenon
<1> QED BY <1>2, <1>3, Zenon

LEMMA CountList ==
  ASSUME NEW S, NEW q \in Seq(S), Distinct(q), NEW n \in Nat, Elems(q) = 1..n
  PROVE  Len(q) = n
<1>1. Len(q) \in Nat /\ q \in [1..Len(q) -> Elems(q)] /\ \A x \in Elems(q) : \E i \in 1..Len(q) : q[i] = x
  BY DEF Elems
<1>2. q \in Bijection(1..Len(q), Elems(q))
  <2>1. q \in Injection(1..Len(q), Elems(q))
    <3>1. IsInjective(q)
      BY <1>1, Zenon DEF Distinct, IsInjective
    <3> QED BY <1>1, <3>1, Zenon DEF Injection
  <2>2. q \in Surjection(1..Len(q), Elems(q))
    BY <1>1, Zenon DEF Surjection
  <2> QED BY <2>1, <2>2, Zenon DEF Bijection
<1>3. Cardinality(Elems(q)) = Len(q)
  BY <1>1, <1>2, FS_CountingElements, Zenon DEF ExistsBijection
<1>4. Cardinality(1..n) = IF 1 > n THEN 0 ELSE n - 1 + 1
  BY FS_Interval
<1> QED BY <1>3, <1>4

\* The use count of a buffer is the number of those who hold it; the buffers of out_pool
\* in use are those of the results that are not written yet.
UseInv == use \in [Spaces -> Nat] /\ Counts(hold, use)
OutInv == outs \in Nat /\ Counts(outHold, <<outs>>)

LEMMA UseCounts == ASSUME ControlInv, UseInv PROVE InUse
<1>1. DOMAIN use = Spaces /\ DOMAIN hold = Tokens /\ Counts(hold, use)
  BY HoldFacts, Zenon DEF UseInv
<1>2. ASSUME NEW x \in Tokens, NEW s \in Spaces, hold[x] = s PROVE use[s] # 0
  BY <1>1, <1>2, CountZero, Zenon
<1>3. ASSUME NEW x \in Tokens, hold[x] \in Spaces \cup {None}, hold[x] # None PROVE use[hold[x]] # 0
  BY <1>2, <1>3, Zenon
<1>4. ASSUME NEW k \in Nat
      PROVE  /\ InSpace(k) # None => use[InSpace(k)] # 0
             /\ OfSpace(k) # None => use[OfSpace(k)] # 0
             /\ CheckSpace(k) # None => use[CheckSpace(k)] # 0
             /\ DropSpace(k) # None => use[DropSpace(k)] # 0
  <2>1. /\ <<"in", k>> \in Tokens /\ hold[<<"in", k>>] = InSpace(k)
        /\ <<"of", k>> \in Tokens /\ hold[<<"of", k>>] = OfSpace(k)
        /\ <<"check", k>> \in Tokens /\ hold[<<"check", k>>] = CheckSpace(k)
        /\ <<"drop", k>> \in Tokens /\ hold[<<"drop", k>>] = DropSpace(k)
    BY HoldFacts, Zenon
  <2>2. /\ InSpace(k) \in Spaces \cup {None} /\ OfSpace(k) \in Spaces \cup {None}
        /\ CheckSpace(k) \in Spaces \cup {None} /\ DropSpace(k) \in Spaces \cup {None}
    BY HeldSpaces, Zenon
  <2> QED BY <1>3, <2>1, <2>2, Zenon
<1> QED BY <1>4, Zenon DEF UseInv, InUse

\* The last user of a buffer is the only one.
LEMMA LastUserAlone == ASSUME ControlInv, UseInv PROVE LastUser
<1> SUFFICES ASSUME NEW t \in Threads, NEW s \in Spaces, drop[t].space = s, use[s] = 1
             PROVE  Unread(s)
  BY Zenon DEF LastUser
<1>1. DOMAIN use = Spaces /\ DOMAIN hold = Tokens /\ Counts(hold, use)
  BY HoldFacts, Zenon DEF UseInv
<1>2. t \in Nat /\ DropSpace(t) = s
  BY ThreadFacts, Zenon DEF DropSpace
<1>3. <<"drop", t>> \in Tokens /\ hold[<<"drop", t>>] = s
  BY <1>2, HoldFacts, Zenon
<1>4. ASSUME NEW y \in Tokens, y # <<"drop", t>> PROVE hold[y] # s
  BY <1>1, <1>3, <1>4, CountOne, Zenon
<1>5. ASSUME NEW k \in Nat PROVE InSpace(k) # s /\ OfSpace(k) # s /\ CheckSpace(k) # s
  <2>1. /\ <<"in", k>> \in Tokens /\ hold[<<"in", k>>] = InSpace(k)
        /\ <<"of", k>> \in Tokens /\ hold[<<"of", k>>] = OfSpace(k)
        /\ <<"check", k>> \in Tokens /\ hold[<<"check", k>>] = CheckSpace(k)
    BY HoldFacts, Zenon
  <2>2. <<"in", k>> # <<"drop", t>> /\ <<"of", k>> # <<"drop", t>> /\ <<"check", k>> # <<"drop", t>>
    BY OtherTokens, Zenon
  <2> QED BY <1>4, <2>1, <2>2, Zenon
<1> QED BY <1>5, Zenon DEF Unread

LEMMA UseStep ==
  ASSUME ControlInv, UseInv, LocksInv, HaveInv, Next PROVE UseInv'
<1>1. InUse
  BY UseCounts, Zenon
<1>2. /\ DOMAIN use = Spaces /\ DOMAIN hold = Tokens /\ DOMAIN hold' = Tokens /\ Counts(hold, use)
      /\ None \notin Spaces
  BY HoldFacts, ThreadFacts, Zenon DEF UseInv
<1>3. use' \in [Spaces -> Nat]
  BY <1>1, UseTypeStep, Zenon
<1>4. DOMAIN use' = Spaces
  BY <1>3, Zenon
<1>5. ASSUME NEW x \in Tokens, NEW s \in Spaces, Gains(x, s) PROVE Counts(hold', use')
  <2>1. OneMore(hold, hold', use, use', x, s)
    BY <1>2, <1>4, <1>5, Zenon DEF Gains, OneMore
  <2> QED BY <1>2, <2>1, CountGain, Zenon
<1>6. ASSUME NEW x \in Tokens, NEW s \in Spaces, Loses(x, s) PROVE Counts(hold', use')
  <2>1. OneLess(hold, hold', use, use', x, s)
    BY <1>2, <1>4, <1>6, Zenon DEF Loses, OneLess
  <2> QED BY <1>2, <2>1, CountLose, Zenon
<1>7. ASSUME NEW x \in Tokens, NEW z \in Tokens, Passes(x, z), use' = use PROVE Counts(hold', use')
  <2>1. OneForAnother(hold, hold', use, x, z)
    BY <1>2, <1>7, Zenon DEF Passes, OneForAnother
  <2> QED BY <1>2, <1>7, <2>1, CountMove, Zenon
<1>8. ASSUME use' = use, \A y \in Tokens : hold'[y] = hold[y] PROVE Counts(hold', use')
  <2>1. \A s : Users(hold', s) = Users(hold, s)
    BY <1>2, <1>8, Zenon DEF Users
  <2> QED BY <1>2, <1>8, <2>1, Zenon DEF Counts
<1>9. CASE Gaining
  BY <1>1, <1>5, <1>9, <1>3, GetGains, NewJobGains, CompressGains, Zenon DEF Gaining, UseInv
<1>10. CASE Twisting
  BY <1>1, <1>6, <1>10, <1>3, TwistLoses, Zenon DEF Twisting, UseInv
<1>11. CASE Begins /\ ~Gaining /\ ~Twisting
  BY <1>7, <1>11, <1>3, BeginsPasses, UseQuiet, Zenon DEF UseInv
<1>12. CASE ~Begins /\ ~Gaining /\ ~Twisting
  BY <1>8, <1>12, <1>3, HoldQuiet, UseQuiet, Zenon DEF UseInv
<1> QED BY <1>9, <1>10, <1>11, <1>12, Zenon

LEMMA OutStep == ASSUME ControlInv, OutInv, Next PROVE OutInv'
<1>1. /\ DOMAIN outHold = Nat /\ DOMAIN outHold' = Nat
      /\ \A k \in Nat : /\ outHold[k] = IF OutHeld(k) THEN 1 ELSE 0
                        /\ outHold'[k] = IF OutHeld(k)' THEN 1 ELSE 0
  BY Zenon DEF outHold
<1>2. outs \in Nat /\ Counts(outHold, <<outs>>)
  BY Zenon DEF OutInv
<1>3. DOMAIN <<outs>> = {1} /\ DOMAIN <<outs'>> = {1} /\ <<outs>>[1] = outs /\ <<outs'>>[1] = outs' /\ 0 \notin {1}
  OBVIOUS
<1>4. ASSUME NEW t \in Compressors, Compress(t) PROVE OutInv'
  <2>1. PICK n : n = mine[t]
    BY Zenon
  <2>2. /\ n \in Nat /\ ~OutHeld(n) /\ OutHeld(n)' /\ outs' = outs + 1
        /\ \A k \in Nat : k # n => (OutHeld(k)' <=> OutHeld(k))
    BY <1>4, <2>1, OutGain, Zenon
  <2>3. outHold[n] = 0 /\ outHold'[n] = 1 /\ \A k \in Nat : k # n => outHold'[k] = outHold[k]
    BY <1>1, <2>2, Zenon
  <2>4. OneMore(outHold, outHold', <<outs>>, <<outs'>>, n, 1)
    BY <1>1, <1>3, <2>2, <2>3, Zenon DEF OneMore
  <2>5. outs' \in Nat
    BY <1>2, <2>2
  <2> QED BY <1>2, <2>4, <2>5, CountGain, Zenon DEF OutInv
<1>5. CASE WriteOut
  <2>1. PICK n : n = want
    BY Zenon
  <2>2. /\ n \in Nat /\ OutHeld(n) /\ ~OutHeld(n)' /\ outs' = outs - 1
        /\ \A k \in Nat : k # n => (OutHeld(k)' <=> OutHeld(k))
    BY <1>5, <2>1, OutLose, Zenon
  <2>3. outHold[n] = 1 /\ outHold'[n] = 0 /\ \A k \in Nat : k # n => outHold'[k] = outHold[k]
    BY <1>1, <2>2, Zenon
  <2>4. OneLess(outHold, outHold', <<outs>>, <<outs'>>, n, 1)
    BY <1>1, <1>3, <2>2, <2>3, Zenon DEF OneLess
  <2>5. <<outs>>[1] # 0
    <3>1. 1 \in DOMAIN <<outs>> /\ n \in DOMAIN outHold /\ outHold[n] = 1
      BY <1>1, <1>3, <2>2, <2>3, Zenon
    <3> QED BY <1>2, <3>1, CountZero, Zenon
  <2>6. outs' \in Nat
    BY <1>2, <1>3, <2>2, <2>5
  <2> QED BY <1>2, <2>4, <2>6, CountLose, Zenon DEF OutInv
<1>6. CASE ~WriteOut /\ \A t \in Compressors : ~Compress(t)
  <2>1. 0 \in Nat
    BY Zenon
  <2>2. outs' = outs /\ \A k \in Nat : OutHeld(k)' <=> OutHeld(k)
    BY <1>6, <2>1, OutQuiet, Zenon
  <2>3. outHold' = outHold
    BY <2>2, Zenon DEF outHold
  <2> QED BY <2>2, <2>3, Zenon DEF OutInv
<1> QED BY <1>4, <1>5, <1>6, Zenon
-----------------------------------------------------------------------------
\* The inductive invariant.
PoolInv ==
  /\ ControlInv /\ LocksInv /\ PushInv /\ HaveInv /\ MadeInv /\ Content
  /\ UseInv /\ OutInv

LEMMA PoolInit == Init => PoolInv
<1> SUFFICES ASSUME Init PROVE PoolInv
  BY Zenon
<1>1. /\ ControlInv /\ LocksInv /\ PushInv /\ HaveInv /\ MadeInv /\ Content
      /\ use = [s \in Spaces |-> 0] /\ outs = 0
      /\ ~Running /\ \A t \in Compressors : cpc[t] = "none"
  BY StartsFree, Zenon
<1>2. (\A x \in Tokens : hold[x] = None) /\ \A k \in Nat : ~OutHeld(k)
  BY <1>1, NoneHeld, Zenon
<1>3. IsFiniteSet({}) /\ Cardinality({}) = 0
  BY FS_EmptySet, Zenon
<1>4. UseInv
  <2>1. use \in [Spaces -> Nat] /\ DOMAIN use = Spaces /\ \A s \in Spaces : use[s] = 0
    BY <1>1, Zenon
  <2>2. \A s \in Spaces : Users(hold, s) = {}
    BY <1>2, HoldFacts, ThreadFacts, Zenon DEF Users
  <2> QED BY <1>3, <2>1, <2>2, Zenon DEF UseInv, Counts
<1>5. OutInv
  <2>1. outs \in Nat /\ DOMAIN <<outs>> = {1} /\ <<outs>>[1] = 0 /\ 0 # 1
    BY <1>1
  <2>2. DOMAIN outHold = Nat /\ \A k \in Nat : outHold[k] = 0
    BY <1>2, Zenon DEF outHold
  <2>3. Users(outHold, 1) = {}
    BY <2>1, <2>2, Zenon DEF Users
  <2> QED BY <1>3, <2>1, <2>3, Zenon DEF OutInv, Counts
<1> QED BY <1>1, <1>4, <1>5, Zenon DEF PoolInv

LEMMA PoolStep == PoolInv /\ [Next]_vars => PoolInv'
<1> SUFFICES ASSUME PoolInv, [Next]_vars PROVE PoolInv'
  BY Zenon
<1>1. /\ ControlInv /\ LocksInv /\ PushInv /\ HaveInv /\ MadeInv /\ Content
      /\ UseInv /\ OutInv
  BY Zenon DEF PoolInv
<1>2. ControlInv'
  BY <1>1, ControlStep, Zenon
<1>3. CASE Next
  <2>1. InUse
    BY <1>1, UseCounts, Zenon
  <2>2. LocksInv' /\ PushInv' /\ HaveInv'
    BY <1>1, <1>3, <2>1, LocksStep, HaveStep, Zenon
  <2>3. MadeInv' /\ Content'
    BY <1>1, <1>3, <2>1, MadeStep, ContentStep, Zenon
  <2>4. UseInv' /\ OutInv'
    BY <1>1, <1>3, UseStep, OutStep, Zenon
  <2> QED BY <1>2, <2>2, <2>3, <2>4, Zenon DEF PoolInv
<1>4. CASE UNCHANGED vars
  <2>1. /\ LocksInv' /\ PushInv' /\ HaveInv' /\ MadeInv' /\ Content'
        /\ use' = use /\ outs' = outs /\ hold' = hold /\ outHold' = outHold
    BY <1>1, <1>4, SameInv, Zenon
  <2>2. UseInv' /\ OutInv'
    BY <1>1, <2>1, Zenon DEF UseInv, OutInv
  <2> QED BY <1>2, <2>1, <2>2, Zenon DEF PoolInv
<1> QED BY <1>3, <1>4, Zenon

LEMMA PoolInvariant == Spec => []PoolInv
BY PoolInit, PoolStep, PTL DEF Spec

\* Whatever the schedule of pigz's threads, the lists, the jobs, the pools' use counts and
\* the locks of parallel_compress stay within the types the code gives them; in particular
\* no use count ever falls below zero.
THEOREM TypeCorrect == Spec => []TypeOK
<1>1. PoolInv => TypeOK
  <2> SUFFICES ASSUME PoolInv PROVE TypeOK
    BY Zenon
  <2>1. Types /\ CountType
    BY Zenon DEF PoolInv, ControlInv, UseInv, OutInv, CountType
  <2> QED BY <2>1, TypeParts, Zenon
<1> QED BY <1>1, PoolInvariant, PTL

\* get_space never hands out a buffer someone still looks into, and drop_space never
\* returns one: a buffer on the list of in_pool is nobody's input, dictionary or data to be
\* checked, for any number of threads, buffers and blocks.
THEOREM FreeIsUnused == Spec => []PoolIsFree
<1>1. PoolInv => PoolIsFree
  <2> SUFFICES ASSUME PoolInv PROVE PoolIsFree
    BY Zenon
  <2>1. ControlInv /\ LocksInv /\ HaveInv /\ MadeInv /\ UseInv
    BY Zenon DEF PoolInv
  <2>2. InUse /\ LastUser
    BY <2>1, UseCounts, LastUserAlone, Zenon
  <2> QED BY <2>1, <2>2, PoolFree, Zenon
<1> QED BY <1>1, PoolInvariant, PTL

\* A job that is on a list, or in the hands of a thread, has not been freed by the write
\* thread.
THEOREM JobsStayAllocated == Spec => []JobsAreAllocated
<1>1. PoolInv => JobsAreAllocated
  BY Allocated, Zenon DEF PoolInv
<1> QED BY <1>1, PoolInvariant, PTL

\* The assertions of the code hold: drop_space never drops an unused buffer (yarn's twist),
\* the lists are empty when the write thread and finish_jobs expect that, and free_pool gets
\* back every buffer that was allocated.
THEOREM AssertionsHold == Spec => []AssertsHold
<1>1. PoolInv => AssertsHold
  <2> SUFFICES ASSUME PoolInv PROVE AssertsHold
    BY Zenon
  <2>1. ControlInv /\ HaveInv /\ UseInv /\ OutInv
    BY Zenon DEF PoolInv
  <2>2. InUse
    BY <2>1, UseCounts, Zenon
  <2>3. ASSUME mpc = "free" PROVE Len(have) = InBufs - limit /\ outs = 0
    <3>1. ~Running /\ \A t \in Compressors : cpc[t] \in {"none", "exited"}
      BY <2>1, <2>3, ControlParts, Zenon DEF MainInv, Running
    <3>2. (\A x \in Tokens : hold[x] = None) /\ \A k \in Nat : ~OutHeld(k)
      BY <2>1, <3>1, NoneHeld, Zenon
    <3>3. \A s \in Spaces : use[s] = 0
      <4>1. DOMAIN use = Spaces /\ Counts(hold, use)
        BY <2>1, Zenon DEF UseInv
      <4>2. \A s \in Spaces, x \in DOMAIN hold : hold[x] # s
        BY <3>2, HoldFacts, ThreadFacts, Zenon
      <4>3. ASSUME NEW s \in Spaces PROVE use[s] = 0
        <5>1. Users(hold, s) = {}
          BY <4>2, Zenon DEF Users
        <5>2. use[s] = Cardinality(Users(hold, s))
          BY <4>1, Zenon DEF Counts
        <5> QED BY <5>1, <5>2, FS_EmptySet, Zenon
      <4> QED BY <4>3, Zenon
    <3>4. Elems(have) = 1..(InBufs - limit) /\ have \in Seq(Spaces) /\ InBufs - limit \in Nat
      BY <2>1, <2>3, <3>3, AllBack, Zenon
    <3>5. Len(have) = InBufs - limit
      BY <2>1, <3>4, CountList, Zenon DEF HaveInv
    <3>6. outs = 0
      <4>1. DOMAIN <<outs>> = {1} /\ <<outs>>[1] = outs /\ 0 # 1
        OBVIOUS
      <4>2. DOMAIN outHold = Nat /\ \A k \in Nat : outHold[k] = 0
        BY <3>2, Zenon DEF outHold
      <4>3. \A k \in DOMAIN outHold : outHold[k] # 1
        BY <4>1, <4>2, Zenon
      <4>4. Counts(outHold, <<outs>>) /\ 1 \in DOMAIN <<outs>>
        BY <2>1, <4>1, Zenon DEF OutInv
      <4>5. <<outs>>[1] = 0
        <5>1. Users(outHold, 1) = {}
          BY <4>3, Zenon DEF Users
        <5>2. <<outs>>[1] = Cardinality(Users(outHold, 1))
          BY <4>4, Zenon DEF Counts
        <5> QED BY <5>1, <5>2, FS_EmptySet, Zenon
      <4> QED BY <4>1, <4>5, Zenon
    <3> QED BY <3>5, <3>6, Zenon
  <2> QED BY <2>1, <2>2, <2>3, Asserts, Zenon
<1> QED BY <1>1, PoolInvariant, PTL

\* However the threads interleave, pigz's output is the sequential one: the blocks of each
\* stream in order, each compressed with the block before it as its dictionary, and the
\* check values of the same blocks combined in the same order.
THEOREM ImplementsSequential == Spec => CompressesInOrder
<1>1. Init => InOrder!Init
  BY Zenon DEF Init, InOrder!Init
<1>2. PoolInv /\ [Next]_vars
        => [InOrder!Begin \/ InOrder!Write \/ InOrder!Sum \/ InOrder!End]_InOrder!state
  <2> SUFFICES ASSUME PoolInv, [Next]_vars
               PROVE  \/ InOrder!Begin \/ InOrder!Write \/ InOrder!Sum \/ InOrder!End
                      \/ UNCHANGED InOrder!state
    BY Zenon
  <2>1. CASE Next
    BY <2>1, InOrderStep, Zenon DEF PoolInv
  <2>2. CASE UNCHANGED vars
    BY <2>2, Zenon DEF vars, main, result, InOrder!state
  <2> QED BY <2>1, <2>2, Zenon
<1> QED BY <1>1, <1>2, PoolInvariant, PTL DEF Spec, CompressesInOrder, InOrder!Spec
=============================================================================
