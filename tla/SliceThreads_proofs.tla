------------------------ MODULE SliceThreads_proofs ------------------------
(***************************************************************************)
(* Proofs about SliceThreads, for any number of workers, calls, jobs and   *)
(* blocks of a row.                                                        *)
(***************************************************************************)
EXTENDS SliceThreads, FiniteSetTheorems, TLAPS

-----------------------------------------------------------------------------
\* The condition variables that the rows of a wavefront share are told apart
\* by a remainder.

\* Quotient and remainder.
LEMMA DivMod ==
  ASSUME NEW b \in Nat, b > 0, NEW a \in Int
  PROVE  /\ a % b \in 0 .. b - 1
         /\ (a \div b) \in Int
         /\ a = b * (a \div b) + (a % b)
<1>1. a % b \in 0 .. b - 1
  OBVIOUS
<1>2. (a \div b) \in Int
  OBVIOUS
<1>3. a = b * (a \div b) + (a % b)
  OBVIOUS
<1> QED BY <1>1, <1>2, <1>3

\* Numbers less than b apart with the same remainder are equal: rows that are
\* under way at the same time have different condition variables.
LEMMA SameSlot ==
  ASSUME NEW b \in Nat, b > 0, NEW i \in Int, NEW j \in Int,
         i % b = j % b, i - j < b, j - i < b
  PROVE  i = j
<1> DEFINE p == i \div b
           q == j \div b
           r == i % b
<1>1. /\ p \in Int /\ q \in Int /\ r \in 0 .. b - 1
      /\ i = b * p + r /\ j = b * q + r
  BY DivMod
<1> HIDE DEF p, q, r
<1>2. CASE p < q
  <2>1. b * (p + 1) <= b * q
    BY <1>1, <1>2
  <2> QED
    BY <1>1, <2>1
<1>3. CASE q < p
  <2>1. b * (q + 1) <= b * p
    BY <1>1, <1>3
  <2> QED
    BY <1>1, <2>1
<1> QED
  BY <1>1, <1>2, <1>3

----------------------------------------------------------------------------
(* The inductive invariant *)

Numbered == {w \in Workers : worker[w] \notin {"none", "starting"}}
RanSet == {j \in Jobs : ran[j] = 1}

\* current_job counts the workers that have a number and the jobs that ended.
Counted ==
  /\ current_job = Cardinality(Numbered) + Cardinality(RanSet)
  /\ \A w \in Numbered : self_id[w] < Cardinality(Numbered)
  /\ \A v, w \in Numbered : self_id[v] = self_id[w] => v = w

\* The first call comes when every worker has its number.
Phase ==
  /\ caller = "opening" => started < ThreadCount /\ Numbered = {}
  /\ job_count = 0 => current_execute = 0
  /\ job_count # 0 => Numbered = Workers
  /\ caller = "idle" => AllDone(current_job)
  /\ \A w \in Workers : last_execute[w] <= current_execute

\* A worker at work has a job of this call, which nobody has done: that of its
\* own number, or one it has drawn.
Taken ==
  \A w \in Workers : Busy(w) =>
    /\ our_job[w] < job_count /\ ran[our_job[w]] = 0
    /\ last_execute[w] = current_execute
    /\ IF our_job[w] < ThreadCount THEN our_job[w] = self_id[w]
                                   ELSE our_job[w] < current_job

OneEach ==
  \A v, w \in Workers :
    Busy(v) /\ Busy(w) /\ our_job[v] = our_job[w] => v = w

Ran ==
  \A j \in Jobs :
    /\ ran[j] \in {0, 1}
    /\ ran[j] = 1 =>
         j < job_count /\ (j >= ThreadCount => j < current_job)

\* The job of a worker that has not seen the call is still to be done.
Unseen ==
  \A w \in Numbered :
    last_execute[w] # current_execute /\ self_id[w] \in Jobs =>
      ran[self_id[w]] = 0

Work == Counted /\ Phase /\ Taken /\ OneEach /\ Ran /\ Unseen

RowDone == RowLength + Shift
OnRow(w) == worker[w] \in {"awaiting", "decoding", "returning"}

\* How far the rows are, by where their workers are; a row ends after those
\* above it.
RowsFit ==
  /\ \A j \in Jobs : entries[j] \in 0 .. RowLength \cup {RowDone}
  /\ \A w \in Workers :
       /\ OnRow(w) => rows
       /\ rows /\ worker[w] = "running" => entries[our_job[w]] <= RowLength
       /\ worker[w] \in {"awaiting", "decoding"} =>
            entries[our_job[w]] < RowLength
       /\ worker[w] = "decoding" => MayDecode(our_job[w])
       /\ worker[w] = "returning" => entries[our_job[w]] = RowDone
  /\ \A j \in Jobs : rows /\ ran[j] = 1 => entries[j] = RowDone
  /\ \A j \in Jobs :
       ran[j] = 0 /\ (\A w \in Workers : Busy(w) => our_job[w] # j) =>
         entries[j] = 0
  /\ \A i, j \in Jobs : i < j /\ entries[j] >= RowLength => entries[i] = RowDone

IInv == TypeOK /\ Work /\ RowsFit

USE SliceAssumption

----------------------------------------------------------------------------
(* Jobs and workers, and how many of them there are *)

LEMMA JobsType ==
  /\ Jobs \subseteq Nat
  /\ \A n \in JobCounts : 0 .. n - 1 \subseteq Jobs
  /\ \A j \in Jobs : \A i \in 0 .. j : i \in Jobs
BY DEF Jobs

LEMMA AllWorkers == IsFiniteSet(Workers) /\ Cardinality(Workers) = ThreadCount
BY FS_Interval DEF Workers

\* A set of workers that is as large as all of them.
LEMMA SomeWorkers ==
  ASSUME NEW S \in SUBSET Workers
  PROVE  /\ IsFiniteSet(S) /\ Cardinality(S) \in 0 .. ThreadCount
         /\ Cardinality(S) = ThreadCount => S = Workers
<1>1. IsFiniteSet(S) /\ Cardinality(S) <= Cardinality(Workers)
      /\ (Cardinality(Workers) = Cardinality(S) => Workers = S)
  BY AllWorkers, FS_Subset
<1>2. Cardinality(S) \in Nat
  BY <1>1, FS_CardinalityType
<1> QED
  BY <1>1, <1>2, AllWorkers

\* The same for the jobs of a call.
LEMMA SomeJobs ==
  ASSUME NEW n \in Nat, NEW S \in SUBSET (0 .. n - 1)
  PROVE  /\ IsFiniteSet(S) /\ Cardinality(S) \in 0 .. n
         /\ Cardinality(S) = n => S = 0 .. n - 1
<1>1. IsFiniteSet(0 .. n - 1) /\ Cardinality(0 .. n - 1) = n
  BY FS_Interval
<1>2. /\ IsFiniteSet(S) /\ Cardinality(S) <= Cardinality(0 .. n - 1)
      /\ (Cardinality(0 .. n - 1) = Cardinality(S) => 0 .. n - 1 = S)
  BY <1>1, FS_Subset
<1>3. Cardinality(S) \in Nat
  BY <1>2, FS_CardinalityType
<1> QED
  BY <1>1, <1>2, <1>3

\* What the invariant says of the numbers.
LEMMA Numbers ==
  ASSUME IInv
  PROVE  /\ IsFiniteSet(Numbered) /\ Cardinality(Numbered) \in 0 .. ThreadCount
         /\ Cardinality(Numbered) = ThreadCount => Numbered = Workers
         /\ RanSet \subseteq 0 .. job_count - 1 /\ IsFiniteSet(RanSet)
         /\ Cardinality(RanSet) \in 0 .. job_count
         /\ Cardinality(RanSet) = job_count => RanSet = 0 .. job_count - 1
         /\ current_job = Cardinality(Numbered) + Cardinality(RanSet)
<1>1. job_count \in Nat
  BY DEF IInv, TypeOK
<1>2. ASSUME NEW j \in RanSet
      PROVE  j \in 0 .. job_count - 1
  <2>1. j \in Jobs /\ ran[j] = 1
    BY DEF RanSet
  <2>2. j \in Nat /\ j < job_count
    BY <2>1, JobsType DEF IInv, Work, Ran
  <2> QED
    BY <1>1, <2>2
<1>3. Numbered \subseteq Workers
  BY DEF Numbered
<1> QED
  BY <1>1, <1>2, <1>3, SomeJobs, SomeWorkers DEF IInv, Work, Counted

\* Between the calls everybody has a number, every job is done, and nobody is
\* at work.
LEMMA IdleFacts ==
  ASSUME IInv, caller = "idle"
  PROVE  /\ Numbered = Workers /\ RanSet = 0 .. job_count - 1
         /\ \A w \in Workers : ~Busy(w)
         /\ current_job = ThreadCount + job_count
<1>1. current_job = ThreadCount + job_count /\ job_count \in Nat
  BY DEF IInv, TypeOK, Work, Phase, AllDone
<1>2. Cardinality(Numbered) = ThreadCount /\ Cardinality(RanSet) = job_count
  BY <1>1, Numbers
<1>3. Numbered = Workers /\ RanSet = 0 .. job_count - 1
  BY <1>2, Numbers
<1>4. ASSUME NEW w \in Workers, Busy(w)
      PROVE  FALSE
  <2>1. our_job[w] \in 0 .. job_count - 1 /\ ran[our_job[w]] = 0
    BY <1>4 DEF IInv, TypeOK, Work, Taken
  <2> QED
    BY <1>3, <2>1 DEF RanSet
<1> QED
  BY <1>1, <1>3, <1>4

\* A worker at work has a job.
LEMMA BusyJob ==
  ASSUME IInv, NEW w \in Workers, Busy(w)
  PROVE  our_job[w] \in Jobs /\ w \in Numbered /\ job_count \in JobCounts
<1>1. our_job[w] < job_count /\ our_job[w] \in Nat /\ job_count \in Nat
  BY DEF IInv, TypeOK, Work, Taken
<1>2. job_count \in JobCounts
  BY <1>1 DEF IInv, TypeOK
<1>3. w \in Numbered
  BY DEF Busy, Numbered
<1> QED
  BY <1>1, <1>2, <1>3, JobsType

----------------------------------------------------------------------------
(* Preservation: the caller *)

\* Steps that leave jobs, numbers and the workers at work alone.
LEMMA SameJobs ==
  ASSUME IInv, TypeOK', Numbered' = Numbered,
         \A w \in Workers : Busy(w)' => Busy(w) /\ worker'[w] = worker[w],
         \A w \in Workers : Busy(w) => Busy(w)',
         UNCHANGED <<self_id, our_job, last_execute, current_job, entries, ran,
                     calls>>,
         caller' = "opening" => caller = "opening" /\ started' < ThreadCount,
         caller' = "idle" => AllDone(current_job)
  PROVE  IInv'
<1> USE DEF IInv, calls
<1>1. RanSet' = RanSet
  BY DEF RanSet
<1>2. Counted' /\ Taken' /\ OneEach' /\ Ran' /\ Unseen'
  BY <1>1 DEF Work, Counted, Taken, OneEach, Ran, Unseen
<1>3. Phase'
  BY DEF Work, Phase, AllDone
<1>4. RowsFit'
  BY DEF RowsFit, OnRow, Busy, MayDecode
<1> QED
  BY <1>2, <1>3, <1>4 DEF Work

LEMMA CreateWorkerStep ==
  ASSUME IInv, CreateWorker
  PROVE  IInv'
<1>1. started + 1 \in Workers /\ started + 1 <= ThreadCount
  BY DEF CreateWorker, IInv, TypeOK, Work, Phase, Workers
<1>2. TypeOK'
  BY <1>1 DEF CreateWorker, IInv, TypeOK, calls
<1>3. Numbered = {}
  BY DEF CreateWorker, IInv, Work, Phase
<1>4. Numbered' = {}
  BY <1>3 DEF CreateWorker, IInv, TypeOK, Numbered
<1>5. \A w \in Workers : ~Busy(w) /\ ~Busy(w)'
  BY <1>3, <1>4 DEF Numbered, Busy
<1>6. caller' = "opening" => caller = "opening" /\ started' < ThreadCount
  BY <1>1 DEF CreateWorker, IInv, TypeOK
<1> QED
  BY <1>2, <1>3, <1>4, <1>5, <1>6, SameJobs DEF CreateWorker

\* A broadcast sets nobody to work.
LEMMA Awake ==
  ASSUME TypeOK, worker' = AllAwake
  PROVE  /\ worker' \in [Workers -> {"none", "starting", "looking", "sleeping",
                             "running", "awaiting", "decoding", "returning",
                             "ended"}]
         /\ Numbered' = Numbered
         /\ \A w \in Workers : Busy(w)' => Busy(w) /\ worker'[w] = worker[w]
         /\ \A w \in Workers : Busy(w) => Busy(w)'
BY DEF TypeOK, AllAwake, Numbered, Busy

LEMMA RaiseDoneStep ==
  ASSUME IInv, RaiseDone
  PROVE  IInv'
<1>1. TypeOK'
  BY Awake DEF RaiseDone, IInv, TypeOK, calls
<1> QED
  BY <1>1, Awake, SameJobs DEF RaiseDone, IInv

LEMMA UnparkStep ==
  ASSUME IInv, Unpark \/ Free
  PROVE  IInv'
<1>1. TypeOK'
  BY DEF Unpark, Free, IInv, TypeOK, calls
<1>2. UNCHANGED worker
  BY DEF Unpark, Free
<1>3. caller' = "opening" => caller = "opening" /\ started' < ThreadCount
  BY DEF Unpark, Free
<1>4. caller' = "idle" => AllDone(current_job)
  BY DEF Unpark, Free
<1> QED
  BY <1>1, <1>2, <1>3, <1>4, SameJobs DEF Unpark, Free, Numbered, Busy

LEMMA ExecuteStep ==
  ASSUME IInv, NEW n \in JobCounts, NEW wavefront \in BOOLEAN,
         Execute(n, wavefront)
  PROVE  IInv'
<1>1. /\ caller = "idle" /\ Numbered' = Workers /\ n \in Nat \ {0}
      /\ \A w \in Workers : ~Busy(w) /\ ~Busy(w)'
  BY IdleFacts, Awake DEF Execute, IInv
<1>2. TypeOK'
  BY Awake, JobsType DEF Execute, IInv, TypeOK
<1>3. RanSet' = {} /\ \A j \in Jobs : ran'[j] = 0 /\ entries'[j] = 0
  BY DEF Execute, RanSet
<1>4. Counted'
  <2>1. current_job' = ThreadCount /\ self_id' = self_id
    BY DEF Execute
  <2>2. Cardinality(Numbered') = ThreadCount /\ Cardinality(RanSet') = 0
    BY <1>1, <1>3, AllWorkers, FS_EmptySet
  <2>3. \A w \in Workers : self_id[w] < ThreadCount
    BY DEF IInv, TypeOK
  <2>4. \A v, w \in Workers : self_id[v] = self_id[w] => v = w
    BY <1>1, IdleFacts DEF IInv, Work, Counted
  <2> QED
    BY <1>1, <2>1, <2>2, <2>3, <2>4 DEF Counted
<1>5. Phase'
  BY <1>1 DEF Execute, IInv, TypeOK, Work, Phase
<1>6. Taken' /\ OneEach' /\ Ran' /\ Unseen'
  BY <1>1, <1>3 DEF Taken, OneEach, Ran, Unseen
<1>7. RowsFit'
  BY <1>1, <1>3 DEF RowsFit, OnRow, Busy
<1> QED
  BY <1>2, <1>4, <1>5, <1>6, <1>7 DEF IInv, Work

----------------------------------------------------------------------------
(* Preservation: the workers and their jobs *)

\* Whatever becomes of a worker that rests, its job is that of its number if it
\* goes to work, and then the call was new to it.
LEMMA RestOutcome ==
  ASSUME TypeOK, NEW w \in Workers, NEW id \in 0 .. ThreadCount - 1,
         NEW seen \in 0 .. MaxExecutes, Rest(w, id, seen)
  PROVE  \E where \in {"ended", "sleeping", "running"}, job \in Nat,
            last \in {seen, current_execute} :
           /\ Turn(w, where, job, last)
           /\ where # "sleeping" => last = current_execute
           /\ where = "running" =>
                job = id /\ id < job_count /\ seen # current_execute
<1>1. our_job[w] \in Nat /\ id \in Nat
  BY DEF TypeOK
<1> QED
  BY <1>1 DEF Rest

\* Worker w takes its number and finds no job: there is no call yet.
LEMMA StartStep ==
  ASSUME IInv, NEW w \in Workers, Start(w)
  PROVE  IInv'
<1>1. w \notin Numbered
  BY DEF Start, Numbered
<1>2. /\ job_count = 0 /\ current_execute = 0 /\ RanSet = {}
      /\ \A v \in Workers : ~Busy(v)
  <2>1. job_count = 0 /\ current_execute = 0
    BY <1>1 DEF IInv, Work, Phase
  <2>2. \A v \in Workers : ~Busy(v)
    BY <2>1 DEF IInv, TypeOK, Work, Taken
  <2> QED
    BY <2>1, <2>2, Numbers
<1>3. /\ current_job = Cardinality(Numbered)
      /\ current_job \in 0 .. ThreadCount - 1
      /\ Cardinality(Numbered \cup {w}) = current_job + 1
  <2>1. current_job = Cardinality(Numbered)
    BY <1>2, FS_EmptySet, Numbers
  <2>2. Cardinality(Numbered \cup {w}) = current_job + 1
    BY <1>1, <2>1, FS_AddElement, Numbers
  <2>3. current_job # ThreadCount
    BY <1>1, <2>1, Numbers
  <2> QED
    BY <2>1, <2>2, <2>3, Numbers
<1>4. PICK where \in {"ended", "sleeping"}, job \in Nat :
        Turn(w, where, job, 0)
  <2>1. Rest(w, current_job, 0)
    BY <1>2, <1>3 DEF Start, Continue
  <2> QED
    BY <1>2, <1>3, <2>1, RestOutcome DEF IInv, TypeOK
<1>5. /\ worker' = [worker EXCEPT ![w] = where]
      /\ our_job' = [our_job EXCEPT ![w] = job]
      /\ last_execute' = [last_execute EXCEPT ![w] = 0]
      /\ self_id' = [self_id EXCEPT ![w] = current_job]
      /\ current_job' = current_job + 1
      /\ UNCHANGED <<started, done, entries, ran, calls>>
  BY <1>4 DEF Start, Turn
<1>6. caller' = caller \/ (caller = "parked" /\ caller' = "woken")
  BY <1>2, <1>3 DEF Start, Continue, Signal
<1>7. caller # "opening" /\ caller # "idle"
  BY <1>1, IdleFacts DEF Start
<1>8. Numbered' = Numbered \cup {w}
  BY <1>5 DEF Numbered, IInv, TypeOK
<1>9. \A v \in Workers : ~Busy(v)'
  BY <1>2, <1>5 DEF Busy, IInv, TypeOK
<1>10. TypeOK'
  BY <1>3, <1>5, <1>6 DEF IInv, TypeOK, calls
<1>11. RanSet' = {}
  BY <1>2, <1>5 DEF RanSet
<1>12. Counted'
  <2>1. \A v \in Numbered : self_id'[v] = self_id[v] /\ self_id[v] < current_job
    BY <1>1, <1>3, <1>5 DEF Numbered, IInv, TypeOK, Work, Counted
  <2>2. self_id'[w] = current_job
    BY <1>5 DEF IInv, TypeOK
  <2>3. \A v \in Numbered : self_id[v] \in Int
    BY DEF Numbered, IInv, TypeOK
  <2>4. /\ Cardinality(Numbered') = current_job + 1 /\ Cardinality(RanSet') = 0
        /\ current_job \in Nat
    BY <1>3, <1>8, <1>11, FS_EmptySet
  <2>5. current_job' = Cardinality(Numbered') + Cardinality(RanSet')
    BY <1>5, <2>4
  <2>6. \A v \in Numbered' : self_id'[v] < Cardinality(Numbered')
    BY <1>8, <2>1, <2>2, <2>3, <2>4
  <2>7. \A u, v \in Numbered' : self_id'[u] = self_id'[v] => u = v
    BY <1>8, <2>1, <2>2, <2>3, <2>4 DEF IInv, Work, Counted
  <2> QED
    BY <2>5, <2>6, <2>7 DEF Counted
<1>13. Phase'
  BY <1>2, <1>5, <1>6, <1>7 DEF calls, IInv, TypeOK, Work, Phase
<1>14. Taken' /\ OneEach'
  BY <1>9 DEF Taken, OneEach
<1>15. Ran' /\ Unseen'
  BY <1>2, <1>5 DEF calls, IInv, TypeOK, Work, Ran, Unseen, RanSet
<1>16. RowsFit'
  BY <1>2, <1>5, <1>9 DEF calls, IInv, RowsFit, Busy, OnRow
<1> QED
  BY <1>10, <1>12, <1>13, <1>14, <1>15, <1>16 DEF IInv, Work

\* Worker w, which is not at work, goes on to rest or to the job of its number
\* that it finds in a new call.
LEMMA LookStep ==
  ASSUME IInv, NEW w \in Workers, Look(w)
  PROVE  IInv'
<1> DEFINE id == self_id[w]
<1>1. /\ w \in Numbered /\ ~Busy(w) /\ id \in 0 .. ThreadCount - 1
      /\ last_execute[w] \in 0 .. MaxExecutes
  BY DEF Look, Numbered, Busy, IInv, TypeOK
<1>2. PICK where \in {"ended", "sleeping", "running"}, job \in Nat,
           last \in {last_execute[w], current_execute} :
        /\ Turn(w, where, job, last)
        /\ where # "sleeping" => last = current_execute
        /\ where = "running" => /\ job = id /\ id < job_count
                                /\ last_execute[w] # current_execute
  BY <1>1, RestOutcome DEF Look, IInv
<1>3. /\ worker' = [worker EXCEPT ![w] = where]
      /\ our_job' = [our_job EXCEPT ![w] = job]
      /\ last_execute' = [last_execute EXCEPT ![w] = last]
      /\ UNCHANGED <<started, self_id, current_job, done, entries, ran, calls>>
  BY <1>2 DEF Look, Turn
<1>4. caller' = caller \/ (caller = "parked" /\ caller' = "woken")
  BY DEF Look, Signal
<1>5. last \in 0 .. MaxExecutes /\ last <= current_execute
  BY <1>1 DEF IInv, TypeOK, Work, Phase
<1>6. TypeOK'
  BY <1>3, <1>4, <1>5 DEF IInv, TypeOK, calls
<1>7. Numbered' = Numbered /\ RanSet' = RanSet
  BY <1>1, <1>3 DEF Numbered, RanSet, IInv, TypeOK
<1>8. \A v \in Workers \ {w} :
          /\ worker'[v] = worker[v] /\ our_job'[v] = our_job[v]
          /\ last_execute'[v] = last_execute[v]
          /\ Busy(v)' = Busy(v)
  BY <1>3 DEF Busy, IInv, TypeOK
<1>9. /\ worker'[w] = where /\ our_job'[w] = job /\ last_execute'[w] = last
      /\ Busy(w)' => where = "running"
  BY <1>3 DEF Busy, IInv, TypeOK
\* The job of its number is still to be done, and no one else has it.
<1>10. ASSUME where = "running"
       PROVE  /\ job = id /\ id < job_count /\ last = current_execute
              /\ id \in Jobs /\ ran[id] = 0
              /\ \A v \in Workers : Busy(v) => our_job[v] # id
  <2>1. job = id /\ id < job_count /\ last = current_execute
        /\ last_execute[w] # current_execute
    BY <1>2, <1>10
  <2>2. id \in Jobs
    BY <1>1, <2>1, JobsType DEF IInv, TypeOK
  <2>3. ran[id] = 0
    BY <1>1, <2>1, <2>2 DEF IInv, Work, Unseen
  <2>4. ASSUME NEW v \in Workers, Busy(v), our_job[v] = id
        PROVE  FALSE
    <3>1. our_job[v] = self_id[v] /\ v \in Numbered
      BY <1>1, <2>4, BusyJob DEF IInv, Work, Taken
    <3>2. v = w
      BY <1>1, <2>4, <3>1 DEF IInv, Work, Counted
    <3> QED
      BY <1>1, <2>4, <3>2
  <2> QED
    BY <2>1, <2>2, <2>3, <2>4
<1> HIDE DEF id
<1>11. Counted' /\ Phase'
  BY <1>3, <1>4, <1>5, <1>7, <1>8, <1>9
     DEF calls, IInv, Work, Counted, Phase, AllDone
<1>12. Ran'
  BY <1>3, <1>7 DEF calls, IInv, Work, Ran
<1>13. Unseen'
  BY <1>3, <1>7, <1>8, <1>9, <1>1, <1>2 DEF calls, IInv, Work, Unseen, Numbered
<1>14. Taken'
  <2>1. ASSUME NEW v \in Workers, v # w, Busy(v)'
        PROVE  /\ our_job[v] < job_count /\ ran[our_job[v]] = 0
               /\ last_execute[v] = current_execute
               /\ IF our_job[v] < ThreadCount THEN our_job[v] = self_id[v]
                                              ELSE our_job[v] < current_job
    BY <1>8, <2>1 DEF IInv, Work, Taken
  <2>2. ASSUME Busy(w)'
        PROVE  /\ job < job_count /\ ran[job] = 0 /\ last = current_execute
               /\ job < ThreadCount /\ job = self_id[w]
    BY <1>1, <1>9, <1>10, <2>2 DEF id
  <2> QED
    BY <1>3, <1>8, <1>9, <2>1, <2>2 DEF calls, Taken
<1>15. OneEach'
  BY <1>8, <1>9, <1>10 DEF IInv, Work, OneEach
<1>16. RowsFit'
  <2>1. where = "running" => entries[job] = 0
    BY <1>10 DEF IInv, RowsFit
  <2>2. \A j \in Jobs :
          ran'[j] = 0 /\ (\A v \in Workers : Busy(v)' => our_job'[v] # j) =>
            entries'[j] = 0
    BY <1>1, <1>3, <1>8 DEF IInv, RowsFit
  <2>3. \A v \in Workers :
          /\ OnRow(v)' => rows'
          /\ rows' /\ worker'[v] = "running" =>
               entries'[our_job'[v]] <= RowLength
          /\ worker'[v] \in {"awaiting", "decoding"} =>
               entries'[our_job'[v]] < RowLength
          /\ worker'[v] = "decoding" => MayDecode(our_job[v])
          /\ worker'[v] = "returning" => entries'[our_job'[v]] = RowDone
    BY <1>3, <1>8, <1>9, <2>1 DEF calls, IInv, RowsFit, OnRow
  <2>4. \A v \in Workers : worker'[v] = "decoding" => our_job'[v] = our_job[v]
    BY <1>8, <1>9
  <2> QED
    BY <1>3, <2>2, <2>3, <2>4 DEF calls, IInv, RowsFit, MayDecode
<1> QED
  BY <1>6, <1>11, <1>12, <1>13, <1>14, <1>15, <1>16 DEF IInv, Work

\* Worker w has done its job; the next one it draws is nobody else's.
LEMMA FinishStep ==
  ASSUME IInv, NEW w \in Workers, Finish(w)
  PROVE  IInv'
<1> DEFINE k == our_job[w]
<1>1. Busy(w)
  BY DEF Finish, Busy
<1>2. /\ w \in Numbered /\ k \in Jobs /\ job_count \in JobCounts
      /\ k < job_count /\ ran[k] = 0 /\ last_execute[w] = current_execute
      /\ Numbered = Workers /\ current_job \in Nat /\ job_count \in Nat
  BY <1>1, BusyJob DEF IInv, TypeOK, Work, Taken, Phase
<1>3. PICK where \in {"ended", "sleeping", "running"}, job \in Nat :
        /\ Turn(w, where, job, current_execute)
        /\ where = "running" => job = current_job /\ job < job_count
  <2>1. CASE current_job < job_count
    BY <1>2, <2>1 DEF Finish, Continue
  <2>2. CASE current_job >= job_count
    <3>1. Rest(w, self_id[w], current_execute)
      BY <1>2, <2>2 DEF Finish, Continue
    <3> QED
      BY <3>1, RestOutcome DEF IInv, TypeOK
  <2> QED
    BY <1>2, <2>1, <2>2
<1>4. /\ worker' = [worker EXCEPT ![w] = where]
      /\ our_job' = [our_job EXCEPT ![w] = job]
      /\ last_execute' = [last_execute EXCEPT ![w] = current_execute]
      /\ ran' = [ran EXCEPT ![k] = ran[k] + 1]
      /\ current_job' = current_job + 1
      /\ UNCHANGED <<started, self_id, done, entries, calls>>
  BY <1>3 DEF Finish, Turn
<1>5. caller' = caller \/ (caller = "parked" /\ caller' = "woken")
  BY DEF Finish, Continue, Signal
<1>6. TypeOK'
  BY <1>2, <1>4, <1>5 DEF IInv, TypeOK, calls
<1>7. caller # "idle" /\ caller # "opening"
  BY <1>1, <1>2, IdleFacts DEF IInv, Work, Phase
<1>8. Numbered' = Numbered
  BY <1>2, <1>4 DEF Numbered, IInv, TypeOK
<1>9. /\ ran'[k] = 1 /\ \A j \in Jobs \ {k} : ran'[j] = ran[j]
      /\ RanSet' = RanSet \cup {k} /\ k \notin RanSet
  BY <1>2, <1>4 DEF RanSet, IInv, TypeOK
<1>10. Cardinality(RanSet') = Cardinality(RanSet) + 1
  BY <1>9, FS_AddElement, Numbers
<1>11. \A v \in Workers \ {w} :
          /\ worker'[v] = worker[v] /\ our_job'[v] = our_job[v]
          /\ last_execute'[v] = last_execute[v]
          /\ Busy(v)' = Busy(v)
  BY <1>4 DEF Busy, IInv, TypeOK
<1>12. /\ worker'[w] = where /\ our_job'[w] = job
       /\ last_execute'[w] = current_execute
       /\ Busy(w)' => where = "running"
  BY <1>4 DEF Busy, IInv, TypeOK
<1>13. current_job >= ThreadCount
  BY <1>2, AllWorkers, Numbers
<1>14. ASSUME where = "running"
       PROVE  /\ job = current_job /\ job < job_count /\ job \in Jobs
              /\ job # k /\ ran[job] = 0
              /\ \A v \in Workers : Busy(v) => our_job[v] # job
  <2>1. job = current_job /\ job < job_count /\ job \in Jobs
    BY <1>2, <1>3, <1>14, JobsType
  <2>2. ran[job] = 0
    BY <1>2, <1>13, <2>1 DEF IInv, Work, Ran
  <2>3. \A v \in Workers : Busy(v) => our_job[v] # job
    BY <1>13, <1>2, <2>1 DEF IInv, TypeOK, Work, Taken
  <2> QED
    BY <1>1, <2>1, <2>2, <2>3
<1> HIDE DEF k
<1>15. Counted'
  BY <1>4, <1>8, <1>10, Numbers DEF IInv, Work, Counted
<1>16. Phase'
  BY <1>2, <1>4, <1>5, <1>7, <1>8, <1>11, <1>12
     DEF calls, IInv, TypeOK, Work, Phase
<1>17. Ran'
  <2> SUFFICES ASSUME NEW j \in Jobs
               PROVE  /\ ran'[j] \in {0, 1}
                      /\ ran'[j] = 1 =>
                           /\ j < job_count
                           /\ j >= ThreadCount => j < current_job + 1
    BY <1>4 DEF calls, Ran
  <2>1. CASE j = k
    BY <1>1, <1>2, <1>9, <2>1 DEF IInv, TypeOK, Work, Taken, k
  <2>2. CASE j # k
    BY <1>2, <1>9, <2>2, JobsType DEF IInv, Work, Ran
  <2> QED
    BY <2>1, <2>2
<1>18. Unseen'
  <2> SUFFICES ASSUME NEW v \in Numbered, last_execute'[v] # current_execute,
                      self_id[v] \in Jobs
               PROVE  ran'[self_id[v]] = 0
    BY <1>4, <1>8 DEF calls, Unseen
  <2>1. v # w /\ v \in Workers /\ last_execute[v] # current_execute
    BY <1>11, <1>12 DEF Numbered
  <2>2. ran[self_id[v]] = 0
    BY <2>1 DEF IInv, Work, Unseen
  <2>3. self_id[v] # k
    <3> SUFFICES ASSUME self_id[v] = k
                 PROVE  FALSE
      OBVIOUS
    <3>1. k < ThreadCount
      BY <2>1 DEF IInv, TypeOK
    <3>2. self_id[w] = k
      BY <1>1, <3>1 DEF IInv, Work, Taken, k
    <3> QED
      BY <1>2, <2>1, <3>2 DEF IInv, Work, Counted
  <2> QED
    BY <1>9, <2>2, <2>3
<1>19. Taken'
  <2>1. ASSUME NEW v \in Workers, v # w, Busy(v)'
        PROVE  /\ our_job[v] < job_count /\ ran'[our_job[v]] = 0
               /\ last_execute[v] = current_execute
               /\ IF our_job[v] < ThreadCount THEN our_job[v] = self_id[v]
                                              ELSE our_job[v] < current_job + 1
    <3>1. Busy(v) /\ our_job[v] # k
      BY <1>1, <1>11, <2>1 DEF IInv, Work, OneEach, k
    <3>2. our_job[v] \in Jobs /\ our_job[v] \in Nat
      BY <3>1, BusyJob, JobsType
    <3>3. ran'[our_job[v]] = ran[our_job[v]]
      BY <1>9, <3>1, <3>2
    <3> QED
      BY <1>2, <3>1, <3>2, <3>3 DEF IInv, Work, Taken
  <2>2. ASSUME Busy(w)'
        PROVE  /\ job < job_count /\ ran'[job] = 0
               /\ ~(job < ThreadCount) /\ job < current_job + 1
    BY <1>2, <1>9, <1>12, <1>13, <1>14, <2>2
  <2> QED
    BY <1>4, <1>11, <1>12, <2>1, <2>2 DEF calls, Taken
<1>20. OneEach'
  BY <1>11, <1>12, <1>14 DEF IInv, Work, OneEach
<1>21. RowsFit'
  <2>1. where = "running" => entries[job] = 0
    BY <1>14 DEF IInv, RowsFit
  <2>2. \A j \in Jobs :
          ran'[j] = 0 /\ (\A v \in Workers : Busy(v)' => our_job'[v] # j) =>
            entries'[j] = 0
    <3> SUFFICES ASSUME NEW j \in Jobs, ran'[j] = 0,
                        \A v \in Workers : Busy(v)' => our_job'[v] # j
                 PROVE  entries[j] = 0
      BY <1>4
    <3>1. j # k /\ ran[j] = 0
      BY <1>9
    <3>2. \A v \in Workers : Busy(v) => our_job[v] # j
      BY <1>11, <3>1 DEF k
    <3> QED
      BY <3>1, <3>2 DEF IInv, RowsFit
  <2>3. \A v \in Workers :
          /\ OnRow(v)' => rows'
          /\ rows' /\ worker'[v] = "running" =>
               entries'[our_job'[v]] <= RowLength
          /\ worker'[v] \in {"awaiting", "decoding"} =>
               entries'[our_job'[v]] < RowLength
          /\ worker'[v] = "decoding" => MayDecode(our_job[v])
          /\ worker'[v] = "returning" => entries'[our_job'[v]] = RowDone
    BY <1>4, <1>11, <1>12, <2>1 DEF calls, IInv, RowsFit, OnRow
  <2>4. \A v \in Workers : worker'[v] = "decoding" => our_job'[v] = our_job[v]
    BY <1>11, <1>12
  <2>5. \A j \in Jobs : rows' /\ ran'[j] = 1 => entries'[j] = RowDone
    <3>1. rows => entries[k] = RowDone
      BY DEF Finish, IInv, RowsFit, k
    <3> QED
      BY <1>4, <1>9, <3>1 DEF calls, IInv, RowsFit
  <2> QED
    BY <1>4, <2>2, <2>3, <2>4, <2>5 DEF calls, IInv, RowsFit, MayDecode
<1> QED
  BY <1>6, <1>15, <1>16, <1>17, <1>18, <1>19, <1>20, <1>21 DEF IInv, Work

----------------------------------------------------------------------------
(* Preservation: the rows *)

\* Steps of workers that stay at work on their jobs.
LEMMA SameWork ==
  ASSUME IInv, UNCHANGED local,
         worker' \in [Workers -> {"none", "starting", "looking", "sleeping",
                                  "running", "awaiting", "decoding",
                                  "returning", "ended"}],
         \A w \in Workers : worker'[w] = worker[w] \/ (Busy(w) /\ Busy(w)')
  PROVE  /\ Work' /\ RanSet' = RanSet
         /\ \A w \in Workers : Busy(w)' = Busy(w)
<1> USE DEF local, calls
<1>1. \A w \in Workers : Busy(w)' = Busy(w)
  BY DEF Busy
<1>2. Numbered' = Numbered /\ RanSet' = RanSet
  BY DEF Numbered, RanSet, Busy
<1>3. Counted' /\ Phase' /\ Ran' /\ Unseen'
  BY <1>2 DEF IInv, Work, Counted, Phase, Ran, Unseen, AllDone
<1>4. Taken' /\ OneEach'
  BY <1>1 DEF IInv, Work, Taken, OneEach
<1> QED
  BY <1>1, <1>2, <1>3, <1>4 DEF Work

LEMMA AwaitStep ==
  ASSUME IInv, NEW w \in Workers, Await(w)
  PROVE  IInv'
<1>1. /\ worker' \in [Workers -> {"none", "starting", "looking", "sleeping",
                                  "running", "awaiting", "decoding",
                                  "returning", "ended"}]
      /\ \A v \in Workers : worker'[v] = worker[v] \/ (Busy(v) /\ Busy(v)')
  BY DEF Await, IInv, TypeOK, Busy
<1>2. Work' /\ \A v \in Workers : Busy(v)' = Busy(v)
  BY <1>1, SameWork DEF Await
<1>3. TypeOK'
  BY <1>1 DEF Await, local, calls, IInv, TypeOK
<1>4. RowsFit'
  <2>1. UNCHANGED <<entries, rows, ran, our_job>>
    BY DEF Await, local, calls
  <2>2. \A v \in Workers :
          /\ OnRow(v)' => rows
          /\ rows /\ worker'[v] = "running" => entries[our_job[v]] <= RowLength
          /\ worker'[v] \in {"awaiting", "decoding"} =>
               entries[our_job[v]] < RowLength
          /\ worker'[v] = "decoding" => MayDecode(our_job[v])
          /\ worker'[v] = "returning" => entries[our_job[v]] = RowDone
    <3> SUFFICES ASSUME NEW v \in Workers
                 PROVE  /\ OnRow(v)' => rows
                        /\ rows /\ worker'[v] = "running" =>
                             entries[our_job[v]] <= RowLength
                        /\ worker'[v] \in {"awaiting", "decoding"} =>
                             entries[our_job[v]] < RowLength
                        /\ worker'[v] = "decoding" => MayDecode(our_job[v])
                        /\ worker'[v] = "returning" =>
                             entries[our_job[v]] = RowDone
      OBVIOUS
    <3>1. CASE v = w
      BY <3>1 DEF Await, IInv, TypeOK, OnRow
    <3>2. CASE v # w
      BY <3>2 DEF Await, IInv, TypeOK, RowsFit, OnRow
    <3> QED
      BY <3>1, <3>2
  <2> QED
    BY <1>2, <2>1, <2>2 DEF IInv, RowsFit, MayDecode
<1> QED
  BY <1>2, <1>3, <1>4 DEF IInv

\* What is common to the reports of a block and of the end of a row: the entry
\* of a row at work grows, and sleepers may wake.
LEMMA ReportStep ==
  ASSUME IInv, NEW w \in Workers, NEW n \in Nat,
         NEW where \in {"running", "returning"}, rows,
         worker[w] \in {"running", "decoding"},
         Report(w, n, where),
         IF where = "running" THEN entries[our_job[w]] + n <= RowLength
                              ELSE entries[our_job[w]] + n = RowDone,
         our_job[w] # 0 /\ entries[our_job[w]] + n >= RowLength =>
           entries[our_job[w] - 1] = RowDone
  PROVE  IInv'
<1> DEFINE k == our_job[w]
<1>1. Busy(w) /\ k \in Jobs /\ k \in Nat /\ ran[k] = 0
  BY BusyJob, JobsType DEF Busy, IInv, Work, Taken
<1>2. /\ entries' = [entries EXCEPT ![k] = entries[k] + n]
      /\ UNCHANGED local
  BY DEF Report
<1>3. /\ entries'[k] = entries[k] + n /\ entries[k] + n \in Nat
      /\ \A j \in Jobs \ {k} : entries'[j] = entries[j]
      /\ \A j \in Jobs : entries'[j] >= entries[j] /\ entries[j] \in Nat
  BY <1>1, <1>2 DEF IInv, TypeOK
<1>4. /\ worker'[w] = where
      /\ \A v \in Workers \ {w} :
           \/ worker'[v] = worker[v]
           \/ worker[v] = "awaiting" /\ worker'[v] = "running"
      /\ worker' \in [Workers -> {"none", "starting", "looking", "sleeping",
                                  "running", "awaiting", "decoding",
                                  "returning", "ended"}]
  BY DEF Report, IInv, TypeOK
<1>5. Work' /\ \A v \in Workers : Busy(v)' = Busy(v)
  <2>1. \A v \in Workers : worker'[v] = worker[v] \/ (Busy(v) /\ Busy(v)')
    BY <1>4 DEF Busy
  <2> QED
    BY <1>2, <1>4, <2>1, SameWork
<1>6. entries'[k] \in 0 .. RowLength \cup {RowDone} /\ entries'[k] <= RowDone
  BY <1>3 DEF RowDone
<1>7. entries' \in [Jobs -> 0 .. RowLength + Shift]
  BY <1>1, <1>2, <1>3, <1>6 DEF IInv, TypeOK, RowDone
<1>8. TypeOK'
  BY <1>2, <1>4, <1>7 DEF local, calls, IInv, TypeOK
<1>9. \A v \in Workers \ {w} : Busy(v) =>
        our_job[v] # k /\ our_job[v] \in Jobs /\ our_job[v] \in Nat
  BY <1>1, BusyJob, JobsType DEF IInv, Work, OneEach
<1> HIDE DEF k
<1>10. \A v \in Workers :
         /\ OnRow(v)' => rows
         /\ worker'[v] = "running" => entries'[our_job[v]] <= RowLength
         /\ worker'[v] \in {"awaiting", "decoding"} =>
              entries'[our_job[v]] < RowLength
         /\ worker'[v] = "returning" => entries'[our_job[v]] = RowDone
  <2>1. /\ worker'[w] = "running" => entries'[k] <= RowLength
        /\ worker'[w] = "returning" => entries'[k] = RowDone
        /\ worker'[w] \notin {"awaiting", "decoding"}
    BY <1>3, <1>4 DEF k
  <2>2. ASSUME NEW v \in Workers \ {w}
        PROVE  /\ worker'[v] = "running" => entries'[our_job[v]] <= RowLength
               /\ worker'[v] \in {"awaiting", "decoding"} =>
                    entries'[our_job[v]] < RowLength
               /\ worker'[v] = "returning" => entries'[our_job[v]] = RowDone
    <3>1. Busy(v) => entries'[our_job[v]] = entries[our_job[v]]
                       /\ entries[our_job[v]] \in Nat
      BY <1>3, <1>9
    <3> QED
      BY <1>4, <3>1 DEF Busy, IInv, RowsFit
  <2> QED
    BY <2>1, <2>2 DEF k
<1>11. \A v \in Workers : worker'[v] = "decoding" => MayDecode(our_job[v])'
  <2> SUFFICES ASSUME NEW v \in Workers, worker'[v] = "decoding"
               PROVE  MayDecode(our_job[v])'
    OBVIOUS
  <2>1. v # w /\ worker[v] = "decoding" /\ Busy(v)
    BY <1>4 DEF Busy
  <2>2. MayDecode(our_job[v])
    BY <2>1 DEF IInv, RowsFit
  <2>3. /\ our_job'[v] = our_job[v] /\ our_job[v] \in Jobs
        /\ our_job[v] \in Nat /\ entries'[our_job[v]] = entries[our_job[v]]
    BY <1>2, <1>3, <1>9, <2>1 DEF local
  <2>4. our_job[v] # 0 => our_job[v] - 1 \in Jobs
    BY <2>3, JobsType
  <2> QED
    BY <1>3, <2>2, <2>3, <2>4 DEF MayDecode
<1>12. \A j \in Jobs : ran[j] = 1 => entries'[j] = RowDone
  BY <1>1, <1>3 DEF IInv, RowsFit, k
<1>13. \A j \in Jobs :
         ran[j] = 0 /\ (\A v \in Workers : Busy(v)' => our_job[v] # j) =>
           entries'[j] = 0
  BY <1>1, <1>3, <1>5 DEF IInv, RowsFit, k
<1>14. \A i, j \in Jobs : i < j /\ entries'[j] >= RowLength =>
         entries'[i] = RowDone
  <2> SUFFICES ASSUME NEW i \in Jobs, NEW j \in Jobs, i < j,
                      entries'[j] >= RowLength
               PROVE  entries'[i] = RowDone
    OBVIOUS
  <2>1. entries[i] = RowDone
    <3>1. CASE j # k
      BY <1>3, <3>1 DEF IInv, RowsFit
    <3>2. CASE j = k
      <4>1. /\ i \in Nat /\ k \in Nat /\ k - 1 \in Jobs /\ i <= k - 1
            /\ entries[k - 1] = RowDone
        BY <1>1, <1>3, <3>2, JobsType DEF k
      <4>2. RowDone >= RowLength
        BY DEF RowDone
      <4> QED
        BY <4>1, <4>2 DEF IInv, RowsFit
    <3> QED
      BY <3>1, <3>2
  <2>2. i # k
    <3> SUFFICES ASSUME i = k
                 PROVE  FALSE
      OBVIOUS
    <3>1. CASE worker[w] = "running"
      BY <1>1, <1>3, <2>1, <3>1 DEF IInv, RowsFit, k, RowDone
    <3>2. CASE worker[w] = "decoding"
      BY <1>1, <1>3, <2>1, <3>2 DEF IInv, RowsFit, k, RowDone
    <3> QED
      BY <3>1, <3>2
  <2> QED
    BY <1>3, <2>1, <2>2
<1>15. \A j \in Jobs : entries'[j] \in 0 .. RowLength \cup {RowDone}
  BY <1>3, <1>6 DEF IInv, RowsFit
<1>16. RowsFit'
  <2>1. UNCHANGED <<our_job, ran, rows>>
    BY <1>2 DEF local, calls
  <2> QED
    BY <1>10, <1>11, <1>12, <1>13, <1>14, <1>15, <2>1 DEF RowsFit, RowDone
<1> QED
  BY <1>5, <1>8, <1>16 DEF IInv

\* A block is decoded only when the row above is Shift blocks further on, which
\* for the last block means that it has ended.
LEMMA DecodeStep ==
  ASSUME IInv, NEW w \in Workers, Decode(w)
  PROVE  IInv'
<1> DEFINE k == our_job[w]
<1>1. /\ worker[w] = "decoding" /\ Report(w, 1, "running") /\ rows
      /\ entries[k] < RowLength /\ MayDecode(k)
  BY DEF Decode, IInv, RowsFit, OnRow
<1>2. k \in Jobs /\ k \in Nat /\ entries[k] \in Nat
  BY <1>1, BusyJob, JobsType DEF Busy, IInv, TypeOK
<1>3. entries[k] + 1 <= RowLength
  BY <1>1, <1>2
<1>4. ASSUME k # 0, entries[k] + 1 >= RowLength
      PROVE  entries[k - 1] = RowDone
  <2>1. k - 1 \in Jobs
    BY <1>2, <1>4, JobsType
  <2>2. entries[k - 1] - entries[k] >= Shift /\ entries[k - 1] \in Nat
    BY <1>1, <1>4, <2>1 DEF MayDecode, IInv, TypeOK
  <2>3. entries[k - 1] > RowLength
    BY <1>2, <1>4, <2>2
  <2> QED
    BY <2>1, <2>3 DEF IInv, RowsFit
<1> QED
  BY <1>1, <1>3, <1>4, ReportStep

LEMMA EndRowStep ==
  ASSUME IInv, NEW w \in Workers, EndRow(w)
  PROVE  IInv'
<1> DEFINE k == our_job[w]
<1>1. /\ worker[w] = "running" /\ Report(w, Shift, "returning") /\ rows
      /\ entries[k] = RowLength
  BY DEF EndRow
<1>2. k \in Jobs /\ k \in Nat
  BY <1>1, BusyJob, JobsType DEF Busy
<1>3. entries[k] + Shift = RowDone
  BY <1>1 DEF RowDone
<1>4. ASSUME k # 0
      PROVE  entries[k - 1] = RowDone
  <2>1. k - 1 \in Jobs /\ k - 1 < k
    BY <1>2, <1>4, JobsType
  <2> QED
    BY <1>1, <1>2, <2>1 DEF IInv, RowsFit
<1> QED
  BY <1>1, <1>3, <1>4, ReportStep

----------------------------------------------------------------------------
(* The theorems *)

LEMMA Inductive == Spec => []IInv
<1>1. Init => IInv
  <2> SUFFICES ASSUME Init
               PROVE  IInv
    OBVIOUS
  <2>1. Numbered = {} /\ RanSet = {} /\ \A w \in Workers : ~Busy(w) /\ ~OnRow(w)
    BY DEF Init, Numbered, RanSet, Busy, OnRow
  <2>2. TypeOK
    <3>1. /\ worker \in [Workers -> {"none", "starting", "looking", "sleeping",
                                     "running", "awaiting", "decoding",
                                     "returning", "ended"}]
          /\ self_id \in [Workers -> 0 .. ThreadCount - 1]
      BY DEF Init
    <3>2. /\ our_job \in [Workers -> Nat]
          /\ last_execute \in [Workers -> 0 .. MaxExecutes]
      BY DEF Init
    <3>3. entries \in [Jobs -> 0 .. RowLength + Shift] /\ ran \in [Jobs -> Nat]
      BY DEF Init
    <3>4. /\ caller = "opening" /\ started \in 0 .. ThreadCount
          /\ current_job \in Nat /\ job_count \in JobCounts \cup {0}
          /\ current_execute \in 0 .. MaxExecutes
          /\ done \in BOOLEAN /\ rows \in BOOLEAN
      <4>1. /\ caller = "opening" /\ started = 0 /\ current_job = 0
            /\ job_count = 0 /\ current_execute = 0
            /\ done = FALSE /\ rows = FALSE
        BY Zenon DEF Init
      <4>2. done \in BOOLEAN /\ rows \in BOOLEAN
        BY <4>1, Zenon
      <4>3. /\ 0 \in 0 .. ThreadCount /\ 0 \in Nat /\ 0 \in JobCounts \cup {0}
            /\ 0 \in 0 .. MaxExecutes
        OBVIOUS
      <4> QED
        BY <4>1, <4>2, <4>3, Zenon
    <3> QED
      BY <3>1, <3>2, <3>3, <3>4 DEF TypeOK
  <2>3. Counted /\ Phase
    BY <2>1, FS_EmptySet DEF Init, Counted, Phase
  <2>4. Taken /\ OneEach /\ Ran /\ Unseen
    BY <2>1 DEF Init, Taken, OneEach, Ran, Unseen
  <2>5. RowsFit
    BY <2>1 DEF Init, RowsFit, Busy
  <2> QED
    BY <2>2, <2>3, <2>4, <2>5 DEF IInv, Work
<1>2. IInv /\ [Next]_vars => IInv'
  <2> SUFFICES ASSUME IInv, [Next]_vars
               PROVE  IInv'
    OBVIOUS
  <2>1. CASE CreateWorker
    BY <2>1, CreateWorkerStep
  <2>2. CASE CreateFails \/ Close
    BY <2>2, RaiseDoneStep DEF CreateFails, Close
  <2>3. CASE Unpark \/ Free
    BY <2>3, UnparkStep
  <2>4. ASSUME NEW n \in JobCounts, NEW wavefront \in BOOLEAN,
               Execute(n, wavefront)
        PROVE  IInv'
    BY <2>4, ExecuteStep
  <2>5. ASSUME NEW w \in Workers, WorkerStep(w)
        PROVE  IInv'
    BY <2>5, StartStep, LookStep, FinishStep, AwaitStep, DecodeStep, EndRowStep
       DEF WorkerStep
  <2>6. CASE UNCHANGED vars
    <3>1. TypeOK' /\ Numbered' = Numbered
      BY <2>6 DEF vars, calls, IInv, TypeOK, Numbered
    <3> QED
      BY <2>6, <3>1, SameJobs DEF vars, calls, IInv, Work, Phase, Busy
  <2> QED
    BY <2>1, <2>2, <2>3, <2>4, <2>5, <2>6 DEF Next
<1> QED
  BY <1>1, <1>2, PTL DEF Spec

\* The variables have their types (pthread_slice.c).
THEOREM TypeCorrect == Spec => []TypeOK
<1>1. IInv => TypeOK
  BY DEF IInv
<1> QED
  BY <1>1, Inductive, PTL

\* When execute returns every job has run once and no worker is at work, and
\* two workers never have the same job (thread_execute, worker).
THEOREM EveryJobOnce == Spec => []JobsRunOnce
<1>1. ASSUME IInv, caller = "idle"
      PROVE  /\ \A j \in Jobs : ran[j] = IF j < job_count THEN 1 ELSE 0
             /\ \A w \in Workers : ~Busy(w)
  <2>1. RanSet = 0 .. job_count - 1 /\ \A w \in Workers : ~Busy(w)
    BY <1>1, IdleFacts
  <2>2. ASSUME NEW j \in Jobs
        PROVE  ran[j] = IF j < job_count THEN 1 ELSE 0
    <3>1. ran[j] \in {0, 1} /\ j \in Nat /\ job_count \in Nat
      BY <1>1, JobsType DEF IInv, TypeOK, Work, Ran
    <3>2. ran[j] = 1 <=> j \in 0 .. job_count - 1
      BY <2>1 DEF RanSet
    <3> QED
      BY <3>1, <3>2
  <2> QED
    BY <2>1, <2>2
<1>2. IInv => JobsRunOnce
  BY <1>1 DEF JobsRunOnce, IInv, Work, OneEach
<1> QED
  BY <1>2, Inductive, PTL

\* Of the rows that share a condition variable one waits at most, so that a
\* signal wakes the row it is for (ff_thread_await_progress2,
\* ff_thread_report_progress2).
THEOREM SignalIsEnough == Spec => []OneSleeper
<1>1. ASSUME IInv, NEW v \in Workers, NEW w \in Workers,
             worker[v] = "awaiting", worker[w] = "awaiting",
             our_job[v] < our_job[w]
      PROVE  our_job[w] - our_job[v] < ThreadCount
  <2> DEFINE i == our_job[v]
             j == our_job[w]
  <2>1. /\ i \in Jobs /\ j \in Jobs /\ i \in Nat /\ j \in Nat /\ rows
        /\ entries[i] < RowLength /\ Numbered = Workers
    <3>1. Busy(v) /\ Busy(w)
      BY <1>1 DEF Busy
    <3>2. i \in Jobs /\ j \in Jobs /\ job_count \in Nat \ {0}
      BY <1>1, <3>1, BusyJob
    <3> QED
      BY <1>1, <3>2, JobsType DEF IInv, RowsFit, OnRow, Work, Phase
  <2>2. RanSet \subseteq 0 .. i - 1
    <3> SUFFICES ASSUME NEW h \in RanSet
                 PROVE  h \in 0 .. i - 1
      OBVIOUS
    <3>1. h \in Jobs /\ h \in Nat /\ entries[h] = RowDone
      BY <1>1, <2>1, JobsType DEF IInv, RowsFit, RanSet
    <3>2. h # i /\ ~(i < h)
      BY <1>1, <2>1, <3>1 DEF IInv, RowsFit, RowDone
    <3> QED
      BY <2>1, <3>1, <3>2
  <2>3. Cardinality(RanSet) \in 0 .. i
    BY <2>1, <2>2, SomeJobs
  <2>4. current_job <= ThreadCount + i
    BY <1>1, <2>1, <2>3, AllWorkers, Numbers
  <2>5. j < ThreadCount \/ j < current_job
    BY <1>1 DEF IInv, Work, Taken, Busy
  <2> QED
    BY <1>1, <2>1, <2>3, <2>4, <2>5, Numbers
<1>2. ASSUME IInv, NEW v \in Workers, NEW w \in Workers,
             worker[v] = "awaiting", worker[w] = "awaiting",
             AwaitsOn(our_job[v]) = AwaitsOn(our_job[w])
      PROVE  v = w
  <2> DEFINE i == our_job[v]
             j == our_job[w]
  <2>1. Busy(v) /\ Busy(w) /\ i \in Nat /\ j \in Nat
    BY <1>2 DEF Busy, IInv, TypeOK
  <2>2. i - j < ThreadCount /\ j - i < ThreadCount
    BY <1>1, <1>2, <2>1
  <2>3. i % ThreadCount = j % ThreadCount
    <3>1. PICK p, q : p = i % ThreadCount /\ q = j % ThreadCount
      OBVIOUS
    <3>2. p \in 0 .. ThreadCount - 1 /\ q \in 0 .. ThreadCount - 1
      <4>1. /\ ThreadCount \in Nat /\ ThreadCount > 0
            /\ i \in Int /\ j \in Int
        BY <2>1
      <4> QED
        BY <3>1, <4>1, DivMod, Zenon
    <3>3. (IF p = 0 THEN ThreadCount - 1 ELSE p - 1)
            = (IF q = 0 THEN ThreadCount - 1 ELSE q - 1)
      BY <1>2, <3>1, Zenon DEF AwaitsOn
    <3>4. p = q
      BY <3>2, <3>3
    <3> QED
      BY <3>1, <3>4, Zenon
  <2>4. i = j
    <3>1. /\ ThreadCount \in Nat /\ ThreadCount > 0
          /\ i \in Int /\ j \in Int
      BY <2>1
    <3> QED
      BY <2>2, <2>3, <3>1, SameSlot, Zenon
  <2> QED
    BY <1>2, <2>1, <2>4 DEF IInv, Work, OneEach
<1>3. IInv => OneSleeper
  BY <1>2 DEF OneSleeper
<1> QED
  BY <1>3, Inductive, PTL
=============================================================================
