---------------------------- MODULE SliceThreads ----------------------------
(***************************************************************************)
(* libavcodec/pthread_slice.c: AVCodecContext.execute and execute2 run the *)
(* slices of one picture on ThreadCount workers and return when all of     *)
(* them are done.  Everything is counted by current_job: it numbers the    *)
(* workers, hands out the jobs beyond the first ones, and tells that all   *)
(* are done.  Jobs may be the rows of a wavefront (hls_decode_entry_wpp    *)
(* in hevc.c), which wait for each other through the progress entries.     *)
(*                                                                         *)
(* A section under current_job_lock, or under a progress mutex, is a step. *)
(* Rows that end with an error are not modelled.                           *)
(***************************************************************************)
EXTENDS Integers, FiniteSets

CONSTANTS ThreadCount,  \* avctx->thread_count when it is more than one
          JobCounts,    \* the job_count of the calls; none of them is zero
          RowLength,    \* how many blocks (CTBs) the row of a wavefront has
          Shift,        \* SHIFT_CTB_WPP
          MaxExecutes   \* bound: how many calls there are

ASSUME SliceAssumption ==
  /\ ThreadCount \in Nat /\ ThreadCount > 1
  /\ JobCounts \subseteq Nat \ {0} /\ IsFiniteSet(JobCounts)
  /\ RowLength \in Nat \ {0} /\ Shift \in Nat \ {0, 1}  \* it is 2
  /\ MaxExecutes \in Nat

Workers == 1 .. ThreadCount
Jobs == UNION {0 .. n - 1 : n \in JobCounts}

VARIABLES
  caller,    \* where the thread that uses the codec is
  started,   \* how many workers ff_slice_thread_init has created
  worker,    \* worker[w]: where worker w is
  self_id, our_job, last_execute,   \* the variables of worker()
  current_job, job_count, current_execute, done,
  rows,      \* whether func2 decodes a row of a wavefront
  entries,   \* entries[j]: the progress of row j
  ran        \* history: ran[j] is how often job j ended in this call

calls == <<job_count, current_execute, rows>>
vars == <<caller, started, worker, self_id, our_job, last_execute, current_job,
          done, entries, ran, calls>>

TypeOK ==
  /\ caller \in {"opening", "parked", "woken", "idle", "joining", "closed"}
  /\ started \in 0 .. ThreadCount
  /\ worker \in [Workers -> {"none", "starting", "looking", "sleeping",
                             "running", "awaiting", "decoding", "returning",
                             "ended"}]
  /\ self_id \in [Workers -> 0 .. ThreadCount - 1]
  /\ our_job \in [Workers -> Nat]
  /\ last_execute \in [Workers -> 0 .. MaxExecutes]
  /\ current_job \in Nat /\ job_count \in JobCounts \cup {0}
  /\ current_execute \in 0 .. MaxExecutes
  /\ done \in BOOLEAN /\ rows \in BOOLEAN
  /\ entries \in [Jobs -> 0 .. RowLength + Shift]
  /\ ran \in [Jobs -> Nat]

Init ==
  /\ caller = "opening" /\ started = 0
  /\ worker = [w \in Workers |-> "none"]
  /\ self_id = [w \in Workers |-> 0] /\ our_job = [w \in Workers |-> 0]
  /\ last_execute = [w \in Workers |-> 0]
  /\ current_job = 0 /\ job_count = 0 /\ current_execute = 0 /\ done = FALSE
  /\ rows = FALSE
  /\ entries = [j \in Jobs |-> 0] /\ ran = [j \in Jobs |-> 0]

----------------------------------------------------------------------------
(* ff_slice_thread_init: current_job_lock is held while the workers are     *)
(* created, so that they number themselves afterwards.                      *)

\* One turn of the loop; after the last the caller parks.
CreateWorker ==
  /\ caller = "opening"
  /\ started' = started + 1
  /\ worker' = [worker EXCEPT ![started + 1] = "starting"]
  /\ caller' = IF started + 1 = ThreadCount THEN "parked" ELSE "opening"
  /\ UNCHANGED <<self_id, our_job, last_execute, current_job, done, entries,
                 ran, calls>>

\* pthread_cond_broadcast(&current_job_cond).
AllAwake ==
  [w \in Workers |-> IF worker[w] = "sleeping" THEN "looking" ELSE worker[w]]

\* ff_slice_thread_free up to the joins.
RaiseDone ==
  /\ done' = TRUE /\ worker' = AllAwake /\ caller' = "joining"
  /\ UNCHANGED <<started, self_id, our_job, last_execute, current_job, entries,
                 ran, calls>>

\* pthread_create fails: thread_count becomes the number of workers there are.
CreateFails == caller = "opening" /\ RaiseDone

----------------------------------------------------------------------------
(* thread_execute, thread_execute2 and thread_park_workers *)

AllDone(current) == current = ThreadCount + job_count

\* Mutant of Execute: the workers' own jobs are not counted.
ExecuteFromZero(n, wavefront) ==
  /\ caller = "idle" /\ current_execute < MaxExecutes
  /\ current_job' = 0
  /\ job_count' = n /\ current_execute' = current_execute + 1
  /\ rows' = wavefront
  /\ worker' = AllAwake /\ caller' = "parked"
  /\ entries' = [j \in Jobs |-> 0] /\ ran' = [j \in Jobs |-> 0]
  /\ UNCHANGED <<started, self_id, our_job, last_execute, done>>

\* A call with n jobs; hls_slice_data_wpp resets the entries before.
Execute(n, wavefront) ==
  /\ caller = "idle" /\ current_execute < MaxExecutes
  /\ current_job' = ThreadCount
  /\ job_count' = n /\ current_execute' = current_execute + 1
  /\ rows' = wavefront
  /\ worker' = AllAwake /\ caller' = "parked"
  /\ entries' = [j \in Jobs |-> 0] /\ ran' = [j \in Jobs |-> 0]
  /\ UNCHANGED <<started, self_id, our_job, last_execute, done>>

\* The caller was signalled and tests again.
Unpark ==
  /\ caller = "woken"
  /\ caller' = IF AllDone(current_job) THEN "idle" ELSE "parked"
  /\ UNCHANGED <<started, worker, self_id, our_job, last_execute, current_job,
                 done, entries, ran, calls>>

----------------------------------------------------------------------------
(* ff_slice_thread_free *)

Close == caller = "idle" /\ RaiseDone

Free ==
  /\ caller = "joining"
  /\ \A w \in Workers : w <= started => worker[w] = "ended"
  /\ caller' = "closed"
  /\ UNCHANGED <<started, worker, self_id, our_job, last_execute, current_job,
                 done, entries, ran, calls>>

----------------------------------------------------------------------------
(* worker() *)

\* Where worker w goes, with which job, and the call it has seen.
Turn(w, where, job, seen) ==
  /\ worker' = [worker EXCEPT ![w] = where]
  /\ our_job' = [our_job EXCEPT ![w] = job]
  /\ last_execute' = [last_execute EXCEPT ![w] = seen]

\* Worker w finds no job: it signals the caller when everything is done.
Signal == caller' = IF caller = "parked" /\ AllDone(current_job')
                    THEN "woken" ELSE caller

\* The inner loop: worker w sleeps until there is a call it has not seen, and
\* takes the job of its own number.
Rest(w, id, seen) ==
  \/ done /\ Turn(w, "ended", id, current_execute)
  \/ ~done /\ seen = current_execute /\ Turn(w, "sleeping", our_job[w], seen)
  \/ /\ ~done /\ seen # current_execute /\ id < job_count
     /\ Turn(w, "running", id, current_execute)
  \/ /\ ~done /\ seen # current_execute /\ id >= job_count
     /\ Turn(w, "sleeping", id, current_execute)

\* The outer loop, with the job worker w has drawn.
Continue(w, id, job, seen) ==
  \/ job < job_count /\ Turn(w, "running", job, seen) /\ UNCHANGED caller
  \/ job >= job_count /\ Signal /\ Rest(w, id, seen)

\* The worker takes its number.
Start(w) ==
  /\ worker[w] = "starting" /\ caller # "opening"
  /\ self_id' = [self_id EXCEPT ![w] = current_job]
  /\ current_job' = current_job + 1
  /\ Continue(w, current_job, job_count, 0)
  /\ UNCHANGED <<started, done, entries, ran, calls>>

\* pthread_cond_wait returns in the inner loop; the outer one signals again
\* when there is no job of the worker's number.
Look(w) ==
  /\ worker[w] = "looking"
  /\ UNCHANGED <<started, self_id, current_job, done, entries, ran, calls>>
  /\ Rest(w, self_id[w], last_execute[w])
  /\ IF worker'[w] = "sleeping" /\ last_execute'[w] # last_execute[w]
       THEN Signal ELSE UNCHANGED caller

\* The function returns and the worker takes the next number.
Finish(w) ==
  /\ \/ worker[w] = "running" /\ ~rows
     \/ worker[w] = "returning"
  /\ ran' = [ran EXCEPT ![our_job[w]] = @ + 1]
  /\ current_job' = current_job + 1
  /\ Continue(w, self_id[w], current_job, last_execute[w])
  /\ UNCHANGED <<started, self_id, done, entries, calls>>

----------------------------------------------------------------------------
(* The rows of a wavefront: ff_thread_await_progress2 before every block,   *)
(* ff_thread_report_progress2 after it and at the end of the row.           *)

local == <<started, self_id, our_job, last_execute, current_job, done, ran,
           calls, caller>>

\* The condition variable a row reports to, and the one it waits on, that of
\* the row above.
Reports(j) == j % ThreadCount

\* Mutant of AwaitsOn: all rows share one condition variable.
AwaitsOnFirst(j) == 0

\* Mutant of AwaitsOn: a row waits on its own condition variable.
AwaitsOnOwn(j) == Reports(j)

AwaitsOn(j) ==
  IF j % ThreadCount = 0 THEN ThreadCount - 1 ELSE (j % ThreadCount) - 1

MayDecode(j) == j = 0 \/ entries[j - 1] - entries[j] >= Shift

Await(w) ==
  LET j == our_job[w] IN
  /\ worker[w] = "running" /\ rows /\ entries[j] < RowLength
  /\ worker' = [worker EXCEPT ![w] =
                  IF MayDecode(j) THEN "decoding" ELSE "awaiting"]
  /\ UNCHANGED <<entries, local>>

\* Worker w reports n blocks and goes to where; one of those who wait on the
\* condition variable, if there is one, tests again.
Report(w, n, where) ==
  LET j == our_job[w]
      sleepers == {v \in Workers : /\ worker[v] = "awaiting"
                                   /\ AwaitsOn(our_job[v]) = Reports(j)}
  IN
  /\ entries' = [entries EXCEPT ![j] = @ + n]
  /\ \/ /\ sleepers = {}
        /\ worker' = [worker EXCEPT ![w] = where]
     \/ \E v \in sleepers :
          worker' = [worker EXCEPT ![w] = where, ![v] = "running"]
  /\ UNCHANGED local

Decode(w) == worker[w] = "decoding" /\ Report(w, 1, "running")

EndRow(w) ==
  /\ worker[w] = "running" /\ rows /\ entries[our_job[w]] = RowLength
  /\ Report(w, Shift, "returning")

----------------------------------------------------------------------------
WorkerStep(w) ==
  Start(w) \/ Look(w) \/ Finish(w) \/ Await(w) \/ Decode(w) \/ EndRow(w)

Next ==
  \/ CreateWorker \/ CreateFails \/ Unpark \/ Close \/ Free
  \/ \E n \in JobCounts, wavefront \in BOOLEAN : Execute(n, wavefront)
  \/ \E w \in Workers : WorkerStep(w)

\* Threads run; which calls the codec makes, and whether, is open.
Spec ==
  /\ Init /\ [][Next]_vars
  /\ WF_vars(Unpark \/ Free)
  /\ \A w \in Workers : WF_vars(WorkerStep(w))

----------------------------------------------------------------------------
Busy(w) == worker[w] \in {"running", "awaiting", "decoding", "returning"}

\* execute is a barrier: whoever returns from it finds every job run exactly
\* once and no worker at work, so that ret (possibly a variable of its frame)
\* is not written any more; and no two workers ever have the same job.
JobsRunOnce ==
  /\ caller = "idle" =>
       /\ \A j \in Jobs : ran[j] = IF j < job_count THEN 1 ELSE 0
       /\ \A w \in Workers : ~Busy(w)
  /\ \A v, w \in Workers : v # w /\ Busy(v) /\ Busy(w) => our_job[v] # our_job[w]

\* A progress condition variable has one sleeper at most, which is what makes
\* pthread_cond_signal enough for rows that share it.
OneSleeper ==
  \A v, w \in Workers :
    worker[v] = "awaiting" /\ worker[w] = "awaiting"
      /\ AwaitsOn(our_job[v]) = AwaitsOn(our_job[w]) => v = w

\* Calls return: nobody waits for a signal that was given to another, was given
\* too early, or is never given (execute, execute2), and the joins of
\* ff_slice_thread_free end, also after a failed creation.
CallsReturn ==
  /\ caller \in {"parked", "woken"} ~> caller = "idle"
  /\ caller = "joining" ~> caller = "closed"
=============================================================================
