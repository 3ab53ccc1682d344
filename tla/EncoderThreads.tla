--------------------------- MODULE EncoderThreads ---------------------------
(***************************************************************************)
(* libavcodec/frame_thread_encoder.c: an intra-only encoder (PNG in this   *)
(* build) encodes several frames at once.  The thread that calls           *)
(* avcodec_encode_video2 writes tasks into a fifo; the workers store their *)
(* packets in the ring finished_tasks, under the index of the task, and    *)
(* the caller takes them out in the order of the indices.                  *)
(*                                                                         *)
(* A critical section is one step; a thread that waits on a condition      *)
(* variable is "sleeping" until it is signalled.  A packet stands for what *)
(* a worker stores for its frame, return_code and data included.           *)
(***************************************************************************)
EXTENDS Integers, Sequences, FiniteSets

CONSTANTS ThreadCount,  \* avctx->thread_count when it is more than one
          BufferSize,   \* BUFFER_SIZE, twice MAX_THREADS
          MaxFrames,    \* bound: how many frames the caller encodes
          None          \* no packet: outdata is null

ASSUME ThreadsAssumption ==
  /\ ThreadCount \in Nat /\ ThreadCount > 1
  /\ BufferSize \in Nat /\ 2 * ThreadCount <= BufferSize
  /\ MaxFrames \in Nat
  /\ None \notin 1 .. MaxFrames

Frames == 1 .. MaxFrames   \* numbered in the order of the calls
Slots == 0 .. BufferSize - 1
Workers == 1 .. ThreadCount
Task == [index : Slots, indata : Frames]

VARIABLES
  caller,     \* where the thread that uses the encoder is
  started,    \* how many workers ff_frame_thread_encoder_init has created
  worker,     \* worker[w]: where worker w is
  task,       \* task[w]: the task worker w has read
  task_fifo, finished_tasks, task_index, finished_task_index, exit,
  sent,       \* how many frames the caller has handed in
  received    \* history: the frame whose packet the caller got last, or 0

vars == <<caller, started, worker, task, task_fifo, finished_tasks, task_index,
          finished_task_index, exit, sent, received>>

TypeOK ==
  /\ caller \in {"opening", "idle", "submitted", "collecting", "sleeping",
                 "joining", "closed"}
  /\ started \in 0 .. ThreadCount
  /\ worker \in [Workers -> {"none", "top", "asking", "sleeping", "encoding",
                             "ended"}]
  /\ task \in [Workers -> Task \cup {None}]
  /\ task_fifo \in Seq(Task)
  /\ finished_tasks \in [Slots -> Frames \cup {None}]
  /\ task_index \in Slots /\ finished_task_index \in Slots
  /\ exit \in BOOLEAN
  /\ sent \in 0 .. MaxFrames
  /\ received \in Frames \cup {0}

Init ==
  /\ caller = "opening" /\ started = 0
  /\ worker = [w \in Workers |-> "none"]
  /\ task = [w \in Workers |-> None]
  /\ task_fifo = <<>> /\ finished_tasks = [i \in Slots |-> None]
  /\ task_index = 0 /\ finished_task_index = 0
  /\ exit = FALSE /\ sent = 0 /\ received = 0

queues == <<task_fifo, finished_tasks, task_index, finished_task_index>>

----------------------------------------------------------------------------
(* Condition variables. *)

\* pthread_cond_signal(&task_fifo_cond): one sleeping worker, if there is one,
\* wakes up and tests again.
SignalTask(w) ==
  IF \E v \in Workers : worker[v] = "sleeping"
    THEN worker[w] = "sleeping" /\ worker' = [worker EXCEPT ![w] = "asking"]
    ELSE worker' = worker

\* pthread_cond_broadcast(&task_fifo_cond).
AllAwake ==
  [w \in Workers |-> IF worker[w] = "sleeping" THEN "asking" ELSE worker[w]]

\* pthread_cond_signal(&finished_task_cond): only the caller waits on it.
CallerAwake == IF caller = "sleeping" THEN "collecting" ELSE caller

Following(i) == (i + 1) % BufferSize

----------------------------------------------------------------------------
(* ff_frame_thread_encoder_init *)

\* One turn of the loop: the worker runs at once.
CreateWorker ==
  /\ caller = "opening" /\ started < ThreadCount
  /\ started' = started + 1
  /\ worker' = [worker EXCEPT ![started + 1] = "top"]
  /\ caller' = IF started + 1 = ThreadCount THEN "idle" ELSE "opening"
  /\ UNCHANGED <<task, queues, exit, sent, received>>

\* ff_frame_thread_encoder_free up to the joins: exit is raised and everybody
\* who sleeps is woken.
RaiseExit ==
  /\ exit' = TRUE /\ worker' = AllAwake /\ caller' = "joining"
  /\ UNCHANGED <<started, task, queues, sent, received>>

\* A context or a thread cannot be created: the label fail, with the workers
\* there are as thread_count.
CreateFails == caller = "opening" /\ RaiseExit

----------------------------------------------------------------------------
(* ff_thread_video_encode_frame *)

\* A frame: its task is written, a worker is signalled, task_index moves on.
EncodeFrame ==
  /\ caller = "idle" /\ sent < MaxFrames
  /\ task_fifo' = Append(task_fifo, [index |-> task_index, indata |-> sent + 1])
  /\ \E w \in Workers : SignalTask(w)
  /\ task_index' = Following(task_index)
  /\ sent' = sent + 1 /\ caller' = "submitted"
  /\ UNCHANGED <<started, task, finished_tasks, finished_task_index, exit,
                 received>>

\* How many tasks have not been collected.
Pending == (task_index - finished_task_index) % BufferSize

\* Mutant of TestPending: the bound is the size of the ring.
TestPendingLate ==
  /\ caller = "submitted"
  /\ caller' = IF /\ finished_tasks[finished_task_index] = None
                  /\ Pending <= BufferSize
               THEN "idle" ELSE "collecting"
  /\ UNCHANGED <<started, worker, task, queues, exit, sent, received>>

\* The caller leaves when the oldest packet is not there and not too many
\* tasks are under way; the test of outdata takes no lock.
TestPending ==
  /\ caller = "submitted"
  /\ caller' = IF /\ finished_tasks[finished_task_index] = None
                  /\ Pending <= ThreadCount
               THEN "idle" ELSE "collecting"
  /\ UNCHANGED <<started, worker, task, queues, exit, sent, received>>

\* No frame: the end of the stream is being drained.  With nothing pending
\* the call returns without a packet.
Drain ==
  /\ caller = "idle" /\ task_index # finished_task_index
  /\ caller' = "collecting"
  /\ UNCHANGED <<started, worker, task, queues, exit, sent, received>>

\* The oldest packet is taken out, or waited for.
CollectReady ==
  /\ caller = "collecting" /\ finished_tasks[finished_task_index] # None
  /\ received' = finished_tasks[finished_task_index]
  /\ finished_tasks' = [finished_tasks EXCEPT ![finished_task_index] = None]
  /\ finished_task_index' = Following(finished_task_index)
  /\ caller' = "idle"
  /\ UNCHANGED <<started, worker, task, task_fifo, task_index, exit, sent>>

CollectWaits ==
  /\ caller = "collecting" /\ finished_tasks[finished_task_index] = None
  /\ caller' = "sleeping"
  /\ UNCHANGED <<started, worker, task, queues, exit, sent, received>>

----------------------------------------------------------------------------
(* ff_frame_thread_encoder_free, which avcodec_close calls, drained or not *)

Close == caller = "idle" /\ RaiseExit

Joined == \A w \in Workers : w <= started => worker[w] = "ended"

\* After the joins the fifo, the ring and what they still hold are gone.
Free ==
  /\ caller = "joining" /\ Joined
  /\ caller' = "closed"
  /\ UNCHANGED <<started, worker, task, queues, exit, sent, received>>

----------------------------------------------------------------------------
(* worker *)

\* while(!c->exit), read without a lock.
Top(w) ==
  /\ worker[w] = "top"
  /\ worker' = [worker EXCEPT ![w] = IF exit THEN "ended" ELSE "asking"]
  /\ UNCHANGED <<caller, started, task, queues, exit, sent, received>>

\* The section under task_fifo_mutex: exit comes before the tasks.
Leave(w) ==
  /\ worker[w] = "asking" /\ exit
  /\ worker' = [worker EXCEPT ![w] = "ended"]
  /\ UNCHANGED <<caller, started, task, queues, exit, sent, received>>

Sleep(w) ==
  /\ worker[w] = "asking" /\ ~exit /\ task_fifo = <<>>
  /\ worker' = [worker EXCEPT ![w] = "sleeping"]
  /\ UNCHANGED <<caller, started, task, queues, exit, sent, received>>

ReadTask(w) ==
  /\ worker[w] = "asking" /\ ~exit /\ task_fifo # <<>>
  /\ task' = [task EXCEPT ![w] = Head(task_fifo)]
  /\ task_fifo' = Tail(task_fifo)
  /\ worker' = [worker EXCEPT ![w] = "encoding"]
  /\ UNCHANGED <<caller, started, finished_tasks, task_index,
                 finished_task_index, exit, sent, received>>

\* Mutant of Store: the packet goes where the caller looks next.
StoreNext(w) ==
  /\ worker[w] = "encoding"
  /\ finished_tasks' = [finished_tasks EXCEPT ![finished_task_index] =
                          task[w].indata]
  /\ caller' = CallerAwake
  /\ worker' = [worker EXCEPT ![w] = "top"]
  /\ task' = [task EXCEPT ![w] = None]
  /\ UNCHANGED <<started, task_fifo, task_index, finished_task_index, exit,
                 sent, received>>

\* Mutant of Store: the caller is not signalled.
StoreSilent(w) ==
  /\ worker[w] = "encoding"
  /\ finished_tasks' = [finished_tasks EXCEPT ![task[w].index] = task[w].indata]
  /\ worker' = [worker EXCEPT ![w] = "top"]
  /\ task' = [task EXCEPT ![w] = None]
  /\ UNCHANGED <<caller, started, task_fifo, task_index, finished_task_index,
                 exit, sent, received>>

\* The frame is encoded and its packet stored under finished_task_mutex.
Store(w) ==
  /\ worker[w] = "encoding"
  /\ finished_tasks' = [finished_tasks EXCEPT ![task[w].index] = task[w].indata]
  /\ caller' = CallerAwake
  /\ worker' = [worker EXCEPT ![w] = "top"]
  /\ task' = [task EXCEPT ![w] = None]
  /\ UNCHANGED <<started, task_fifo, task_index, finished_task_index, exit,
                 sent, received>>

----------------------------------------------------------------------------
WorkerStep(w) == Top(w) \/ Leave(w) \/ Sleep(w) \/ ReadTask(w) \/ Store(w)

CallReturns == TestPending \/ CollectReady \/ CollectWaits \/ Free

Next ==
  \/ CreateWorker \/ CreateFails \/ EncodeFrame \/ Drain \/ Close
  \/ CallReturns
  \/ \E w \in Workers : WorkerStep(w)

\* Threads run; which calls the application makes, and whether, is open.
Spec ==
  /\ Init /\ [][Next]_vars
  /\ WF_vars(CallReturns)
  /\ \A w \in Workers : WF_vars(WorkerStep(w))

----------------------------------------------------------------------------
\* The ring and the fifo have room: a packet is never stored over one that was
\* not collected (nothing in worker() looks whether outdata is null), and the
\* fifo, whose capacity av_fifo_generic_write does not test, does not overflow.
RoomForTasks ==
  /\ \A w \in Workers :
       worker[w] = "encoding" => finished_tasks[task[w].index] = None
  /\ Len(task_fifo) <= BufferSize

\* The frames handed in whose packets are due, until the encoder is freed.
Inside ==
  IF caller = "closed" THEN <<>>
  ELSE [i \in 1 .. sent - received |-> received + i]

Service == INSTANCE FrameService
             WITH Frame <- Frames, Depth <- ThreadCount + 1, inside <- Inside

\* The encoder delivers every packet once and in the order of the frames,
\* whichever worker is first, and holds at most one frame more than it has
\* workers.
ImplementsService == Service!Spec

\* Calls return: no worker sleeps through its task, the caller does not sleep
\* through its packet (avcodec_encode_video2), and the joins of
\* ff_frame_thread_encoder_free end, also when tasks are left in the fifo or the
\* encoder was opened halfway.
CallsReturn ==
  /\ caller \in {"submitted", "collecting", "sleeping"} ~> caller = "idle"
  /\ caller = "joining" ~> caller = "closed"
=============================================================================
