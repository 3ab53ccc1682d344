----------------------- MODULE EncoderThreads_proofs -----------------------
(***************************************************************************)
(* Proofs about EncoderThreads, for any number of workers and frames and   *)
(* any ring with room for twice the workers.                               *)
(***************************************************************************)
EXTENDS EncoderThreads, SequenceTheorems, TLAPS

-----------------------------------------------------------------------------
\* The indices of the ring of tasks are remainders.

\* Quotient and remainder.
LEMMA DivMod ==
  ASSUME NEW b \in Nat, b > 0, NEW a \in Int
  PROVE  /\ a % b \in 0 .. b - 1
         /\ (a \div b) \in Int
         /\ a = b * (a \div b) + (a % b)
<1>1. a % b \in 0 .. b - 1
  OBVIOUS
<1>2. (a \div b) \in Int
  OBVIOUS
<1>3. a = b * (a \div b) + (a % b)
  OBVIOUS
<1> QED BY <1>1, <1>2, <1>3

\* Quotient and remainder are unique.
LEMMA Unique ==
  ASSUME NEW b \in Nat, b > 0, NEW q \in Int, NEW p \in Int,
         NEW r \in 0 .. b - 1, NEW s \in 0 .. b - 1, b * q + r = b * p + s
  PROVE  q = p /\ r = s
<1>1. CASE q < p
  <2>1. q + 1 <= p
    BY <1>1
  <2>2. b * (q + 1) <= b * p
    BY <2>1
  <2> QED BY <2>2
<1>2. CASE p < q
  <2>1. p + 1 <= q
    BY <1>2
  <2>2. b * (p + 1) <= b * q
    BY <2>1
  <2> QED BY <2>2
<1>3. CASE p = q
  BY <1>3
<1> QED BY <1>1, <1>2, <1>3

\* What a remainder is known by.
LEMMA ModUnique ==
  ASSUME NEW b \in Nat, b > 0, NEW a \in Int, NEW q \in Int,
         NEW r \in 0 .. b - 1, a = b * q + r
  PROVE  a % b = r
<1>1. /\ a % b \in 0 .. b - 1 /\ (a \div b) \in Int
      /\ b * (a \div b) + (a % b) = b * q + r
  BY DivMod
<1> QED
  BY <1>1, Unique

\* Numbers less than b apart with the same remainder are equal: tasks in the
\* ring at the same time have different indices (BUFFER_SIZE).
LEMMA SameSlot ==
  ASSUME NEW b \in Nat, b > 0, NEW i \in Int, NEW j \in Int,
         i % b = j % b, i - j < b, j - i < b
  PROVE  i = j
<1> DEFINE p == i \div b
           q == j \div b
           r == i % b
<1>1. /\ p \in Int /\ q \in Int /\ r \in 0 .. b - 1
      /\ i = b * p + r /\ j = b * q + r
  BY DivMod
<1> HIDE DEF p, q, r
<1>2. CASE p < q
  <2>1. b * (p + 1) <= b * q
    BY <1>1, <1>2
  <2> QED
    BY <1>1, <2>1
<1>3. CASE q < p
  <2>1. b * (q + 1) <= b * p
    BY <1>1, <1>3
  <2> QED
    BY <1>1, <2>1
<1> QED
  BY <1>1, <1>2, <1>3

\* The increment of an index (task_index, finished_task_index).
LEMMA Successor ==
  ASSUME NEW b \in Nat, b > 1, NEW i \in Int
  PROVE  ((i % b) + 1) % b = (i + 1) % b
<1> DEFINE q == i \div b
           r == i % b
<1>1. q \in Int /\ r \in 0 .. b - 1 /\ i = b * q + r
  BY DivMod
<1> HIDE DEF q, r
<1>2. CASE r + 1 < b
  <2>1. /\ r + 1 \in 0 .. b - 1 /\ i + 1 = b * q + (r + 1)
        /\ r + 1 = b * 0 + (r + 1)
    BY <1>1, <1>2
  <2>2. (i + 1) % b = r + 1
    BY <1>1, <2>1, ModUnique
  <2>3. (r + 1) % b = r + 1
    BY <1>1, <2>1, ModUnique
  <2> QED
    BY <2>2, <2>3 DEF r
<1>3. CASE r + 1 = b
  <2>1. i + 1 = b * (q + 1) + 0 /\ r + 1 = b * 1 + 0
    BY <1>1, <1>3
  <2>2. (i + 1) % b = 0
    BY <1>1, <2>1, ModUnique
  <2>3. (r + 1) % b = 0
    BY <1>1, <2>1, ModUnique
  <2> QED
    BY <2>2, <2>3 DEF r
<1> QED
  BY <1>1, <1>2, <1>3

\* The distance of two indices of the ring (the test for pending tasks in
\* ff_thread_video_encode_frame).
LEMMA Distance ==
  ASSUME NEW b \in Nat, b > 0, NEW i \in Int, NEW j \in Int, i <= j, j - i < b
  PROVE  ((j % b) - (i % b)) % b = j - i
<1> DEFINE p == i \div b
           q == j \div b
<1>1. /\ p \in Int /\ q \in Int /\ i % b \in Int /\ j % b \in Int
      /\ i = b * p + (i % b) /\ j = b * q + (j % b)
  BY DivMod
<1> HIDE DEF p, q
<1> DEFINE d == (j % b) - (i % b)
<1>2. /\ d \in Int /\ p - q \in Int /\ j - i \in 0 .. b - 1
      /\ d = b * (p - q) + (j - i)
  BY <1>1
<1> HIDE DEF d
<1>3. d % b = j - i
  BY <1>2, ModUnique
<1> QED
  BY <1>3 DEF d

----------------------------------------------------------------------------
(* The inductive invariant: where the tasks of the frames                   *)
(* received + 1 .. sent are, and what the indices count.                    *)

Slot(k) == (k - 1) % BufferSize
TaskOf(k) == [index |-> Slot(k), indata |-> k]

\* The last frame whose task a worker has read.
Last == sent - Len(task_fifo)
InCall == caller \in {"submitted", "collecting", "sleeping"}

\* The caller bounds what is pending before it hands in another frame.
Bounds ==
  /\ received <= Last
  /\ sent - received <= ThreadCount + 1
  /\ ~InCall => sent - received <= ThreadCount

Positions ==
  /\ task_index = sent % BufferSize
  /\ finished_task_index = received % BufferSize

FifoOrdered ==
  \A i \in 1 .. Len(task_fifo) : task_fifo[i] = TaskOf(Last + i)

Encoding ==
  \A w \in Workers : worker[w] = "encoding" =>
    /\ task[w].indata \in received + 1 .. Last
    /\ task[w] = TaskOf(task[w].indata)
    /\ finished_tasks[task[w].index] = None

OneEach ==
  \A v, w \in Workers :
    (/\ worker[v] = "encoding" /\ worker[w] = "encoding"
     /\ task[v].indata = task[w].indata) => v = w

Ring ==
  \A s \in Slots : finished_tasks[s] # None =>
    finished_tasks[s] \in received + 1 .. Last /\ s = Slot(finished_tasks[s])

Places == Positions /\ FifoOrdered /\ Encoding /\ OneEach /\ Ring

IInv == TypeOK /\ Bounds /\ Places

USE ThreadsAssumption

----------------------------------------------------------------------------
(* The ring *)

\* A frame number is in its slot; two frames that are pending at the same time
\* have different slots.
LEMMA SlotType ==
  ASSUME NEW k \in Int
  PROVE  Slot(k) \in Slots
BY DivMod DEF Slot, Slots

LEMMA SlotsDiffer ==
  ASSUME NEW r \in Nat, NEW j \in r + 1 .. r + ThreadCount + 1,
         NEW k \in r + 1 .. r + ThreadCount + 1, Slot(j) = Slot(k)
  PROVE  j = k
<1>1. (j - 1) - (k - 1) < BufferSize /\ (k - 1) - (j - 1) < BufferSize
  OBVIOUS
<1>2. j - 1 = k - 1
  BY <1>1, SameSlot DEF Slot
<1> QED
  BY <1>2

\* The slot where the caller looks is that of the next frame.
LEMMA NextSlot ==
  ASSUME NEW r \in Nat
  PROVE  r % BufferSize = Slot(r + 1)
BY DEF Slot

LEMMA FollowingSlot ==
  ASSUME NEW r \in Nat
  PROVE  Following(r % BufferSize) = (r + 1) % BufferSize
<1>1. BufferSize \in Nat /\ BufferSize > 1 /\ r \in Int
  OBVIOUS
<1>2. ((r % BufferSize) + 1) % BufferSize = (r + 1) % BufferSize
  BY <1>1, Successor, Zenon
<1> QED
  BY <1>2 DEF Following

\* What IInv says of the numbers.
LEMMA Numbers ==
  ASSUME IInv
  PROVE  /\ received \in Nat /\ sent \in Nat /\ Len(task_fifo) \in Nat
         /\ Last \in Nat /\ received <= Last /\ Last <= sent
         /\ sent <= received + ThreadCount + 1 /\ sent <= MaxFrames
<1>1. Len(task_fifo) \in Nat
  BY DEF IInv, TypeOK
<1> QED
  BY <1>1 DEF IInv, TypeOK, Bounds, Last, Frames

----------------------------------------------------------------------------
(* Preservation *)

\* Steps that move no task: they start no encoding, and the caller is outside
\* a call only if not too many frames are pending.
LEMMA ControlStep ==
  ASSUME IInv, TypeOK', UNCHANGED <<queues, sent, received>>,
         \A w \in Workers : worker'[w] = "encoding" =>
           worker[w] = "encoding" /\ task'[w] = task[w],
         ~InCall' => ~InCall \/ sent - received <= ThreadCount
  PROVE  IInv'
<1> USE DEF IInv, queues
<1>1. Last' = Last
  BY DEF Last
<1>2. Bounds'
  BY <1>1 DEF Bounds
<1>3. Places'
  BY <1>1 DEF Places, Positions, FifoOrdered, Encoding, OneEach, Ring, TaskOf,
              Slot
<1> QED
  BY <1>2, <1>3

\* CreateWorker, CreateFails, Drain, Close, CollectWaits, Free.
LEMMA CallerControl ==
  ASSUME IInv,
         CreateWorker \/ CreateFails \/ Drain \/ Close \/ CollectWaits \/ Free
  PROVE  IInv'
<1> USE DEF IInv, TypeOK, queues
<1>1. CASE CreateWorker
  <2>1. started + 1 \in Workers
    BY <1>1 DEF CreateWorker, Workers
  <2>2. TypeOK'
    BY <1>1, <2>1 DEF CreateWorker
  <2> QED
    BY <1>1, <2>1, <2>2, ControlStep DEF CreateWorker, InCall
<1>2. CASE CreateFails \/ Close
  <2>1. TypeOK'
    BY <1>2 DEF CreateFails, Close, RaiseExit, AllAwake
  <2>2. \A w \in Workers : worker'[w] = "encoding" => worker[w] = "encoding"
    BY <1>2 DEF CreateFails, Close, RaiseExit, AllAwake
  <2> QED
    BY <1>2, <2>1, <2>2, ControlStep DEF CreateFails, Close, RaiseExit, InCall
<1>3. CASE Drain
  BY <1>3, ControlStep DEF Drain, InCall
<1>4. CASE CollectWaits
  BY <1>4, ControlStep DEF CollectWaits, InCall
<1>5. CASE Free
  BY <1>5, ControlStep DEF Free, InCall
<1> QED
  BY <1>1, <1>2, <1>3, <1>4, <1>5

\* Top, Leave, Sleep.
LEMMA WorkerControl ==
  ASSUME IInv, NEW w \in Workers, Top(w) \/ Leave(w) \/ Sleep(w)
  PROVE  IInv'
<1> USE DEF IInv, TypeOK, queues, Top, Leave, Sleep
<1>1. TypeOK'
  OBVIOUS
<1>2. \A v \in Workers : worker'[v] = "encoding" => worker[v] = "encoding"
  OBVIOUS
<1> QED
  BY <1>1, <1>2, ControlStep DEF InCall

\* ff_thread_video_encode_frame compares the distance of the indices, which is
\* the number of the frames that are pending.
LEMMA TestPendingStep ==
  ASSUME IInv, TestPending
  PROVE  IInv'
<1>1. Pending = sent - received
  <2>1. /\ BufferSize \in Nat /\ BufferSize > 0 /\ received \in Int
        /\ sent \in Int /\ received <= sent /\ sent - received < BufferSize
    BY Numbers
  <2>2. ((sent % BufferSize) - (received % BufferSize)) % BufferSize
          = sent - received
    BY <2>1, Distance, Zenon
  <2> QED
    BY <2>2 DEF Pending, IInv, Places, Positions
<1>2. TypeOK'
  BY DEF TestPending, IInv, TypeOK, queues
<1>3. ~InCall' => sent - received <= ThreadCount
  BY <1>1 DEF TestPending, InCall
<1> QED
  BY <1>2, <1>3, ControlStep DEF TestPending

\* A frame is handed in: its task is the last of the fifo.
LEMMA EncodeFrameStep ==
  ASSUME IInv, EncodeFrame
  PROVE  IInv'
<1> DEFINE t == [index |-> task_index, indata |-> sent + 1]
<1>0. PICK w \in Workers : SignalTask(w)
  BY DEF EncodeFrame
<1>1. worker' \in [Workers -> {"none", "top", "asking", "sleeping", "encoding",
                               "ended"}]
  BY <1>0 DEF SignalTask, IInv, TypeOK
<1>2. \A v \in Workers : worker'[v] = "encoding" => worker[v] = "encoding"
  BY <1>0 DEF SignalTask, IInv, TypeOK
<1>3. t \in Task /\ t = TaskOf(sent + 1)
  <2>1. task_index \in Slots /\ sent + 1 \in Frames
    BY Numbers DEF EncodeFrame, IInv, TypeOK, Frames
  <2>2. task_index = Slot(sent + 1)
    BY Numbers, NextSlot DEF IInv, Places, Positions
  <2> QED
    BY <2>1, <2>2 DEF Task, TaskOf
<1>4. /\ task_fifo' = Append(task_fifo, t) /\ task_fifo' \in Seq(Task)
      /\ Len(task_fifo') = Len(task_fifo) + 1
  BY <1>3 DEF EncodeFrame, IInv, TypeOK
<1> HIDE DEF t
<1>5. Last' = Last
  BY <1>4, Numbers DEF EncodeFrame, Last
<1>6. task_index' = (sent + 1) % BufferSize
  BY Numbers, FollowingSlot DEF EncodeFrame, IInv, Places, Positions
<1>7. TypeOK'
  BY <1>1, <1>4, <1>6, DivMod, Numbers DEF EncodeFrame, IInv, TypeOK, Slots
<1>8. Bounds'
  BY <1>5, Numbers DEF EncodeFrame, IInv, Bounds, InCall
<1>9. Positions'
  BY <1>6 DEF EncodeFrame, IInv, Places, Positions
<1>10. FifoOrdered'
  <2> SUFFICES ASSUME NEW i \in 1 .. Len(task_fifo) + 1
               PROVE  task_fifo'[i] = TaskOf(Last + i)
    BY <1>4, <1>5 DEF FifoOrdered, TaskOf, Slot
  <2>1. CASE i = Len(task_fifo) + 1
    <3>1. Last + i = sent + 1
      BY <2>1, Numbers DEF Last
    <3> QED
      BY <2>1, <3>1, <1>3, <1>4 DEF IInv, TypeOK
  <2>2. CASE i \in 1 .. Len(task_fifo)
    BY <2>2, <1>4 DEF IInv, TypeOK, Places, FifoOrdered
  <2> QED
    BY <2>1, <2>2, Numbers
<1>11. Encoding' /\ OneEach' /\ Ring'
  BY <1>2, <1>5 DEF EncodeFrame, IInv, Places, Encoding, OneEach, Ring, TaskOf,
                    Slot
<1> QED
  BY <1>7, <1>8, <1>9, <1>10, <1>11 DEF IInv, Places

\* The packet the caller finds where it looks is that of the next frame.
LEMMA NextPacket ==
  ASSUME IInv, finished_tasks[finished_task_index] # None
  PROVE  /\ finished_tasks[finished_task_index] = received + 1
         /\ received + 1 <= Last
<1> DEFINE k == finished_tasks[finished_task_index]
<1>1. /\ k \in received + 1 .. Last
      /\ finished_task_index = Slot(k)
  BY DEF IInv, TypeOK, Places, Ring
<1>2. Slot(received + 1) = Slot(k)
  BY <1>1, NextSlot, Numbers DEF IInv, Places, Positions
<1> HIDE DEF k
<1>3. k = received + 1
  BY <1>1, <1>2, Numbers, SlotsDiffer
<1> QED
  BY <1>1, <1>3, Numbers DEF k

LEMMA CollectReadyStep ==
  ASSUME IInv, CollectReady
  PROVE  IInv'
<1>1. received' = received + 1 /\ received + 1 <= Last
  BY NextPacket DEF CollectReady
<1>2. finished_task_index' = (received + 1) % BufferSize
  BY Numbers, FollowingSlot DEF CollectReady, IInv, Places, Positions
<1>3. Last' = Last
  BY DEF CollectReady, Last
<1>4. \A s \in Slots : finished_tasks'[s] # None =>
        finished_tasks'[s] = finished_tasks[s] /\ s # Slot(received + 1)
  BY Numbers, NextSlot DEF CollectReady, IInv, TypeOK, Places, Positions
<1>5. TypeOK'
  BY <1>1, <1>2, DivMod, Numbers DEF CollectReady, IInv, TypeOK, Slots, Frames
<1>6. Bounds'
  BY <1>1, <1>3, Numbers DEF CollectReady, IInv, Bounds, InCall
<1>7. Positions'
  BY <1>1, <1>2 DEF CollectReady, IInv, Places, Positions
<1>8. FifoOrdered' /\ OneEach'
  BY <1>3 DEF CollectReady, IInv, Places, FifoOrdered, OneEach, TaskOf, Slot
<1>9. Ring'
  BY <1>1, <1>3, <1>4, Numbers DEF IInv, Places, Ring, Slot
<1>10. Encoding'
  <2> SUFFICES ASSUME NEW w \in Workers, worker[w] = "encoding"
               PROVE  /\ task[w].indata \in received + 2 .. Last
                      /\ task[w] = TaskOf(task[w].indata)
                      /\ finished_tasks'[task[w].index] = None
    BY <1>1, <1>3, Numbers DEF CollectReady, Encoding, TaskOf, Slot
  <2>1. /\ task[w].indata \in received + 1 .. Last
        /\ task[w] = TaskOf(task[w].indata)
        /\ finished_tasks[task[w].index] = None
    BY DEF IInv, Places, Encoding
  <2>2. task[w].index = Slot(task[w].indata)
    BY <2>1 DEF TaskOf
  <2>3. task[w].index # finished_task_index
    BY <2>1 DEF CollectReady
  <2>4. task[w].indata # received + 1
    BY <2>2, <2>3, Numbers, NextSlot DEF IInv, Places, Positions
  <2>5. finished_tasks'[task[w].index] = None
    BY <2>1, <2>2, <2>3, SlotType, Numbers DEF CollectReady, IInv, TypeOK
  <2> QED
    BY <2>1, <2>4, <2>5, Numbers
<1> QED
  BY <1>5, <1>6, <1>7, <1>8, <1>9, <1>10 DEF IInv, Places

\* A worker reads the oldest task, whose slot is empty.
LEMMA ReadTaskStep ==
  ASSUME IInv, NEW w \in Workers, ReadTask(w)
  PROVE  IInv'
<1>1. /\ Head(task_fifo) \in Task /\ Tail(task_fifo) \in Seq(Task)
      /\ Len(task_fifo') = Len(task_fifo) - 1 /\ Len(task_fifo) > 0
      /\ Head(task_fifo) = task_fifo[1]
      /\ \A i \in 1 .. Len(task_fifo) - 1 : task_fifo'[i] = task_fifo[i + 1]
  BY DEF ReadTask, IInv, TypeOK
<1>2. Last' = Last + 1 /\ Last + 1 <= sent
  BY <1>1, Numbers DEF ReadTask, Last
<1>3. Head(task_fifo) = TaskOf(Last + 1)
  BY <1>1, Numbers DEF IInv, Places, FifoOrdered
<1>4. /\ task'[w] = TaskOf(Last + 1)
      /\ \A v \in Workers \ {w} : worker'[v] = worker[v] /\ task'[v] = task[v]
  BY <1>3 DEF ReadTask, IInv, TypeOK
<1>5. finished_tasks[Slot(Last + 1)] = None
  <2> SUFFICES ASSUME finished_tasks[Slot(Last + 1)] # None
               PROVE  FALSE
    OBVIOUS
  <2> DEFINE k == finished_tasks[Slot(Last + 1)]
  <2>1. k \in received + 1 .. Last /\ Slot(Last + 1) = Slot(k)
    BY SlotType, Numbers DEF IInv, Places, Ring
  <2> HIDE DEF k
  <2>2. k = Last + 1
    BY <2>1, <1>2, Numbers, SlotsDiffer
  <2> QED
    BY <2>1, <2>2, Numbers
<1>6. TypeOK'
  BY <1>1 DEF ReadTask, IInv, TypeOK
<1>7. Bounds'
  BY <1>2, Numbers DEF ReadTask, IInv, Bounds, InCall
<1>8. Positions'
  BY DEF ReadTask, IInv, Places, Positions
<1>9. FifoOrdered'
  <2> SUFFICES ASSUME NEW i \in 1 .. Len(task_fifo) - 1
               PROVE  task_fifo[i + 1] = TaskOf((Last + 1) + i)
    BY <1>1, <1>2, Numbers DEF FifoOrdered, TaskOf, Slot
  <2>1. i + 1 \in 1 .. Len(task_fifo) /\ Last + (i + 1) = (Last + 1) + i
    BY Numbers
  <2>2. task_fifo[i + 1] = TaskOf(Last + (i + 1))
    BY <2>1 DEF IInv, Places, FifoOrdered
  <2> QED
    BY <2>1, <2>2
<1>10. Encoding'
  <2> SUFFICES ASSUME NEW v \in Workers, worker'[v] = "encoding"
               PROVE  /\ task'[v].indata \in received + 1 .. Last + 1
                      /\ task'[v] = TaskOf(task'[v].indata)
                      /\ finished_tasks[task'[v].index] = None
    BY <1>2, Numbers DEF ReadTask, Encoding, TaskOf, Slot
  <2>1. CASE v = w
    BY <2>1, <1>4, <1>5, Numbers DEF TaskOf
  <2>2. CASE v # w
    BY <2>2, <1>4, Numbers DEF IInv, Places, Encoding
  <2> QED
    BY <2>1, <2>2
<1>11. OneEach'
  <2>1. task'[w].indata = Last + 1
    BY <1>4 DEF TaskOf
  <2>2. \A v \in Workers \ {w} : worker[v] = "encoding" =>
          task[v].indata # Last + 1
    BY Numbers DEF IInv, Places, Encoding
  <2> QED
    BY <2>1, <2>2, <1>4 DEF IInv, Places, OneEach
<1>12. Ring'
  BY <1>2, Numbers DEF ReadTask, IInv, Places, Ring, Slot
<1> QED
  BY <1>6, <1>7, <1>8, <1>9, <1>10, <1>11, <1>12 DEF IInv, Places

\* A packet is stored in the slot of its frame, which no other frame has.
LEMMA StoreStep ==
  ASSUME IInv, NEW w \in Workers, Store(w)
  PROVE  IInv'
<1> DEFINE k == task[w].indata
<1>1. /\ k \in received + 1 .. Last /\ task[w] = TaskOf(k)
      /\ task[w].index = Slot(k) /\ Slot(k) \in Slots /\ k \in Frames
  <2>1. k \in received + 1 .. Last /\ task[w] = TaskOf(k)
    BY DEF Store, IInv, Places, Encoding
  <2> QED
    BY <2>1, Numbers, SlotType DEF TaskOf, Frames
<1> HIDE DEF k
<1>2. /\ finished_tasks' = [finished_tasks EXCEPT ![Slot(k)] = k]
      /\ worker' = [worker EXCEPT ![w] = "top"]
      /\ UNCHANGED <<task_fifo, task_index, finished_task_index, sent,
                     received>>
      /\ caller' = CallerAwake
  BY <1>1 DEF Store, k
<1>3. \A v \in Workers : worker'[v] = "encoding" =>
        v # w /\ worker[v] = "encoding" /\ task'[v] = task[v]
  BY <1>2 DEF Store, IInv, TypeOK
<1>4. Last' = Last
  BY <1>2 DEF Last
<1>5. TypeOK'
  BY <1>1, <1>2 DEF Store, CallerAwake, IInv, TypeOK
<1>6. Bounds' /\ Positions' /\ FifoOrdered'
  BY <1>2, <1>4 DEF CallerAwake, IInv, Places, Bounds, InCall, Positions,
                    FifoOrdered, TaskOf, Slot
<1>7. Encoding'
  <2> SUFFICES ASSUME NEW v \in Workers, worker'[v] = "encoding"
               PROVE  /\ task[v].indata \in received + 1 .. Last
                      /\ task[v] = TaskOf(task[v].indata)
                      /\ finished_tasks'[task[v].index] = None
    BY <1>2, <1>3, <1>4 DEF Encoding, TaskOf, Slot
  <2> DEFINE j == task[v].indata
  <2>1. /\ j \in received + 1 .. Last /\ task[v] = TaskOf(j)
        /\ finished_tasks[task[v].index] = None /\ j # k
    BY <1>3 DEF Store, IInv, Places, Encoding, OneEach, k
  <2>2. task[v].index = Slot(j)
    BY <2>1 DEF TaskOf
  <2> HIDE DEF j
  <2>3. Slot(j) # Slot(k)
    BY <2>1, <1>1, Numbers, SlotsDiffer
  <2>4. finished_tasks'[task[v].index] = None
    BY <2>1, <2>2, <2>3, <1>1, <1>2, SlotType, Numbers DEF IInv, TypeOK
  <2> QED
    BY <2>1, <2>4 DEF j
<1>8. OneEach'
  BY <1>3 DEF IInv, Places, OneEach
<1>9. Ring'
  BY <1>1, <1>2, <1>4 DEF IInv, TypeOK, Places, Ring, Slot
<1> QED
  BY <1>5, <1>6, <1>7, <1>8, <1>9 DEF IInv, Places

----------------------------------------------------------------------------
(* The theorems *)

LEMMA Inductive == Spec => []IInv
<1>1. Init => IInv
  <2> SUFFICES ASSUME Init
               PROVE  IInv
    OBVIOUS
  <2>1. 0 % BufferSize = 0
    BY ModUnique
  <2>2. 0 \in Slots
    BY DEF Slots
  <2>3. TypeOK
    <3>1. worker \in [Workers -> {"none", "top", "asking", "sleeping",
                                  "encoding", "ended"}]
      BY DEF Init
    <3>2. /\ task \in [Workers -> Task \cup {None}]
          /\ finished_tasks \in [Slots -> Frames \cup {None}]
      BY DEF Init
    <3>3. task_fifo \in Seq(Task)
      BY DEF Init
    <3>4. started \in 0 .. ThreadCount /\ sent \in 0 .. MaxFrames
      BY DEF Init
    <3> QED
      BY <2>2, <3>1, <3>2, <3>3, <3>4 DEF Init, TypeOK
  <2>4. Bounds
    BY DEF Init, Bounds, InCall, Last
  <2>5. Places
    BY <2>1 DEF Init, Places, Positions, FifoOrdered, Encoding, OneEach, Ring,
                Last
  <2> QED
    BY <2>3, <2>4, <2>5 DEF IInv
<1>2. IInv /\ [Next]_vars => IInv'
  <2> SUFFICES ASSUME IInv, [Next]_vars
               PROVE  IInv'
    OBVIOUS
  <2>1. CASE CreateWorker \/ CreateFails \/ Drain \/ Close \/ CollectWaits
             \/ Free
    BY <2>1, CallerControl
  <2>2. CASE EncodeFrame
    BY <2>2, EncodeFrameStep
  <2>3. CASE TestPending
    BY <2>3, TestPendingStep
  <2>4. CASE CollectReady
    BY <2>4, CollectReadyStep
  <2>5. ASSUME NEW w \in Workers, WorkerStep(w)
        PROVE  IInv'
    BY <2>5, WorkerControl, ReadTaskStep, StoreStep DEF WorkerStep
  <2>6. CASE UNCHANGED vars
    BY <2>6, ControlStep DEF vars, queues, IInv, TypeOK, InCall
  <2> QED
    BY <2>1, <2>2, <2>3, <2>4, <2>5, <2>6 DEF Next, CallReturns
<1> QED
  BY <1>1, <1>2, PTL DEF Spec

\* The variables have their types (frame_thread_encoder.c).
THEOREM TypeCorrect == Spec => []TypeOK
<1>1. IInv => TypeOK
  BY DEF IInv
<1> QED
  BY <1>1, Inductive, PTL

\* No packet is stored over another and the fifo does not overflow (worker,
\* ff_thread_video_encode_frame).
THEOREM RingHasRoom == Spec => []RoomForTasks
<1>1. ASSUME IInv
      PROVE  RoomForTasks
  <2>1. Len(task_fifo) <= BufferSize
    BY <1>1, Numbers DEF Last
  <2> QED
    BY <1>1, <2>1 DEF IInv, Places, Encoding, RoomForTasks
<1> QED
  BY <1>1, Inductive, PTL

\* The frames that are due from r to s, and what becomes of them when one is
\* handed in or its packet received.
Due(r, s) == [i \in 1 .. s - r |-> r + i]

LEMMA DueType ==
  ASSUME NEW r \in Nat, NEW s \in Nat, r <= s
  PROVE  Due(r, s) \in Seq(Nat) /\ Len(Due(r, s)) = s - r
BY DEF Due

LEMMA LastDue ==
  ASSUME NEW r \in Nat, NEW s \in Nat, r <= s
  PROVE  /\ Due(r, s + 1) = Append(Due(r, s), s + 1)
         /\ Len(Due(r, s)) = s - r
BY DEF Due

LEMMA FirstDue ==
  ASSUME NEW r \in Nat, NEW s \in Nat, r < s
  PROVE  /\ Due(r, s) # <<>>
         /\ Head(Due(r, s)) = r + 1
         /\ Tail(Due(r, s)) = Due(r + 1, s)
<1> DEFINE d == Due(r, s)
           e == Due(r + 1, s)
<1>1. d \in Seq(Nat) /\ Len(d) = s - r /\ e \in Seq(Nat) /\ Len(e) = s - r - 1
  <2>1. r + 1 \in Nat /\ r <= s /\ r + 1 <= s /\ s - (r + 1) = s - r - 1
    OBVIOUS
  <2>2. d \in Seq(Nat) /\ Len(d) = s - r
    BY <2>1, DueType, Zenon
  <2>3. e \in Seq(Nat) /\ Len(e) = s - (r + 1)
    BY <2>1, DueType, Zenon
  <2> QED
    BY <2>1, <2>2, <2>3
<1>2. /\ \A i \in 1 .. s - r : d[i] = r + i
      /\ \A i \in 1 .. s - r - 1 : e[i] = r + 1 + i
  BY DEF Due
<1> HIDE DEF d, e
<1>3. d # <<>> /\ Head(d) = d[1]
  BY <1>1
<1>4. /\ Tail(d) \in Seq(Nat) /\ Len(Tail(d)) = Len(d) - 1
      /\ \A i \in 1 .. Len(Tail(d)) : Tail(d)[i] = d[i + 1]
  BY <1>1, <1>3, HeadTailProperties
<1>5. \A i \in 1 .. Len(Tail(d)) : Tail(d)[i] = e[i]
  BY <1>1, <1>2, <1>4
<1>6. Tail(d) = e
  BY <1>1, <1>4, <1>5, SeqEqual
<1> QED
  BY <1>1, <1>2, <1>3, <1>6 DEF d, e

\* The packets come once each, in the order of the frames, and no more than
\* one frame more than there are workers is inside: EncoderThreads implements
\* FrameService (ff_thread_video_encode_frame).
THEOREM DeliversInOrder == Spec => ImplementsService
<1>1. Init => Service!Init
  BY DEF Init, Service!Init, Inside, Frames
<1>2. IInv /\ IInv' /\ [Next]_vars => [Service!Next]_Service!vars
  <2> SUFFICES ASSUME IInv, IInv', [Next]_vars
               PROVE  [Service!Next]_Service!vars
    OBVIOUS
  <2>1. CASE EncodeFrame
    <3>0. received \in Nat /\ sent \in Nat /\ received <= sent
      BY Numbers
    <3>1. /\ Inside = Due(received, sent) /\ Inside' = Due(received, sent + 1)
          /\ received' = received /\ sent + 1 \in Frames
          /\ sent - received < ThreadCount + 1
      BY <2>1, Numbers
         DEF EncodeFrame, Inside, Due, IInv, Bounds, InCall, Frames
    <3>2. /\ Due(received, sent + 1) = Append(Due(received, sent), sent + 1)
          /\ Len(Due(received, sent)) = sent - received
      BY <3>0, LastDue, Zenon
    <3> QED
      BY <3>1, <3>2 DEF Service!Next, Service!Submit
  <2>2. CASE CollectReady
    <3>1. received' = received + 1 /\ received + 1 <= sent
      BY <2>2, NextPacket, Numbers DEF CollectReady
    <3>0. received \in Nat /\ sent \in Nat /\ received < sent
      BY <3>1, Numbers
    <3>2. Inside = Due(received, sent) /\ Inside' = Due(received + 1, sent)
      BY <2>2, <3>1 DEF CollectReady, Inside, Due
    <3>3. /\ Due(received, sent) # <<>>
          /\ Head(Due(received, sent)) = received + 1
          /\ Tail(Due(received, sent)) = Due(received + 1, sent)
      BY <3>1, <3>0, FirstDue, Zenon
    <3> QED
      BY <3>1, <3>2, <3>3 DEF Service!Next, Service!Receive
  <2>3. CASE Free
    BY <2>3 DEF Free, Inside, Service!Next, Service!Drop
  <2>4. CASE \/ CreateWorker \/ CreateFails \/ Drain \/ Close \/ TestPending
             \/ CollectWaits
    BY <2>4 DEF CreateWorker, CreateFails, Drain, Close, RaiseExit, TestPending,
                CollectWaits, Inside, Service!vars
  <2>5. ASSUME NEW w \in Workers, WorkerStep(w)
        PROVE  UNCHANGED <<Inside, received>>
    BY <2>5 DEF WorkerStep, Top, Leave, Sleep, ReadTask, Store, CallerAwake,
                Inside
  <2>6. CASE UNCHANGED vars
    BY <2>6 DEF vars, Inside, Service!vars
  <2> QED
    BY <2>1, <2>2, <2>3, <2>4, <2>5, <2>6
       DEF Next, CallReturns, Service!vars
<1> QED
  BY <1>1, <1>2, Inductive, PTL DEF Spec, ImplementsService, Service!Spec
=============================================================================
