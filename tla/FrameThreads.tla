---------------------------- MODULE FrameThreads ----------------------------
(***************************************************************************)
(* libavcodec/pthread_frame.c: the packets of a stream are decoded on      *)
(* ThreadCount threads in turn.  A thread starts when the one before it    *)
(* has parsed its headers (SETTING_UP is over); from then on they only     *)
(* wait for each other's pictures.  The caller of avcodec_decode_video2    *)
(* hands in a packet, serves get_buffer() and get_format() of the thread   *)
(* while it is setting up, and returns what the oldest thread made.        *)
(*                                                                         *)
(* Both decoders of the build with this capability, H.264 and PNG, define  *)
(* update_thread_context; the code for others is left out.  p->mutex is    *)
(* held by its worker unless that is "sleeping"; a section under a         *)
(* progress_mutex is one step.                                             *)
(***************************************************************************)
EXTENDS Integers, Sequences, FiniteSets

CONSTANTS ThreadCount,  \* avctx->thread_count when it is more than one
          Codecs,       \* the codecs and applications considered, records of
                        \*   delay: AV_CODEC_CAP_DELAY
                        \*   safe: thread_safe_callbacks, or the default ones
                        \*   fields: two packets may hold the fields of a frame
          MaxPackets,   \* bound: how many packets are handed in
          None

ASSUME FrameThreadsAssumption ==
  /\ ThreadCount \in Nat /\ ThreadCount > 1
  /\ Codecs \subseteq [delay : BOOLEAN, safe : BOOLEAN, fields : BOOLEAN]
  /\ MaxPackets \in Nat
  /\ None \notin 0 .. ThreadCount

Threads == 0 .. ThreadCount - 1
Packets == 1 .. MaxPackets   \* numbered as they are accepted

VARIABLES
  codec,          \* a member of Codecs
  caller,         \* where the thread that uses the decoder is
  draining,       \* whether its packet is empty (avpkt->size is 0)
  cursor,         \* finished in ff_thread_decode_frame, i in the loops
  next_decoding, next_finished, delaying, prev_thread, die,
  started,        \* how many threads ff_frame_thread_init has created
  worker,         \* worker[p]: where thread p is
  state,          \* PerThreadContext.state
  avpkt,          \* avpkt[p]: the packet of thread p, 0 when it had none
  got_frame,
  requested,      \* whether thread p has called get_buffer() in this decode()
  context,        \* context[p]: the last packet whose headers avctx of p knows
  owner,          \* owner[k]: the thread whose condition variable announces
                  \* the progress of packet k
  reported,       \* the packets whose picture is complete
  due,            \* history: whether the result of thread p is still due
  received        \* history: the packet whose result the caller got last, or 0

input == <<codec, draining, started>>
indices == <<next_decoding, next_finished, delaying, prev_thread>>
threads == <<worker, state, avpkt, got_frame, requested, context>>
pictures == <<owner, reported>>
vars == <<caller, cursor, die, input, indices, threads, pictures, due, received>>

TypeOK ==
  /\ codec \in Codecs
  /\ caller \in {"opening", "idle", "submitting", "copying", "copySleep",
                 "serving", "serveSleep", "submitted", "fetching",
                 "fetchSleep", "flushing", "flushSleep", "closing",
                 "closeSleep", "joining", "closed"}
  /\ draining \in BOOLEAN /\ cursor \in 0 .. ThreadCount
  /\ next_decoding \in 0 .. ThreadCount /\ next_finished \in Threads
  /\ (caller \in {"idle", "submitting", "copying", "copySleep", "serving",
                  "serveSleep"} => next_decoding \in Threads)
  /\ delaying \in BOOLEAN /\ prev_thread \in Threads \cup {None}
  /\ die \in BOOLEAN /\ started \in 0 .. ThreadCount
  /\ worker \in [Threads -> {"none", "testing", "sleeping", "decoding",
                             "requesting", "awaiting", "ended"}]
  /\ state \in [Threads -> {"INPUT_READY", "SETTING_UP", "GET_BUFFER",
                            "SETUP_FINISHED"}]
  /\ avpkt \in [Threads -> Packets \cup {0}]
  /\ got_frame \in [Threads -> BOOLEAN] /\ requested \in [Threads -> BOOLEAN]
  /\ context \in [Threads -> Packets \cup {0}]
  /\ owner \in [Packets -> Threads \cup {None}]
  /\ reported \subseteq Packets
  /\ due \in [Threads -> BOOLEAN]
  /\ received \in Packets \cup {0}

Init ==
  /\ codec \in Codecs
  /\ caller = "opening" /\ draining = FALSE /\ cursor = 0
  /\ next_decoding = 0 /\ next_finished = 0 /\ delaying = TRUE
  /\ prev_thread = None /\ die = FALSE /\ started = 0
  /\ worker = [p \in Threads |-> "none"]
  /\ state = [p \in Threads |-> "INPUT_READY"]
  /\ avpkt = [p \in Threads |-> 0]
  /\ got_frame = [p \in Threads |-> FALSE]
  /\ requested = [p \in Threads |-> FALSE]
  /\ context = [p \in Threads |-> 0]
  /\ owner = [k \in Packets |-> None] /\ reported = {}
  /\ due = [p \in Threads |-> FALSE] /\ received = 0

\* How many packets have been accepted.
Sent == CHOOSE n \in 0 .. MaxPackets :
          /\ \A p \in Threads : avpkt[p] <= n
          /\ n = 0 \/ \E p \in Threads : avpkt[p] = n

----------------------------------------------------------------------------
(* The condition variables: progress_cond of thread p is waited on by the   *)
(* caller, by thread p, and by the threads that need a picture p announces; *)
(* output_cond by the caller.                                               *)

Previous(p) == avpkt[p] - 1

WaitsOnProgress(v, p) ==
  \/ worker[v] = "requesting" /\ v = p
  \/ worker[v] = "awaiting" /\ owner[Previous(v)] = p

CallerWaitsOnProgress(p) ==
  \/ caller = "copySleep" /\ prev_thread = p
  \/ caller = "serveSleep" /\ next_decoding = p

Awake == CASE caller = "copySleep" -> "copying"
           [] caller = "serveSleep" -> "serving"
           [] caller = "fetchSleep" -> "fetching"
           [] caller = "flushSleep" -> "flushing"
           [] caller = "closeSleep" -> "closing"
           [] OTHER -> caller

\* pthread_cond_broadcast(&p->progress_cond): thread v goes where woken[v] says.
Broadcast(p, woken) ==
  /\ worker' = [v \in Threads |->
                  IF WaitsOnProgress(v, p) THEN "decoding" ELSE woken[v]]
  /\ caller' = IF CallerWaitsOnProgress(p) THEN Awake ELSE caller

\* The result of thread p is there or not yet: the caller sleeps on output_cond.
CallerWaitsOnOutput(p) ==
  caller \in {"fetchSleep", "flushSleep", "closeSleep"} /\ cursor = p

----------------------------------------------------------------------------
(* ff_frame_thread_init *)

CreateThread ==
  /\ caller = "opening"
  /\ started' = started + 1
  /\ worker' = [worker EXCEPT ![started] = "testing"]
  /\ caller' = IF started + 1 = ThreadCount THEN "idle" ELSE "opening"
  /\ UNCHANGED <<codec, draining, cursor, die, indices, state, avpkt, got_frame,
                 requested, context, pictures, due, received>>

\* An allocation, the codec's init or pthread_create fails: what there is is
\* freed.
CreateFails ==
  /\ caller = "opening" /\ caller' = "closing" /\ cursor' = 0
  /\ UNCHANGED <<die, input, indices, threads, pictures, due, received>>

----------------------------------------------------------------------------
(* ff_thread_decode_frame and submit_packet *)

\* A packet, or an empty one that asks for the frames still inside; only a
\* codec with delay is given the empty one.
DecodeFrame(empty) ==
  /\ caller = "idle" /\ ((empty /\ ~codec.delay) \/ Sent < MaxPackets)
  /\ draining' = empty
  /\ caller' = IF empty /\ ~codec.delay THEN "submitted" ELSE "submitting"
  /\ UNCHANGED <<codec, started, cursor, die, indices, threads, pictures, due,
                 received>>

\* buffer_mutex: a thread keeps it while it waits for the answer of get_buffer().
BufferMutexFree == \A q \in Threads : state[q] # "GET_BUFFER"

\* pthread_mutex_lock(&p->mutex) and release_delayed_buffers.
LockThread ==
  /\ caller = "submitting" /\ worker[next_decoding] = "sleeping"
  /\ BufferMutexFree
  /\ caller' = "copying"
  /\ UNCHANGED <<cursor, die, input, indices, threads, pictures, due, received>>

\* A sleep until the thread before is set up.
CopySleep ==
  /\ caller = "copying" /\ prev_thread # None
  /\ state[prev_thread] = "SETTING_UP"
  /\ caller' = "copySleep"
  /\ UNCHANGED <<cursor, die, input, indices, threads, pictures, due, received>>

\* Mutant of Submit: the thread before may still read its headers.
SubmitAtOnce ==
  LET p == next_decoding IN
  /\ caller = "copying"
  /\ context' = IF prev_thread = None THEN context
                ELSE [context EXCEPT ![p] = context[prev_thread]]
  /\ avpkt' = [avpkt EXCEPT ![p] = Sent + 1]
  /\ state' = [state EXCEPT ![p] = "SETTING_UP"]
  /\ worker' = [worker EXCEPT ![p] = "testing"]
  /\ due' = [due EXCEPT ![p] = TRUE]
  /\ caller' = IF codec.safe THEN "submitted" ELSE "serving"
  /\ UNCHANGED <<cursor, die, input, indices, got_frame, requested, pictures,
                 received>>

\* update_context_from_thread, the packet and the signal to the worker.
Submit ==
  LET p == next_decoding IN
  /\ caller = "copying"
  /\ prev_thread # None => state[prev_thread] # "SETTING_UP"
  /\ context' = IF prev_thread = None THEN context
                ELSE [context EXCEPT ![p] = context[prev_thread]]
  /\ avpkt' = [avpkt EXCEPT ![p] = Sent + 1]
  /\ state' = [state EXCEPT ![p] = "SETTING_UP"]
  /\ worker' = [worker EXCEPT ![p] = "testing"]
  /\ due' = [due EXCEPT ![p] = TRUE]
  /\ caller' = IF codec.safe THEN "submitted" ELSE "serving"
  /\ UNCHANGED <<cursor, die, input, indices, got_frame, requested, pictures,
                 received>>

\* update_thread_context fails: the packet is not taken.
SubmitFails ==
  /\ caller = "copying" /\ prev_thread # None
  /\ state[prev_thread] # "SETTING_UP"
  /\ caller' = "idle"
  /\ UNCHANGED <<cursor, die, input, indices, threads, pictures, due, received>>

\* The loop that calls get_buffer() for the thread.
ServeSleep ==
  /\ caller = "serving" /\ state[next_decoding] = "SETTING_UP"
  /\ caller' = "serveSleep"
  /\ UNCHANGED <<cursor, die, input, indices, threads, pictures, due, received>>

\* The answer wakes one of those who wait, not always the one who asked.
Serve(v) ==
  LET p == next_decoding IN
  /\ caller = "serving" /\ state[p] = "GET_BUFFER"
  /\ state' = [state EXCEPT ![p] = "SETTING_UP"]
  /\ IF \E u \in Threads : WaitsOnProgress(u, p)
       THEN WaitsOnProgress(v, p) /\ worker' = [worker EXCEPT ![v] = "decoding"]
       ELSE worker' = worker
  /\ UNCHANGED <<caller, cursor, die, input, indices, avpkt, got_frame,
                 requested, context, pictures, due, received>>

Served ==
  /\ caller = "serving"
  /\ state[next_decoding] \in {"SETUP_FINISHED", "INPUT_READY"}
  /\ caller' = "submitted"
  /\ UNCHANGED <<cursor, die, input, indices, threads, pictures, due, received>>

\* Mutant of Submitted: the search for a frame starts at the newest thread.
SubmittedNewest ==
  LET taken == ~draining \/ codec.delay
      next == IF taken THEN next_decoding + 1 ELSE next_decoding
      early == delaying /\ next <= ThreadCount - 1
  IN
  /\ caller = "submitted"
  /\ prev_thread' = IF taken THEN next_decoding ELSE prev_thread
  /\ next_decoding' = next /\ delaying' = early
  /\ IF early /\ ~draining THEN caller' = "idle" /\ cursor' = 0
     ELSE caller' = "fetching" /\ cursor' = next_decoding
  /\ UNCHANGED <<die, input, next_finished, threads, pictures, due, received>>

\* The end of submit_packet and the test of delaying: the first packets are
\* only taken.
Submitted ==
  LET taken == ~draining \/ codec.delay
      next == IF taken THEN next_decoding + 1 ELSE next_decoding
      early == delaying /\ next <= ThreadCount - 1
  IN
  /\ caller = "submitted"
  /\ prev_thread' = IF taken THEN next_decoding ELSE prev_thread
  /\ next_decoding' = next /\ delaying' = early
  /\ IF early /\ ~draining THEN caller' = "idle" /\ cursor' = 0
     ELSE caller' = "fetching" /\ cursor' = next_finished
  /\ UNCHANGED <<die, input, next_finished, threads, pictures, due, received>>

FetchSleep ==
  /\ caller = "fetching" /\ state[cursor] # "INPUT_READY"
  /\ caller' = "fetchSleep"
  /\ UNCHANGED <<cursor, die, input, indices, threads, pictures, due, received>>

\* Mutant of Fetch: the frame stays in its thread.
FetchTwice ==
  LET next == IF cursor + 1 >= ThreadCount THEN 0 ELSE cursor + 1
      goOn == draining /\ ~got_frame[cursor] /\ next # next_finished
  IN
  /\ caller = "fetching" /\ state[cursor] = "INPUT_READY"
  /\ received' = IF due[cursor] THEN avpkt[cursor] ELSE received
  /\ due' = [due EXCEPT ![cursor] = FALSE]
  /\ IF goOn THEN cursor' = next /\ UNCHANGED <<caller, next_decoding, next_finished>>
     ELSE /\ caller' = "idle" /\ next_finished' = next /\ cursor' = 0
          /\ next_decoding' = IF next_decoding >= ThreadCount THEN 0
                              ELSE next_decoding
  /\ UNCHANGED <<die, input, got_frame, delaying, prev_thread, worker, state, avpkt,
                 requested, context, pictures>>

\* The frame of a thread is taken; an empty packet goes on to the next thread
\* that has one.
Fetch ==
  LET next == IF cursor + 1 >= ThreadCount THEN 0 ELSE cursor + 1
      goOn == draining /\ ~got_frame[cursor] /\ next # next_finished
  IN
  /\ caller = "fetching" /\ state[cursor] = "INPUT_READY"
  /\ received' = IF due[cursor] THEN avpkt[cursor] ELSE received
  /\ due' = [due EXCEPT ![cursor] = FALSE]
  /\ got_frame' = [got_frame EXCEPT ![cursor] = FALSE]
  /\ IF goOn THEN cursor' = next /\ UNCHANGED <<caller, next_decoding, next_finished>>
     ELSE /\ caller' = "idle" /\ next_finished' = next /\ cursor' = 0
          /\ next_decoding' = IF next_decoding >= ThreadCount THEN 0
                              ELSE next_decoding
  /\ UNCHANGED <<die, input, delaying, prev_thread, worker, state, avpkt,
                 requested, context, pictures>>

----------------------------------------------------------------------------
(* ff_thread_flush and ff_frame_thread_free *)

Flush ==
  /\ caller = "idle" /\ caller' = "flushing" /\ cursor' = 0
  /\ UNCHANGED <<die, input, indices, threads, pictures, due, received>>

Close ==
  /\ caller = "idle" /\ caller' = "closing" /\ cursor' = 0
  /\ UNCHANGED <<die, input, indices, threads, pictures, due, received>>

\* park_frame_worker_threads: one thread after the other is waited for.
ParkSleep ==
  /\ caller \in {"flushing", "closing"} /\ cursor < ThreadCount
  /\ state[cursor] # "INPUT_READY"
  /\ caller' = IF caller = "flushing" THEN "flushSleep" ELSE "closeSleep"
  /\ UNCHANGED <<cursor, die, input, indices, threads, pictures, due, received>>

Park ==
  /\ caller \in {"flushing", "closing"} /\ cursor < ThreadCount
  /\ state[cursor] = "INPUT_READY"
  /\ got_frame' = [got_frame EXCEPT ![cursor] = FALSE]
  /\ cursor' = cursor + 1
  /\ UNCHANGED <<caller, die, input, indices, worker, state, avpkt, requested,
                 context, pictures, due, received>>

\* Thread 0 continues where the last thread was.
FirstContext ==
  IF prev_thread = None THEN context
  ELSE [context EXCEPT ![0] = context[prev_thread]]

FlushParked ==
  /\ caller = "flushing" /\ cursor = ThreadCount
  /\ context' = FirstContext
  /\ next_decoding' = 0 /\ next_finished' = 0 /\ delaying' = TRUE
  /\ prev_thread' = None
  /\ got_frame' = [p \in Threads |-> FALSE]
  /\ due' = [p \in Threads |-> FALSE]
  /\ owner' = [k \in Packets |-> None]
  /\ caller' = "idle" /\ cursor' = 0
  /\ UNCHANGED <<die, input, worker, state, avpkt, requested, reported, received>>

\* die is set; the threads are then woken and joined one after the other.
CloseParked ==
  /\ caller = "closing" /\ cursor = ThreadCount
  /\ context' = FirstContext
  /\ die' = TRUE /\ cursor' = 0 /\ caller' = "joining"
  /\ UNCHANGED <<input, indices, worker, state, avpkt, got_frame, requested,
                 pictures, due, received>>

WakeToDie ==
  /\ caller = "joining" /\ cursor < started /\ worker[cursor] = "sleeping"
  /\ worker' = [worker EXCEPT ![cursor] = "testing"]
  /\ UNCHANGED <<caller, cursor, die, input, indices, state, avpkt, got_frame,
                 requested, context, pictures, due, received>>

Join ==
  /\ caller = "joining" /\ cursor < started /\ worker[cursor] = "ended"
  /\ cursor' = cursor + 1
  /\ UNCHANGED <<caller, die, input, indices, threads, pictures, due, received>>

Free ==
  /\ caller = "joining" /\ cursor = started
  /\ due' = [p \in Threads |-> FALSE] /\ caller' = "closed"
  /\ UNCHANGED <<cursor, die, input, indices, threads, pictures, received>>

----------------------------------------------------------------------------
(* frame_worker_thread *)

\* The loop around pthread_cond_wait(&p->input_cond, &p->mutex).
Test(p) ==
  /\ worker[p] = "testing"
  /\ \/ die /\ worker' = [worker EXCEPT ![p] = "ended"] /\ UNCHANGED got_frame
     \/ /\ ~die /\ state[p] = "INPUT_READY"
        /\ worker' = [worker EXCEPT ![p] = "sleeping"] /\ UNCHANGED got_frame
     \/ /\ ~die /\ state[p] # "INPUT_READY"
        /\ worker' = [worker EXCEPT ![p] = "decoding"]
        /\ got_frame' = [got_frame EXCEPT ![p] = FALSE]
  /\ UNCHANGED <<caller, cursor, die, input, indices, state, avpkt, requested,
                 context, pictures, due, received>>

\* ff_thread_get_buffer or ff_thread_get_format while setting up; afterwards
\* they refuse.  Callbacks that are safe are called at once.
GetBuffer(p) ==
  /\ worker[p] = "decoding" /\ state[p] = "SETTING_UP" /\ ~requested[p]
  /\ BufferMutexFree
  /\ requested' = [requested EXCEPT ![p] = TRUE]
  /\ IF codec.safe THEN UNCHANGED <<state, worker, caller>>
     ELSE /\ state' = [state EXCEPT ![p] = "GET_BUFFER"]
          /\ Broadcast(p, [worker EXCEPT ![p] = "requesting"])
  /\ UNCHANGED <<cursor, die, input, indices, avpkt, got_frame, context,
                 pictures, due, received>>

\* The thread wakes up before its request was answered.
SleepAgain(p) ==
  /\ worker[p] = "decoding" /\ state[p] = "GET_BUFFER"
  /\ worker' = [worker EXCEPT ![p] = "requesting"]
  /\ UNCHANGED <<caller, cursor, die, input, indices, state, avpkt, got_frame,
                 requested, context, pictures, due, received>>

\* ff_thread_finish_setup, by the codec or, when it returned early, for it.  A
\* second field, which needs no buffer, is announced with the first one.
FinishSetup(p) ==
  LET k == avpkt[p] IN
  /\ worker[p] = "decoding" /\ state[p] = "SETTING_UP"
  /\ state' = [state EXCEPT ![p] = "SETUP_FINISHED"]
  /\ context' = [context EXCEPT ![p] = k]
  /\ \/ owner' = [owner EXCEPT ![k] = p]
     \/ /\ codec.fields /\ ~requested[p] /\ k > 1 /\ owner[k - 1] # None
        /\ owner' = [owner EXCEPT ![k] = owner[k - 1]]
  /\ Broadcast(p, worker)
  /\ UNCHANGED <<cursor, die, input, indices, avpkt, got_frame, requested,
                 reported, due, received>>

\* ff_thread_await_progress, for the picture before.
AwaitProgress(p) ==
  /\ worker[p] = "decoding" /\ state[p] = "SETUP_FINISHED"
  /\ Previous(p) \in Packets \ reported /\ avpkt[p] \notin reported
  /\ owner[Previous(p)] # None
  /\ worker' = [worker EXCEPT ![p] = "awaiting"]
  /\ UNCHANGED <<caller, cursor, die, input, indices, state, avpkt, got_frame,
                 requested, context, pictures, due, received>>

\* ff_thread_report_progress with INT_MAX; the picture may not need another.
ReportProgress(p) ==
  /\ worker[p] = "decoding" /\ state[p] = "SETUP_FINISHED"
  /\ avpkt[p] \notin reported
  /\ reported' = reported \cup {avpkt[p]}
  /\ Broadcast(owner[avpkt[p]], worker)
  /\ UNCHANGED <<cursor, die, input, indices, state, avpkt, got_frame,
                 requested, context, owner, due, received>>

\* Mutant of DecodeReturns: output_cond is not signalled.
DecodeReturnsSilent(p) ==
  /\ worker[p] = "decoding" /\ avpkt[p] \in reported
  /\ \E got \in BOOLEAN : got_frame' = [got_frame EXCEPT ![p] = got]
  /\ state' = [state EXCEPT ![p] = "INPUT_READY"]
  /\ requested' = [requested EXCEPT ![p] = FALSE]
  /\ worker' = [v \in Threads |->
                  IF v = p THEN "testing"
                  ELSE IF WaitsOnProgress(v, p) THEN "decoding" ELSE worker[v]]
  /\ caller' = IF CallerWaitsOnProgress(p) THEN Awake ELSE caller
  /\ UNCHANGED <<cursor, die, input, indices, avpkt, context, pictures, due,
                 received>>

\* The codec returns, with a frame or without.
DecodeReturns(p) ==
  /\ worker[p] = "decoding" /\ avpkt[p] \in reported
  /\ \E got \in BOOLEAN : got_frame' = [got_frame EXCEPT ![p] = got]
  /\ state' = [state EXCEPT ![p] = "INPUT_READY"]
  /\ requested' = [requested EXCEPT ![p] = FALSE]
  /\ worker' = [v \in Threads |->
                  IF v = p THEN "testing"
                  ELSE IF WaitsOnProgress(v, p) THEN "decoding" ELSE worker[v]]
  /\ caller' = IF CallerWaitsOnProgress(p) \/ CallerWaitsOnOutput(p)
               THEN Awake ELSE caller
  /\ UNCHANGED <<cursor, die, input, indices, avpkt, context, pictures, due,
                 received>>

----------------------------------------------------------------------------
WorkerStep(p) ==
  \/ Test(p) \/ GetBuffer(p) \/ SleepAgain(p) \/ FinishSetup(p)
  \/ AwaitProgress(p) \/ ReportProgress(p) \/ DecodeReturns(p)

CallerStep ==
  \/ LockThread \/ CopySleep \/ Submit \/ SubmitFails \/ ServeSleep \/ Served
  \/ (\E v \in Threads : Serve(v))
  \/ Submitted \/ FetchSleep \/ Fetch
  \/ ParkSleep \/ Park \/ FlushParked
  \/ CloseParked \/ WakeToDie \/ Join \/ Free

Next ==
  \/ CreateThread \/ CreateFails
  \/ \E empty \in BOOLEAN : DecodeFrame(empty)
  \/ Flush \/ Close
  \/ CallerStep
  \/ \E p \in Threads : WorkerStep(p)

\* Threads run; which calls the application makes, and whether, is open.
Spec ==
  /\ Init /\ [][Next]_vars
  /\ WF_vars(CallerStep)
  /\ \A p \in Threads : WF_vars(WorkerStep(p))

----------------------------------------------------------------------------
\* A thread starts on a packet with all headers before it: its context was
\* copied after the thread before had read them, across flushes too.
ContextComplete ==
  \A p \in Threads :
    worker[p] = "decoding" /\ state[p] = "SETTING_UP" =>
      context[p] = Previous(p)

\* A frame is in a thread only while its result is due: it is not returned a
\* second time by the calls that drain the codec, nor after a flush.
FrameOnce == \A p \in Threads : got_frame[p] => due[p]

\* The packets whose results are due, oldest first: the i-th has i - 1 before it.
Due == {avpkt[p] : p \in {q \in Threads : due[q]}}
Inside == [i \in 1 .. Cardinality(Due) |->
             CHOOSE k \in Due : Cardinality({j \in Due : j < k}) = i - 1]

Service == INSTANCE FrameService
             WITH Frame <- Packets, Depth <- ThreadCount, inside <- Inside

\* Results come in the order of the packets, none is lost or repeated, and a
\* flush or the end drops only what is inside.
ImplementsService == Service!Spec

\* Calls return: the caller does not sleep through the end of a setup or of a
\* frame, no thread sleeps through its packet, its buffer or the picture it
\* needs, though the signal of Serve may wake another; and avcodec_close ends,
\* also when the threads were created in part.
CallsReturn ==
  /\ caller \in {"submitting", "copying", "copySleep", "serving", "serveSleep",
                 "submitted", "fetching", "fetchSleep", "flushing", "flushSleep"}
       ~> caller = "idle"
  /\ caller \in {"closing", "closeSleep", "joining"} ~> caller = "closed"
=============================================================================
