---------------------------- MODULE X264Encoder ----------------------------
(***************************************************************************)
(* libx264 with frame threads, as ffmpeg's libx264.c drives it:            *)
(*   encoder/lookahead.c    the lookahead, in a thread of its own when     *)
(*                          i_sync_lookahead is not 0;                     *)
(*   encoder/encoder.c      x264_encoder_encode, encoder_frame_end,        *)
(*                          x264_encoder_delayed_frames, ..._close;        *)
(*   common/threadpool.c    the pool that runs the frame threads;          *)
(*   common/frame.c         the synchronised lists between them.           *)
(*                                                                         *)
(* The caller puts frames into ifbuf; the lookahead moves them to next,    *)
(* decides the first group of next and moves it to ofbuf; the caller takes *)
(* a group into frames.current and starts one frame of it per call.        *)
(*                                                                         *)
(* The model starts when x264_encoder_open has returned.  A critical       *)
(* section is one step.  Out of memory and other failures of a call are    *)
(* left out.                                                               *)
(***************************************************************************)
EXTENDS Integers, Sequences, FiniteSets

CONSTANTS Params,     \* the parameter sets considered, see Param
          MaxThreads, \* X264_THREAD_MAX
          MaxFrames   \* bound: how many frames are handed in

(* bframes: i_bframe; slicetype_length: max(bframes, the lookahead asked    *)
(* for); sync: i_sync_lookahead; vfr: b_vfr_input; threads: i_thread_frames.*)
Param == [bframes : Nat, slicetype_length : Nat, sync : Nat, vfr : 0 .. 1,
          threads : Nat]

ASSUME ParamsAssumption ==
  /\ MaxFrames \in Nat /\ MaxThreads \in Nat
  /\ Params \subseteq Param
  /\ \A p \in Params : /\ p.slicetype_length >= p.bframes
                       /\ p.threads > 0 /\ p.threads <= MaxThreads
                       /\ p.threads = 1 => p.sync = 0

Frames == 1 .. MaxFrames   \* numbered as they are handed in, fenc->i_frame + 1

VARIABLES
  param,          \* a member of Params
  encoder,        \* where the thread that calls the encoder is
  i_thread_phase,
  i_input,        \* frames.i_input
  current,        \* frames.current
  b_exit_thread, b_thread_active,   \* of the lookahead
  ifbuf, next, ofbuf,
  i_bframes,      \* i_bframes[f], of the anchors in next and ofbuf
  looker,         \* where the lookahead thread is
  leaving,        \* whether it has left its loop
  active,         \* the frame threads with their b_thread_active
  job,            \* job[t]: which frame in coded order thread t encodes
  run,            \* the threads whose jobs are queued
  worker,         \* worker[w]: where thread w of the pool is
  task,           \* task[w]: the frame thread whose job it does
  written,        \* the frame threads with output: their jobs are in done
  exit,           \* of the pool
  coded,          \* how many frames have been started
  drained,        \* whether the application was told there is nothing left
  anchor,         \* history: the largest frame started
  received        \* history: the frame, in coded order, whose output came last

lists == <<ifbuf, next, ofbuf, i_bframes>>
flags == <<b_exit_thread, b_thread_active>>
lookahead == <<lists, flags, looker, leaving>>
pool == <<run, worker, task, exit>>
frames == <<i_input, current, coded, anchor>>
threads == <<i_thread_phase, active, job, written>>
vars == <<param, encoder, drained, received, lookahead, pool, frames, threads>>

Threads == 0 .. param.threads - 1
None == -1

\* frames.i_delay.
i_delay ==
  param.slicetype_length + (param.threads - 1) + param.sync + param.vfr

\* Mutant of Fill: the frames in the frame threads are not taken off.
FillForgetsThreads == i_delay

\* Frames are put in without one being taken until there are more than this.
Fill == i_delay + 1 - param.threads

\* i_max_size of the lists.
IfbufMax == param.sync + 3
NextMax == i_delay + 3
\* Mutant of OfbufMax: room for one group.
OfbufMaxGroup == param.bframes + 1

OfbufMax == i_delay + 3

Threaded == param.sync > 0

TypeOK ==
  /\ param \in Params
  /\ encoder \in {"idle", "pushing", "pushSleep", "getting", "getSleep",
                  "taking", "ending", "endSleep", "counting", "closing",
                  "joining", "closed"}
  /\ i_thread_phase \in Threads /\ i_input \in 0 .. MaxFrames
  /\ {ifbuf, next, ofbuf, current} \subseteq Seq(Frames)
  /\ b_exit_thread \in BOOLEAN /\ b_thread_active \in BOOLEAN
  /\ i_bframes \in [Frames -> 0 .. param.bframes]
  /\ looker \in {"none", "top", "shifting", "sleeping", "leave", "emptying",
                 "deciding", "decided", "full", "ended"}
  /\ leaving \in BOOLEAN
  /\ active \subseteq Threads /\ written \subseteq Threads
  /\ job \in [Threads -> 0 .. MaxFrames]
  /\ run \in Seq(Threads)
  /\ worker \in [Threads -> {"top", "asking", "sleeping", "writing", "ended"}]
  /\ task \in [Threads -> Threads \cup {None}]
  /\ exit \in BOOLEAN /\ drained \in BOOLEAN
  /\ coded \in 0 .. i_input /\ received \in 0 .. coded /\ anchor \in 0 .. i_input

Init ==
  /\ param \in Params
  /\ encoder = "idle" /\ i_thread_phase = 0 /\ i_input = 0 /\ current = <<>>
  /\ b_exit_thread = FALSE /\ b_thread_active = Threaded
  /\ ifbuf = <<>> /\ next = <<>> /\ ofbuf = <<>>
  /\ i_bframes = [f \in Frames |-> 0]
  /\ looker = (IF Threaded THEN "top" ELSE "none") /\ leaving = FALSE
  /\ active = {} /\ written = {} /\ job = [t \in Threads |-> 0]
  /\ run = <<>> /\ exit = FALSE
  /\ worker = [w \in Threads |-> IF param.threads > 1 THEN "top" ELSE "ended"]
  /\ task = [w \in Threads |-> None]
  /\ coded = 0 /\ drained = FALSE /\ anchor = 0 /\ received = 0

----------------------------------------------------------------------------
(* The lists. *)

First(s, n) == SubSeq(s, 1, n)
Rest(s, n) == SubSeq(s, n + 1, Len(s))

\* Broadcasts of the condition variables of the lists.
IfbufFilled == IF looker = "sleeping" THEN "top" ELSE looker
IfbufEmptied == IF encoder = "pushSleep" THEN "pushing" ELSE encoder
\* Mutant of OfbufFilled: the encoder is not woken.
OfbufFilledSilent == encoder

OfbufFilled == IF encoder = "getSleep" THEN "getting" ELSE encoder
OfbufEmptied == IF looker = "full" THEN "decided" ELSE looker

\* Broadcast of run.cv_fill: the workers of the pool.
AllAwake ==
  [w \in Threads |-> IF worker[w] = "sleeping" THEN "asking" ELSE worker[w]]

\* The orders in which a group of n + 1 frames is encoded: the last frame, then
\* those of the others that are references, then the rest.
CodedOrders(n) ==
  {p \in [1 .. n + 1 -> 1 .. n + 1] :
     /\ p[1] = n + 1
     /\ \A i, j \in 1 .. n + 1 : p[i] = p[j] => i = j
     /\ \E refs \in 0 .. n : \A i \in 2 .. n :
          i # refs + 1 => p[i] < p[i + 1]}

\* x264_slicetype_decide: how many of the first frames of next are B-frames
\* depends on the pictures; i_bframe and the end of next limit it.
Group(n, p) == [i \in 1 .. n + 1 |-> next[p[i]]]

Decidable(n, p) == n + 1 <= Len(next) /\ p \in CodedOrders(n)

\* Mutant of GroupSize: i_bframes alone.
GroupSizeShort(list) == IF i_bframes[Head(list)] = 0 THEN 1 ELSE i_bframes[Head(list)]

\* A group moved together: the frame at its head says how long it is.
GroupSize(list) == i_bframes[Head(list)] + 1

----------------------------------------------------------------------------
(* x264_encoder_encode *)

\* Mutant of NextPhase: it does not wrap around.
NextPhaseUnwrapped == i_thread_phase + 1

NextPhase == (i_thread_phase + 1) % param.threads
Oldest == (i_thread_phase + 1) % param.threads

\* A picture; it is refused when the lookahead was told to end.
Encode ==
  /\ encoder = "idle" /\ ~b_exit_thread /\ i_input < MaxFrames
  /\ i_thread_phase' = NextPhase
  /\ i_input' = i_input + 1
  /\ encoder' = "pushing"
  /\ UNCHANGED <<param, drained, received, lookahead, pool, current, coded,
                 anchor, active, job, written>>

\* x264_lookahead_put_frame into ifbuf or, without the thread, into next; then
\* the call returns, or goes on if the buffers are filled.
PutFrame ==
  /\ encoder = "pushing"
  /\ IF Threaded
       THEN /\ Len(ifbuf) < IfbufMax
            /\ ifbuf' = Append(ifbuf, i_input) /\ next' = next
            /\ looker' = IfbufFilled
       ELSE /\ Len(next) < NextMax
            /\ next' = Append(next, i_input)
            /\ UNCHANGED <<ifbuf, looker>>
  /\ encoder' = IF i_input <= Fill THEN "idle"
                ELSE IF current # <<>> THEN "taking" ELSE "getting"
  /\ UNCHANGED <<param, drained, received, flags, ofbuf, i_bframes, leaving,
                 pool, frames, threads>>

PutWaits ==
  /\ encoder = "pushing"
  /\ IF Threaded THEN Len(ifbuf) = IfbufMax ELSE Len(next) = NextMax
  /\ encoder' = "pushSleep"
  /\ UNCHANGED <<param, drained, received, lookahead, pool, frames, threads>>

\* No picture: the lookahead is told to end.
Flush ==
  /\ encoder = "idle" /\ ~drained
  /\ i_thread_phase' = NextPhase
  /\ b_exit_thread' = TRUE /\ looker' = IfbufFilled
  /\ encoder' = IF current # <<>> THEN "taking" ELSE "getting"
  /\ UNCHANGED <<param, drained, received, lists, b_thread_active, leaving,
                 pool, frames, active, job, written>>

\* x264_lookahead_get_frames: a group is waited for and taken from ofbuf.
GetFrames ==
  /\ encoder = "getting" /\ Threaded
  /\ ofbuf # <<>> \/ ~b_thread_active
  /\ IF ofbuf = <<>> THEN UNCHANGED <<current, ofbuf, i_bframes, looker>>
     ELSE /\ current' = First(ofbuf, GroupSize(ofbuf))
          /\ ofbuf' = Rest(ofbuf, GroupSize(ofbuf))
          /\ i_bframes' = [i_bframes EXCEPT ![Head(ofbuf)] = 0]
          /\ looker' = OfbufEmptied
  /\ encoder' = "taking"
  /\ UNCHANGED <<param, drained, received, flags, ifbuf, next, leaving, pool, i_input, coded, anchor, threads>>

GetWaits ==
  /\ encoder = "getting" /\ Threaded /\ ofbuf = <<>> /\ b_thread_active
  /\ encoder' = "getSleep"
  /\ UNCHANGED <<param, drained, received, lookahead, pool, frames, threads>>

\* The same without the thread: the group is decided here and taken at once.
DecideFrames ==
  /\ encoder = "getting" /\ ~Threaded
  /\ IF next = <<>> THEN UNCHANGED <<current, next>>
     ELSE \E n \in 0 .. param.bframes : \E p \in CodedOrders(n) :
            /\ Decidable(n, p)
            /\ current' = Group(n, p) /\ next' = Rest(next, n + 1)
  /\ encoder' = "taking"
  /\ UNCHANGED <<param, drained, received, flags, ifbuf, ofbuf, i_bframes,
                 looker, leaving, pool, i_input, coded, anchor, threads>>

\* A frame is started: as a job of the pool or, with one thread, at once.
TakeFrame ==
  LET t == i_thread_phase IN
  /\ encoder = "taking" /\ current # <<>>
  /\ current' = Tail(current)
  /\ coded' = coded + 1
  /\ anchor' = IF Head(current) > anchor THEN Head(current) ELSE anchor
  /\ job' = [job EXCEPT ![t] = coded + 1]
  /\ IF param.threads > 1
       THEN /\ Cardinality(active) < param.threads
            /\ active' = active \cup {t} /\ run' = Append(run, t)
            /\ worker' = AllAwake
            /\ UNCHANGED written
       ELSE written' = {t} /\ UNCHANGED <<active, run, worker>>
  /\ encoder' = "ending"
  /\ UNCHANGED <<param, drained, received, lookahead, task, exit, i_input,
                 i_thread_phase>>

\* current and, as x264_lookahead_is_empty says, the lookahead have no frame.
NothingToTake ==
  /\ encoder = "taking" /\ current = <<>> /\ next = <<>> /\ ofbuf = <<>>
  /\ encoder' = "ending"
  /\ UNCHANGED <<param, drained, received, lookahead, pool, frames, threads>>

\* encoder_frame_end: the output of the oldest frame thread, if it has any.
EndFrame ==
  /\ encoder = "ending" /\ Oldest \in written
  /\ active' = active \ {Oldest} /\ written' = written \ {Oldest}
  /\ received' = job[Oldest]
  /\ encoder' = "idle"
  /\ UNCHANGED <<param, drained, lookahead, pool, frames, job, i_thread_phase>>

EndWaits ==
  /\ encoder = "ending" /\ Oldest \in active \ written
  /\ encoder' = "endSleep"
  /\ UNCHANGED <<param, drained, received, lookahead, pool, frames, threads>>

EndEmpty ==
  /\ encoder = "ending" /\ Oldest \notin active \cup written
  /\ encoder' = IF b_exit_thread THEN "counting" ELSE "idle"
  /\ UNCHANGED <<param, drained, received, lookahead, pool, frames, threads>>

\* Mutant of Delayed: the frames in the frame threads are forgotten.
DelayedInLists ==
  Len(current) + Len(ifbuf) + Len(next) + Len(ofbuf)

\* x264_encoder_delayed_frames.
Delayed ==
  Cardinality(active) + Len(current) + Len(ifbuf) + Len(next) + Len(ofbuf)

\* The loop of X264_frame: at the end of the stream x264_encoder_encode is
\* called until there is output, or no frame is delayed.
CountDelayed ==
  /\ encoder = "counting"
  /\ IF Delayed = 0
       THEN encoder' = "idle" /\ drained' = TRUE /\ UNCHANGED i_thread_phase
       ELSE /\ i_thread_phase' = NextPhase
            /\ encoder' = IF current # <<>> THEN "taking" ELSE "getting"
            /\ UNCHANGED drained
  /\ UNCHANGED <<param, received, lookahead, pool, frames, active, job, written>>

----------------------------------------------------------------------------
(* x264_encoder_close: x264_lookahead_delete, then x264_threadpool_delete *)

Close ==
  /\ encoder = "idle"
  /\ b_exit_thread' = TRUE /\ looker' = IfbufFilled
  /\ encoder' = "closing"
  /\ UNCHANGED <<param, drained, received, lists, b_thread_active, leaving,
                 pool, frames, threads>>

JoinLookahead ==
  /\ encoder = "closing" /\ looker \in {"none", "ended"}
  /\ exit' = TRUE /\ worker' = AllAwake
  /\ encoder' = "joining"
  /\ UNCHANGED <<param, drained, received, lookahead, run, task, frames, threads>>

JoinPool ==
  /\ encoder = "joining" /\ \A w \in Threads : worker[w] = "ended"
  /\ encoder' = "closed"
  /\ UNCHANGED <<param, drained, received, lookahead, pool, frames, threads>>

----------------------------------------------------------------------------
(* lookahead_thread_internal *)

\* while( !b_exit_thread ), read without a lock.
LookTop ==
  /\ looker = "top"
  /\ looker' = IF b_exit_thread THEN "leave" ELSE "shifting"
  /\ UNCHANGED <<param, encoder, drained, received, lists, flags, leaving,
                 pool, frames, threads>>

\* The section under ifbuf.mutex: what fits moves to next; a group is decided
\* when next is longer than the analysis needs, else frames are waited for.
LookShift ==
  LET room == NextMax - Len(next)
      n == IF room < Len(ifbuf) THEN room ELSE Len(ifbuf)
  IN
  /\ looker = "shifting"
  /\ next' = next \o First(ifbuf, n) /\ ifbuf' = Rest(ifbuf, n)
  /\ encoder' = IF n > 0 THEN IfbufEmptied ELSE encoder
  /\ looker' = IF Len(next) + n > param.slicetype_length + param.vfr
                 THEN "deciding"
               ELSE IF n = Len(ifbuf) /\ ~b_exit_thread THEN "sleeping"
               ELSE "top"
  /\ UNCHANGED <<param, drained, received, flags, ofbuf, i_bframes, leaving,
                 pool, frames, threads>>

\* After the loop everything moves to next.
LookLeave ==
  /\ looker = "leave"
  /\ next' = next \o ifbuf /\ ifbuf' = <<>>
  /\ leaving' = TRUE /\ looker' = "emptying"
  /\ UNCHANGED <<param, encoder, drained, received, flags, ofbuf, i_bframes,
                 pool, frames, threads>>

LookEmptying ==
  /\ looker = "emptying"
  /\ IF next # <<>> THEN looker' = "deciding" /\ UNCHANGED <<b_thread_active, encoder>>
     ELSE /\ looker' = "ended" /\ b_thread_active' = FALSE
          /\ encoder' = OfbufFilled
  /\ UNCHANGED <<param, drained, received, lists, b_exit_thread, leaving, pool,
                 frames, threads>>

\* lookahead_slicetype_decide, before and after it has the lock of ofbuf.
LookDecide ==
  /\ looker = "deciding"
  /\ \E n \in 0 .. param.bframes : \E p \in CodedOrders(n) :
       /\ Decidable(n, p)
       /\ next' = Group(n, p) \o Rest(next, n + 1)
       /\ i_bframes' = [i_bframes EXCEPT ![next[n + 1]] = n]
  /\ looker' = "decided"
  /\ UNCHANGED <<param, encoder, drained, received, flags, ifbuf, ofbuf,
                 leaving, pool, frames, threads>>

LookOffer ==
  /\ looker = "decided"
  /\ IF Len(ofbuf) = OfbufMax
       THEN looker' = "full" /\ UNCHANGED <<next, ofbuf, encoder>>
       ELSE /\ ofbuf' = ofbuf \o First(next, GroupSize(next))
            /\ next' = Rest(next, GroupSize(next))
            /\ encoder' = OfbufFilled
            /\ looker' = IF leaving THEN "emptying" ELSE "top"
  /\ UNCHANGED <<param, drained, received, flags, ifbuf, i_bframes, leaving,
                 pool, frames, threads>>

----------------------------------------------------------------------------
(* threadpool_thread_internal *)

WorkerTop(w) ==
  /\ worker[w] = "top"
  /\ worker' = [worker EXCEPT ![w] = IF exit THEN "ended" ELSE "asking"]
  /\ UNCHANGED <<param, encoder, drained, received, lookahead, run, task, exit,
                 frames, threads>>

\* A job is taken, also when the pool is about to end.
WorkerTakes(w) ==
  /\ worker[w] = "asking" /\ run # <<>>
  /\ task' = [task EXCEPT ![w] = Head(run)] /\ run' = Tail(run)
  /\ worker' = [worker EXCEPT ![w] = "writing"]
  /\ UNCHANGED <<param, encoder, drained, received, lookahead, exit, frames,
                 threads>>

WorkerWaits(w) ==
  /\ worker[w] = "asking" /\ run = <<>>
  /\ worker' = [worker EXCEPT ![w] = IF exit THEN "top" ELSE "sleeping"]
  /\ UNCHANGED <<param, encoder, drained, received, lookahead, run, task, exit,
                 frames, threads>>

\* slices_write ends and its job is put into done.  A frame may need the rows
\* of every frame started before (x264_frame_cond_wait).
WorkerWrites(w) ==
  LET t == task[w] IN
  /\ worker[w] = "writing"
  /\ \A u \in active \ written : job[t] <= job[u]
  /\ written' = written \cup {t}
  /\ worker' = [worker EXCEPT ![w] = "top"]
  /\ task' = [task EXCEPT ![w] = None]
  /\ encoder' = IF encoder = "endSleep" THEN "ending" ELSE encoder
  /\ UNCHANGED <<param, drained, received, lookahead, run, exit, frames,
                 i_thread_phase, active, job>>

----------------------------------------------------------------------------
WorkerStep(w) ==
  WorkerTop(w) \/ WorkerTakes(w) \/ WorkerWaits(w) \/ WorkerWrites(w)

LookerStep ==
  LookTop \/ LookShift \/ LookLeave \/ LookEmptying \/ LookDecide \/ LookOffer

EncoderStep ==
  \/ PutFrame \/ PutWaits \/ GetFrames \/ GetWaits \/ DecideFrames
  \/ TakeFrame \/ NothingToTake \/ EndFrame \/ EndWaits \/ EndEmpty
  \/ CountDelayed \/ JoinLookahead \/ JoinPool

Next ==
  \/ Encode \/ Flush \/ Close
  \/ EncoderStep \/ LookerStep
  \/ \E w \in Threads : WorkerStep(w)

\* Threads run; which calls the application makes, and whether, is open.
Spec ==
  /\ Init /\ [][Next]_vars
  /\ WF_vars(EncoderStep) /\ WF_vars(LookerStep)
  /\ \A w \in 0 .. MaxThreads - 1 : WF_vars(w \in Threads /\ WorkerStep(w))

----------------------------------------------------------------------------
\* The assertions of lookahead_shift hold: when a group moves to ofbuf and when
\* the rest moves to next, there is room for all of it, although room for one
\* frame is all the code waits for, or does not wait.
ListsHaveRoom ==
  /\ looker = "decided" =>
       /\ GroupSize(next) <= Len(next)
       /\ Len(ofbuf) = OfbufMax \/ Len(ofbuf) + GroupSize(next) <= OfbufMax
  /\ looker = "leave" => Len(next) + Len(ifbuf) <= NextMax

\* x264_encoder_maximum_delayed_frames is right: between two calls no more
\* frames are inside.
DelayBounded == encoder = "idle" => Delayed <= i_delay

\* When a drain call returns without output, every frame has been output: the
\* flush of libx264.c stops neither early nor at a call that had nothing yet.
DrainsAll == drained => received = i_input

\* The frames that have not been started.
Inside ==
  IF encoder = "closed" THEN {}
  ELSE (UNION {{s[i] : i \in 1 .. Len(s)} : s \in {ifbuf, next, ofbuf, current}})
         \cup (IF encoder = "pushing" \/ encoder = "pushSleep" THEN {i_input} ELSE {})

Reorder == INSTANCE ReorderService
             WITH bframes <- param.bframes, input <- i_input, inside <- Inside

\* The frames started whose output is due.
Coding ==
  IF encoder = "closed" THEN <<>> ELSE [i \in 1 .. coded - received |-> received + i]

Service == INSTANCE FrameService
             WITH Frame <- Frames, Depth <- MaxThreads, inside <- Coding

\* Frames are encoded group by group, whoever decides the groups, and the frame
\* threads deliver them in the order they were started.
ImplementsServices == Reorder!Spec /\ Service!Spec

\* x264_encoder_encode, the flush loop and x264_encoder_close return: the caller,
\* the lookahead and the pool do not wait for each other in a circle, nobody
\* sleeps through what it waits for, and a close ends whatever is inside.
CallsReturn ==
  /\ encoder \notin {"idle", "closing", "joining", "closed"} ~> encoder = "idle"
  /\ encoder = "closing" ~> encoder = "closed"
=============================================================================
