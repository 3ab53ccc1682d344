# ZenMediaLib in TLA+

ZenMediaLib is an Android library around VLC. It has two parts that run several
threads against each other:

- its own logic, about 1,900 lines of Java in `src/player/src/main/java`, on
  top of a binary libvlc (`src/libvlc/libs/libvlc-3.0.0.aar`);
- the FFmpeg, x264 and fdk-aac that `src/ffmpeg` builds for it. Most of that is
  sequential signal processing. What carries a protocol of its own is the
  threading of libavcodec and of libx264, which the build enables for the H.264
  and PNG decoders, the PNG encoder and libx264.

The models are of these two. What the Java code calls in libvlc is modelled as
far as the code uses it, from the class files in the archive, and marked
external in `PROJECT.json`. Paths of C files below are relative to
`src/ffmpeg/jni/ffmpeg-2.8.15` and `src/ffmpeg/jni/x264`.

## Inventory

| component | state | operations | talks to |
| --- | --- | --- | --- |
| `MediaPlayer` (`org.videolan.libvlc`, the class this repository replaces in libvlc) | `mMedia`, `mPlaying`, `mPlayRequested`, the monitor | `setMedia`, `getMedia`, `play`, `stop`, `onSurfacesCreated`, `onSurfacesDestroyed`, `onReleaseNative` | its `AWindow` (both ways), the native player, `VLCObject` (reference count) |
| `AWindow`, `SurfaceHelper`, `VLCObject`, `EventHandler` (libvlc, external) | the window's atomic state, the helper slot, the count, the list of handlers | `attachViews`, `detachViews`, surface callbacks, `release`, `callback` | the view, the native event threads |
| `ZMediaPlayer` | `stopped` (volatile), `callBack` (plain), `position`, sizes | constructor, `play`, `pause`, `resume`, `stop`, `release`, `onNewLayout` | `MediaPlayer`, `EventHandler`, the application |
| `VideoPlayerEventHandler` in it | `isOnPlayCallback` | `handleMessage` on the UI looper | `callBack`, `MediaPlayer` |
| `getLibOptions` in it | none | options from preferences and device | `VLCUtil`, `HWDecoderUtil` |
| `BaseViewPlayer` with `TextureViewPlayer`, `SurfaceViewPlayer`, `AudioPlayer` | `attached`, `requestPlay`, `hasVideo`; the view's listener | `requestPlay`, `handleSurfaceAvailable`, `handleAttach` | the view, `ZMediaPlayer` |
| `ZMediaPlayer2`, `BaseViewPlayer2`, `TextureViewPlayer2` | as above | as above, with other `pause`, `resume`, `EndReached`, layout | as above |
| `changePlayerLayout`, `ZDisplayMode`, `PlayerTextureView` | sizes, display mode | measuring | the view |
| callback wrappers, `WeakHandler`, `UnknownException` | none | delegation | the application |
| `libavcodec/frame_thread_encoder.c` | a fifo of tasks, a ring of finished tasks, two indices, `exit` | open, encode, drain, close; a worker's loop | the caller of `avcodec_encode_video2` |
| `libavcodec/pthread_slice.c`, `hls_decode_entry_wpp` | `current_job`, `job_count`, `current_execute`, `done`; the progress `entries` | open, `execute`, `execute2`, close; await and report of progress | the codec, whose slices it runs |
| `libavcodec/pthread_frame.c` | per thread a state, a packet, a frame, a context; the ring of threads | open, decode, drain, flush, close; `get_buffer`, `get_format`; progress of pictures | the caller of `avcodec_decode_video2`, whose callbacks the threads need |
| `encoder/lookahead.c`, `slicetype.c`, `encoder.c`, `common/threadpool.c`, `frame.c`, with `libavcodec/libx264.c` | the lists `ifbuf`, `next`, `ofbuf`, `frames.current`, the pool's queues | encode, flush, close; the lookahead's loop; the pool's workers | the caller, the lookahead thread, the frame threads |

What is hard here: native event threads, the UI looper, application threads and
surface callbacks meet in a few unsynchronised fields, an unsynchronised list,
one monitor and an atomic window state; the application may stop a player from
inside its callbacks; a view's only listener is overwritten and cleared by
whoever comes; the surface may vanish at any time. In the C code, every thread
that sleeps must be woken by somebody who is sure to come: conditions are
signalled, not broadcast, in places; some flags are tested without a lock; one
counter has three meanings; buffers are written without a test for room, since
another number bounds them; workers finish in any order, while the caller must
see the order of the frames; and opening may fail halfway, with some of the
workers already running. `hazards` in `PROJECT.json` lists these at their lines
with the properties that cover them, or the reason why none does yet.

What makes the components correct:

- `MediaPlayer`: a play request is neither lost nor started twice, whatever the
  surface does; nothing plays after `stop`; one native release; no video on a
  surface that is gone.
- events: onPlay before everything, once per run; nothing after `stop`; the end
  is reported; the walk over the handlers reaches each at most once.
- view players: a request waits for the surface and is then played once; the
  window follows the surface.
- media: alive while somebody holds it, released when nobody does.
- layout: the picture fits its container, keeps its shape, and is the same in
  both editions, as far as rounding lets it.
- options: a device that is better in every respect does not skip more of the
  deblocking.
- frame-threaded encoding: the packets come out in the order of the frames,
  once each; no packet overwrites another; calls and the close return.
- slice threads: `execute` is a barrier behind which every job has run once;
  the signal of a row cannot wake the wrong row; calls and the close return.
- frame-threaded decoding: a thread starts with the headers of every packet
  before it; results come in the order of the packets, none twice, across
  drains and flushes; nobody waits for ever, on a callback, a picture or a
  thread.
- libx264: frames are encoded group by group and come out in that order; the
  lists have room for the groups moved in one piece; the delay is bounded by
  what the encoder announces; the flush loop stops when everything is out.

## Modules

| module | models |
| --- | --- |
| `PlaybackIntent` | what `MediaPlayer` promises: a session that is none, pending or started, against an engine and a window that waits |
| `HookedMediaPlayer` | `MediaPlayer.java` with its window and `ZMediaPlayer.stop()`, step by step, on any threads |
| `HookedMediaPlayer_proofs` | its theorems |
| `PlayerEvents` | `EventHandler`'s walk, the UI looper with `handleMessage`, the steps of `stop()`, for several players |
| `PlayerEvents_proofs` | its theorems |
| `ViewPlayers` | `BaseViewPlayer.java`, `TextureViewPlayer.java`, `AudioPlayer.java`: several players on one TextureView |
| `ViewPlayers_proofs` | its theorems |
| `MediaOwnership` | the references to `Media` through `play(hasVideo)`, `setMedia`, `onReleaseNative`, on several threads |
| `PlayerLayout` | `onNewLayout` with `changePlayerLayout`, and `ZDisplayMode.measure` with `PlayerTextureView` |
| `VlcOptions` | `getDeblocking` and the network cache of `getLibOptions` |
| `ZMediaPlayer_proofs` | theorems about `MediaOwnership`, `VlcOptions` and `PlayerLayout` |
| `FrameService` | what libavcodec promises of a codec that works on several frames at once: results in order, each once, a bounded number inside |
| `ReorderService` | what libx264 promises of the order in which frames are encoded |
| `EncoderThreads` | `frame_thread_encoder.c`; implements `FrameService` |
| `EncoderThreads_proofs` | its theorems |
| `SliceThreads` | `pthread_slice.c`, with the rows of `hls_decode_entry_wpp` as jobs |
| `SliceThreads_proofs` | its theorems |
| `FrameThreads` | `pthread_frame.c`; implements `FrameService` |
| `FrameThreads_proofs` | its theorems |
| `X264Encoder` | the caller, the lookahead thread and the pool of libx264, with the flush loop of `libx264.c`; implements `ReorderService` and `FrameService` |
| `X264Encoder_proofs` | its theorems |
| `MC*` | model values and the small sets of the runs |

An operator under a comment "Mutant of X" is a plausible bug of `X`:
`PROJECT.json` pairs each with the property it breaks. Mutants are not part of
any specification.

### HookedMediaPlayer

A call is a path through the labels of `pc[t]`. `PlayCall`, `Gate`, `Start` are
`play()`; `StopCall` to `onReleaseNative` are `ZMediaPlayer.stop()` with
everything it calls: `MediaPlayer.stop`, `AWindow.detachViews`,
`VLCObject.release`. `SurfaceCreated` leads through `SetSurface`,
`CheckAttached`, `SetReady` to `onSurfacesCreated`, which re-enters `play()` at
the gate with the monitor in hand. `SurfaceDestroyed` leads through `Detach`
and `Drop` to `onSurfacesDestroyed`. The monitor is a variable; a step that
enters a synchronized method needs it free. `mSurfacesState` and the helper
slot are read and written outside the monitor, as in the code. A native method
on a released player throws: `nativeStop` out of `stop()` (`Throw`), and
`nativePlay` out of `play()`, after `mPlaying` was set, and out of the surface
callback, if that called it again (`Start`). `replaying` says that the
`play()` under way on the UI thread is the one of `onSurfacesCreated`.
`uncaught` is set by an exception that leaves `stop()` or a surface callback;
that of a `play()` reaches its caller, the application, and is not counted.
`EngineEnds` is the end of the media, of which the Java side learns nothing:
`onEventNative` returns null.

`PlaybackIntent` is implemented under the mapping in `Intent`: the session is
read off `mPlaying` and `mPlayRequested`, the wait off the window, the engine
is the native player.

### PlayerEvents

`cast[p]` is the walk of the event thread of p's engine over `handlers`: the
size is read, the element is fetched, the message is sent, each in a step of
its own, since nothing locks the list. `Dispatch` takes the first message of
the looper; the other steps of `Handle` are the reads and calls of the
`switch`, one shared access each. The application's code runs in the labels
`InApp`, where it may build and stop players. `Call` is a callback with the two
ways it can fail: the reference is null, or its argument comes from a released
player; an exception ends everything (`crash`). `stop()` has one step per
statement; on another thread its write to the plain field `callBack` becomes
visible to the UI thread at any later time (`Publish`).

"paused", "error" and so on stand for the cases of the `switch`; "error" is
also `HardwareAccelerationError`, which has the same form. Cases without an
effect are left out.

### ViewPlayers

All methods run on the UI thread, so that each is one step. `listener` and
`owner` are the single listener slot of the view. `Stop` of an attached player
sets it to null whoever owns it. `SurfaceDestroyed` goes to libvlc's listener
only; `attached` keeps its value. `shared` records the players that were ever
on the view together with another that was not stopped. For those, the
properties `RequestServed` and `ReadyHasSurface` do not hold in the code: a
player waiting for a surface is forgotten when another takes the slot, and a
player built before the old one is stopped does not hear that the surface is
gone. The properties say what holds for a player that is alone.

### MediaOwnership

`count` is `VLCObject.mNativeRefCount` of every media, `own[t]` the local
variable `media` of `play(hasVideo)`. `setMedia` is one step, since the monitor
of the player is held and the counts are only touched by their holders. The
release of the player has two: the count drops, and later `onReleaseNative`
runs in the monitor; a `setMedia` may come between them or after them. After
them `nativeSetMedia` throws, and `failed` records the media.

### PlayerLayout

One video in one container, shown by both editions. `onNewLayout` reports a
size to both; `Turn` changes container and orientation; `onMeasure` is the
layout pass of the `PlayerTextureView`, due after `setVideoSize`,
`setDisplayMode` and `Turn`. `ZMediaPlayer`'s view is not laid out again by
`Turn`, since nothing calls `changePlayerLayout` then; `fresh` says whether its
layout belongs to the present state.

The code computes in doubles and in floats. A length that was computed with a
ratio is, in the model, any that is less than 1/`Precision` of a pixel from the
exact one (`CeilNear`, `FloorNear`), and a comparison of two ratios may go
either way when they are as near (`SameShape`); a length that is only taken over
is exact (`Given`). So `Math.ceil` may give a pixel more than the exact ceiling
and the cast to `int` one less, where the exact value is an integer: 352x288 in
a container of 440x360 becomes 441 wide (`ZMediaPlayer.java:519`), and the
float of `ZDisplayMode.java:27` makes 737x603 there 439 wide. The error is
bounded and chosen anew at each rounding, which allows all the code can do and
more. libvlc reports visible sizes that are positive when
the sizes are, and a sample aspect ratio that is 0:0 or positive.

### VlcOptions

A step builds the options of a device and of one that is at least as fast, from
the same preferences: `getDeblocking`, with the machine's specification known
or not, and the bounds of the network cache. `NotANumber` is a stored
preference that `Integer.parseInt` refuses: the exception is caught and the
level stays -1, whatever the device (`DeblockingOption`).

### FrameService and ReorderService

`FrameService` is the promise a caller relies on: `inside` are the frames
handed in whose results are due, results are received from its head, and at
most `Depth` frames are inside. A flush or a close drops what is inside.
`ReorderService` is the order of libx264: a group is some consecutive frames,
of which the last, the anchor, is encoded first; a group is finished before the
next is begun. Both are properties of the detailed modules, under the mappings
at their ends.

### EncoderThreads

`CreateWorker` and `CreateFails` are the loop of
`ff_frame_thread_encoder_init`, with the label `fail`. `EncodeFrame`,
`TestPending`, `Drain`, `CollectReady`, `CollectWaits` are
`ff_thread_video_encode_frame`: the task into the fifo, the test for too many
pending tasks, which takes no lock, the wait for the oldest packet. `Top` to
`Store` are the loop of `worker`. `Close`, `RaiseExit`, `Free` are
`ff_frame_thread_encoder_free`. A thread in `pthread_cond_wait` is "sleeping";
`SignalTask` wakes one of the sleepers, whichever. A packet stands for
everything a worker stores, an error of the encoder too. `Inside` maps to
`FrameService`: the frames `received` + 1 to `sent`, with a depth of
`ThreadCount` + 1.

### SliceThreads

`current_job` first numbers the workers, then hands out the jobs beyond the
first `ThreadCount`, and tells the end when it is `ThreadCount` + `job_count`.
The nested loops of `worker` are `Start`, `Look` and `Finish`, which end in
`Continue` (the outer loop) and `Rest` (the inner one). `Execute` and `Unpark`
are `thread_execute` with `thread_park_workers`. Jobs are plain, or rows of a
wavefront: `Await`, `Decode`, `EndRow` are the calls of
`ff_thread_await_progress2` and `ff_thread_report_progress2` in
`hls_decode_entry_wpp`. A row that waits is one that will be signalled by the
row above it, on a condition variable shared with all rows of the same
remainder. Rows that end with an error return without a report (`hevc.c:2387`,
`hevc.c:2410`) and are left out.

### FrameThreads

The caller is one automaton: `submit_packet` (`LockThread` to `Submitted`), the
search for a frame (`FetchSleep`, `Fetch`), `park_frame_worker_threads` for
flush and close, the joins. A worker is another: its loop (`Test`), the codec's
`decode()` as the calls it makes (`GetBuffer`, `FinishSetup`, `AwaitProgress`,
`ReportProgress`), and its return. `context[p]` abstracts the codec's context
to the last packet whose headers it knows, `owner` to the thread whose
condition variable announces a picture: two fields of one frame announce on the
same one. `Serve` wakes any of the threads that wait on the condition variable,
as `pthread_cond_signal` may. Whether a packet gives a frame is open.

Assumed of the codecs, since their code is not modelled: a codec reports its
picture complete before it returns (the guard of `DecodeReturns`), it asks for
a buffer once and only while it is setting up, and it waits for the picture of
the packet before, or for none. Both decoders of the build that use these
threads, H.264 and PNG, define `update_thread_context`; what the code does for
others is left out.

### X264Encoder

The caller puts frames into `ifbuf` (`Encode`, `PutFrame`), takes a group
(`GetFrames`, or `DecideFrames` without a lookahead thread), starts one frame
of it (`TakeFrame`) and ends the oldest (`EndFrame`). The lookahead moves
frames to `next`, decides a group, which it rewrites to coded order, and moves
it to `ofbuf`. `Flush` and `CountDelayed` are the loop of `X264_frame` at the
end of the stream, `Close` and the joins `x264_encoder_close`. How long a group
is and which of its B-frames are references depends on the pictures:
`CodedOrders` are all orders the code can produce. A frame thread may wait for
the rows of every frame started before it. Input, coded and output order are
tied by the two services.

## Runs

| run | instance | what it shows |
| --- | --- | --- |
| `player_any` | UI thread and two workers, all may stop; 22,687 states | the safety of `MediaPlayer`, that `stop()` gets to the release, and the refinement of `PlaybackIntent` with its liveness |
| `events_order` | one player, one worker, four events of any kind; 761,614 states | the order of onPlay, onComplete, onStopped; the end of the media is reported |
| `events_stop` | two players, two events, stop() on the UI thread; 1,252,467 states | nothing is called after `stop()`; the handler throws only for a player that was stopped, and only where nothing is tested; onPostPosition has a target; the walk over a list that changes |
| `events_todo` | one player, one worker, one event | violated: the null reference of the TODO at `ZMediaPlayer.java:407` |
| `view_players` | two players on the view, one for audio, two requests each; 295,858 states | the four properties of `ViewPlayers` |
| `media` | three threads, four media; 9,177 states | the references are balanced |
| `layout` | three containers, five videos, all modes, with and without `videoHeight`, errors up to a thousandth of a pixel; 1,147,065 states | the picture fits to a pixel, and differs by two pixels at most between the editions |
| `options` | devices and preferences around 1200 MHz, 2 processors, the bounds of the level and of the cache, a level that is no number; 24,240 states | a faster device does not skip more |
| `encoder_threads` | three workers, a ring of six, eight frames; 21,294 states | packets come in order, none is overwritten, calls return |
| `slice_threads` | three workers, two calls of 1, 3 or 5 jobs or rows, three blocks a row; 27,007 states | `execute` is a barrier, the signals are enough, calls return |
| `frame_threads` | three threads, four packets, H.264 with callbacks of the application and PNG with the default ones; 264,809 states | contexts are complete, results come in order and once, calls return |
| `x264_encoder` | four parameter sets, eight frames; 270,624 states | both services, room in the lists, the bound of the delay, the flush loses nothing, calls return |

Bounds. Two workers beside the UI thread give every race of two in `stop()`
with a third in `play()`; calls are unbounded in number, the state is finite.
`MaxCasts` bounds the events: four are enough for a run of the media to end and
start again (position, end, position, stopped), two for a message that was sent
while another is handled. Two players give a walk that loses the handler at its
index or before it, and two walks at once. `MaxRequests` is two: one before and
one after the surface. Three threads and four media let two `play()` race with
each other and with the release, once more after it. The containers of `layout`
are upright, wide and empty; its videos are of the upright container's shape,
where rounding decides, wide, cropped, with other than square pixels, and of
size zero. `Precision` is 1000: with lengths this small every error below it
rounds the same way. In `events_stop` players are
interchangeable and the run has no temporal property, so it uses symmetry.

In the C modules three threads are the least for which a signal can go to the
wrong one of two sleepers and for which the ring of threads has a member that
is neither the oldest nor the newest. Eight frames go around a ring of six and
fill it; `BufferSize` is twice `ThreadCount`, as `BUFFER_SIZE` is twice
`MAX_THREADS`. One, three and five jobs are fewer than the workers, as many,
and more; the second call finds workers that have not seen the first. A row of
three blocks with `SHIFT_CTB_WPP` (2) waits in its beginning, in its middle and
for the end of the row above. Four packets let a thread of three be used twice,
also after a flush. The parameter sets of `x264_encoder` are those where the
limits differ: with the lookahead thread and a long or a short group, without
it, and with a single thread; `MaxThreads` is the largest number of frame
threads among them, in place of `X264_THREAD_MAX`; eight frames are more than
the encoder delays, so that frames come out before the flush and during it.

Deadlock is checked for `HookedMediaPlayer`, `ViewPlayers` and `PlayerLayout`.
`PlayerEvents` really stops when the events are used up and all players are
stopped, or after an exception, and `MediaOwnership` when all media were
played; the options are built once; the C modules stop when the codec is
closed. Their property `CallsReturn` says that they stop nowhere else.

Fairness. `HookedMediaPlayer`: threads run, and a thread that waits for the
monitor is not overtaken for ever (strong fairness of each thread's steps; the
critical sections are short and finite, and the callers are few). No fairness
for calls, surfaces or the end of the media. `PlayerEvents`: the looper, the
event threads in a walk and the threads in `stop()` go on (weak fairness), and
the application returns from its callbacks. No event has to happen. The C
modules: every thread runs, and a call under way goes on (weak fairness, one
condition for each thread); no call has to be made, no opening has to go on. A
worker that is woken and finds its task taken sleeps again: weak fairness does
not promise that it ever gets one, and no property needs it.

## Proofs

`HookedMediaPlayer_proofs` proves, for any sets of workers and stoppers, type
correctness, `PendingIsServed`, `EngineHasSession`, `NativeReleaseOnce`,
`VideoOffOnlyWithoutSurface`, the action property `LostSurfaceStopsVideo`, and
that every step is a step or a stutter of `PlaybackIntent` (`SafeSpec`). None
of the invariants is inductive: they need who holds the monitor at which label,
that `ready` is only reached with the request served by the callback, that a
thread at `nativeRelease` is alone there, and that the helper is gone once the
window was left. `IInv` is that conjunction; it rests on `ThreadAssumption`
only (the UI thread is no worker, `NoThread` is no thread). `UiStopIsSafe`
proves `NothingUncaughtOnUi`, which no run checks, for any workers: with
`stop()` on the UI thread only, neither its `nativeStop` nor the `nativePlay` of
`onSurfacesCreated` meets a player that is gone. Its invariant `UiInv` says that
the window then changes under the UI thread's own steps, and that a player that
is gone has no helper left that a surface could reach.

`PlayerEvents_proofs` proves the type invariant of `PlayerEvents` and its six
others that the runs check, for any number of players, workers and events, from
`EventAssumption`. `Registered` says that messages, walks and the list only
name players that were constructed. `Running` ties three things that the code
never compares: the handler's flag `isOnPlayCallback`, the phase the
application has been told, and the step the handler is at. It has to say at
which steps flag and phase may differ (between the callback and the assignment
that follows it) and that nothing is claimed of a player that was stopped
meanwhile. `Walk` is about the unlocked list: a handler the walk has reached
and that is still in the list lies before its index, and the handlers before
its index that it has not reached are at most as many as were removed; removing
one moves one more handler before the index, and no more (`WalkRemove`).
`Stopping`, for `NothingAfterStop` and `PostPositionHasTarget`, is an invariant
when no worker stops a player (`Workers = {}`): then `stop()` runs between two
messages or inside a callback, and the rest of a handler finds callback and
engine both there or both gone. `Crashing`, for `CrashOnlyAfterStop`, adds
where an exception can have come from: only from a step without a test of
`callBack` before it, in a message that came late or after a callback that
stopped the player. The queue after `removeCallbacksAndMessages` (`Purged`) is
defined by the rank of the messages that stay; that every rank has a message
needs no induction but that a set of indices maps one-to-one onto its ranks.

`ViewPlayers_proofs` proves the properties of `ViewPlayers` for any number of
players and requests, from `PlayerAssumption`. The invariant adds to them:
`Life` (how the sets follow a player's life), `Alone` (a player that never met
another is the only live one, and the listener is its own while it is READY or
waits), `Counted` (how requests and plays are counted).

`ZMediaPlayer_proofs` proves the properties of `MediaOwnership`, for any
threads and media, and of `VlcOptions`. The core of the first invariant is
`Counted`: the count of a media is the number of its holders, which are the
`play()` that created it and the player. After a failed `setMedia`, which
releases `mMedia` a second time, the count is only bounded by it. `Distinct`
(no two threads have the same media) and `OneRelease` (failures come after the
release) support it.

`EncoderThreads_proofs` proves `RoomForTasks` and the whole refinement of
`FrameService` (its specification has no liveness), for any number of workers
and frames. The invariant says where the tasks of the frames `received` + 1 to
`sent` are: in the fifo, in their order; in a worker; or in the ring, each
under its own index. That no two of them share an index is the lemma
`SameSlot`: fewer than `BufferSize` numbers are pending, which is `Bounds`, the
caller's test. The assumption is that the ring has twice as many places as
there are workers.

`SliceThreads_proofs` proves `JobsRunOnce` and `OneSleeper`, for any number of
workers, calls, jobs and blocks. `Counted` says what `current_job` is: the
workers that have a number plus the jobs that have ended. From it follows that
the count reaches `ThreadCount` + `job_count` only when all jobs have ended.
`Taken`, `OneEach` and `Unseen` say who may still do which job. `RowsFit`
orders the rows: a row that has ended has ended rows above it. A row j +
`ThreadCount` is drawn when j + 1 rows have ended, which are therefore the rows
up to j: two rows of the same remainder do not wait together. It needs `Shift`
to be at least 2, as `SHIFT_CTB_WPP` is: with 1 a row can decode its last block
before the row above has ended.

`FrameThreads_proofs` proves `ContextComplete` and `FrameOnce`, and that
`FrameThreads` implements `FrameService`, for any number of threads and packets
and any codecs. `Setup` says that at most one thread is setting up, the one with
the newest packet, from the context of all packets before it; the context of the
newest thread that has finished its setup is complete, and after a flush that of
thread 0 is. `Results` says that a thread at work has a packet whose result is
due; `Parked` that those a flush has waited for are not used until it is over.

The refinement (`ResultsInOrder`) needs `Queue` besides: seen from
`next_finished`, the last d packets are in d threads that follow each other
around the ring and end before `next_decoding`, and the results of those after
the first a are due (`Span`). While a call looks for a frame, the thread at
`cursor` is one of the first a or the next; this is why the result it takes is
the oldest, and why the search that gives up once around has taken all. Between
calls d is less than `ThreadCount`, which is the room for the packet the next
call hands in. `delaying` matters: until the ring is full for the first time,
`next_decoding` has not wrapped. The mapping puts the packets that are due in
order by counting those before each (`Inside`); `Ranked` computes it for a set
of consecutive numbers.

`X264Encoder_proofs` proves the four invariants of `X264Encoder` and that it
implements `ReorderService` and `FrameService`, for any number of frames and
any parameters that satisfy `ParamsAssumption`: `slicetype_length` is at least
`bframes`, there are from one to `MaxThreads` frame threads, and a single one
has no lookahead thread. None of the four is inductive. The invariant has these
parts:

- `Lists` numbers the frames: `coded`, then `Taken`, `Offered` and `Seen` are
  where `current`, `ofbuf`, `next` and `ifbuf` begin. A list is in line before
  the decision; `ofbuf` is a sequence of groups, each a permutation of
  consecutive frames with the last one in front (`IsGroup`), and begins where
  the sizes in `i_bframes` say. This is the reason why `GroupSize`, read from
  the frame at the head of a list, is the length of a group that is there
  (`ListsHaveRoom`), and why every frame between `coded` and `i_input` is in
  one list.
- `Bounded` and `Filling`: a frame is taken as soon as more than `Fill` are
  inside, and none before. `DelayBounded` and the room in the lists follow by
  counting; the list behind a full one is short, since the sum is bounded.
- `Steps` ties the flags of the lookahead's end to where it is and to which
  lists are empty; it says that the caller finds no frame only when the flush
  has reached the end.
- `Ring`: the frame thread t has the frame that was started `Age(t)` calls ago,
  so that `Oldest` has the next one due. This holds only while every call
  starts a frame; once the flush makes calls that start none, the ages are
  ahead by `lag`.
- `Pool`: a frame thread without output has one job, queued or at work.
  `written` then is a subset of `active`, on which the count of delayed frames
  relies.
- `Drained`: after the last call of the flush everything is received. That
  `Delayed` = 0 means that no frame is left needs all of the above.

For the refinement (`KeepsOrder`), `Contents` computes `Inside`, a set of the
frames in four lists, from the positions: it is the rest of the group in
`current` and all frames from `Taken` to `i_input`. Between two groups these
are `coded` + 1 to `i_input`, and the next frame started is an anchor; within a
group the next is displayed before the anchor.

`ZMediaPlayer_proofs` further proves `FasterSkipsNoMore` of `VlcOptions` for all
speeds, processors and preferences. It proves of any two options that were built
what the run looks at around the boundaries.

It proves the four invariants of `PlayerLayout` too, for all sizes of containers
and videos. `LayoutAssumption` asks of a video that has a size that its visible
part has one and that its pixel ratio is 0:0 or a fraction, and of
`playerSizeMode` that it is one of the seven the switch knows (any other number
does what `PLAYER_FILL` does). The inductive invariant is short: while `fresh`,
the layout is one of those `ViewSizes` gives now (`LaidOut`), and without a
pending pass the measured size is one of those `Measure` gives now
(`MeasuredNow`): whatever changes what they depend on resets `fresh` and
requests a pass. The work is in the arithmetic. `UpTo` and `DownTo` bound a
length that was rounded up, or down, by products, and `AtMost` and `AtLeast` the
exact length by an integer; each is off by an error, and two errors do not add
up to a pixel (`TwoErrors`), which is what `Precision >= 3` is needed for.
`Shown` gives the fractions a view is computed from, with the ratio between its
sides, and `RatioLess` cancels them: with one pixel and the error less in width
the visible picture would be narrower than its ratio, with as much less in
height wider (`ShapeKept`). `UpToAtMost` gives the pixel by which a picture may
exceed its window (`WindowKept`); `UpCoversDown` compares the rounding up of one
edition with the rounding down of the other, and `SameSize` the cases in which
the two took different sides of a box that has the video's shape
(`EditionsAgree`). Both bounds are reached: with less the runs fail, and the
code itself gives 441 against 439 for a video of 737x603 in 440x360.

`FasterSkipsNoMore` says when -1 is handed to libvlc too: for a device that is
not known, or a preference that is no number.

Only model-checked: liveness (`StopReleases`, `EndReported`, the liveness of
`PlaybackIntent`, the four `CallsReturn`), which is out of the prover's reach.

## What the models say of the code

- `ZMediaPlayer.java:407`: the TODO is right for a `stop()` on another thread.
  A `stop()` from inside `onPlay` ends in an `IllegalStateException` of
  `getPosition()` instead, before the null reference (run `events_stop` shows
  that the null reference is not reached there).
- `getDeblocking` and its comment differ for devices that are not ARMv7: the
  comment restricts level 1 to ARMv7, the code does not. The log message at
  line 242 is wrong when the frequency is known and low. Both can be read off
  `DefaultDeblocking`.
- With `stop()` on several threads an exception can leave it: the second
  `nativeStop` may meet a released player. `NothingUncaughtOnUi` holds when
  only the UI thread stops, which is what `UiStopIsSafe` proves.
- `changePlayerLayout` swaps the container's width and height when its shape
  contradicts the orientation. That fits the decor view its comment speaks of.
  A 16:9 strip on an upright device is laid out for the box that has the
  strip's sides exchanged.
- `changePlayerLayout` is called when libvlc reports a size and at no other
  time. If the container is empty then, or turns later, the view keeps an old
  layout. `ZMediaPlayer2` with `PlayerTextureView` follows its container
  (`MeasuredFits`).
- `play()` on a stopped player ends with an exception between `setMedia` and
  `media.release()`, and the media stays allocated. `HeldIsAlive` and
  `ReleasedWhenUnused` exclude these media by `failed`.
- `Math.ceil` of a double makes pictures that should fill their container
  exactly a pixel larger than it, when the division left the double just above
  an integer.
- A preference for the deblocking that is no number hands libvlc -1, past the
  default for the device that a negative number would get.
- `attached` is not reset when the view loses its surface: a later `requestPlay`
  starts an engine without a window. `StartsOnSurface` does not exclude it; it
  speaks of a view that has not lost a surface yet.
- A player whose view was taken over by another loses its listener
  (`TextureViewPlayer.java:38`); `RequestServed` and the part of `SurfaceKnown`
  about READY promise it nothing.
- The call of onPlay in the case EndReached sets no flag; as it ends the run,
  `OnPlayOncePerRun` counts a call after it to the next one. A `get(i)` behind
  the end of the list of handlers throws on libvlc's event thread; in the model
  it ends the walk, which `WalkReaches` allows when a handler was removed.
- Nothing releases the `LibVLC` that every player creates (the line in
  `release()` is commented out).
- `ff_frame_thread_encoder_free` frees neither the packets that are in the ring
  nor the frames of the tasks that are in the fifo: a close without a drain
  leaks them. `FrameService` allows the drop; memory is not part of the model.
- `BUFFER_SIZE` is larger than need be: at most `ThreadCount` + 1 tasks are
  pending, and nothing but the caller's count bounds them.
- Two signals could be expected to be broadcasts. That of `pthread_slice.c:260`
  goes to a condition variable with one sleeper at most (`OneSleeper`): a
  worker draws row j + `ThreadCount` only when j + 1 rows have ended, and rows
  end in order, so that row j does not wait any more. That of
  `pthread_frame.c:399`, the answer to `get_buffer`, may really wake another
  thread, one that waits for the second field of a frame whose first field this
  thread decoded. The one who asked sleeps on, until the picture of that field
  is complete: its report is a broadcast on the same condition variable. The
  answer is late and not lost (`CallsReturn`).

## Not modelled

- The rest of the vendored code: codecs, formats, filters, tables and assembly
  are sequential signal processing, out of the reach of a model of this kind
  and no part of how ZenMediaLib works; by lines they are almost all of the
  repository. Build scripts and the application template.
- Forwarding methods of the Java classes (rate, volume, tracks, titles),
  `getMedia`, which nothing calls; the callback wrappers, which only delegate;
  wording of logs.
- Slice threads: `ff_alloc_entries`, rows that end with an error. The HEVC
  decoder, which alone would show the latter, is not in the build.
- Frame threads: codecs without `update_thread_context`,
  `ff_thread_release_buffer` and the buffers whose release it delays, the
  progress of a picture row by row; an `update_thread_context` that fails, for
  want of memory, in `ff_thread_flush`, which does not look at its result
  (`pthread_frame.c:754`).
- libx264: the analysis, sliced threads, `x264_encoder_open`, reconfiguration,
  the pool of lookahead threads, OpenCL, calls that fail for want of memory; a
  picture after the flush, which `x264_encoder_encode` refuses after it has
  moved on to the next frame thread (`encoder.c:3250`) and which `X264_frame`
  does not hand in after the end of the stream. Without the lookahead thread a
  group goes to `current` by way of `ofbuf`; the model takes it at once, and
  `ListsHaveRoom` does not speak of that move.

## Left to do

1. `ViewRequests`: `requestPlay` on another thread against
   `handleSurfaceAvailable`, with the plain fields `attached` and
   `requestPlay`; several players on a SurfaceView, whose callbacks are a list.
2. `PlayerEvents`: the `ZMediaPlayer2` edition (a set of players whose
   `EndReached` does not call onPlay; both editions share one `EventHandler`),
   a callback that waits for the thread in `stop()` (the deadlock at 381), and
   a refinement of an abstract "story" of a player (told nothing, running,
   complete, stopped).
3. `SavedPosition`: the position that `pause` saves and `resume` restores,
   against `seekTo`, `simplePause`, `play` and the end of the media.
4. An abstract specification for `MediaOwnership` (a media exists from its
   creation to its last holder) and its refinement.
5. `FrameThreads`: the buffers that `ff_thread_release_buffer` keeps back until
   their thread is used again, against flush and close.
