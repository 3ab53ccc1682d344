------------------------- MODULE HookedMediaPlayer -------------------------
(***************************************************************************)
(* One org.videolan.libvlc.MediaPlayer (the class this repository replaces *)
(* in libvlc) with the window it owns (AWindow, in the libvlc archive), as *)
(* used by ZMediaPlayer: play() and pause() from any thread, stop() from   *)
(* the threads in Stoppers, the surface callbacks on the UI thread.        *)
(*                                                                         *)
(* play, stop, onSurfacesCreated and onSurfacesDestroyed run under the     *)
(* monitor of the MediaPlayer; the state of the window is an atomic        *)
(* integer that is read and written outside that monitor.  The steps below *)
(* are the accesses to shared state, in the order of the code.             *)
(*                                                                         *)
(* The constructor has run: the view is attached, with or without a        *)
(* surface.  A TextureView is only ever attached with one; for a           *)
(* SurfaceView getSurface() is never null, so the view is attached at once *)
(* and the surface may come later.                                         *)
(***************************************************************************)
EXTENDS Integers

CONSTANTS Ui,        \* the UI thread, which runs the surface callbacks
          Workers,   \* the other threads of the application
          Stoppers,  \* the threads that call ZMediaPlayer.stop() or release()
          NoThread   \* the monitor's owner when it is free

Threads == Workers \cup {Ui}

ASSUME ThreadAssumption ==
  /\ Ui \notin Workers
  /\ NoThread \notin Threads
  /\ Stoppers \subseteq Threads

VARIABLES
  mPlaying,        \* MediaPlayer.mPlaying
  mPlayRequested,  \* MediaPlayer.mPlayRequested
  monitor,         \* the thread inside a synchronized method, or NoThread
  mSurfacesState,  \* AWindow: "init", "attached" or "ready"
  helper,          \* AWindow: the video SurfaceHelper is in its slot, its
                   \* callback registered with the view
  mSurface,        \* SurfaceHelper.mSurface is set
  viewUp,          \* the view has a valid Surface
  stopped,         \* ZMediaPlayer.stopped
  mNativeRefCount, \* VLCObject: the references held on the player
  alive,           \* the native player exists: native calls do not throw
  engine,          \* the native player: "idle", "playing" or "paused"
  videoTrack,      \* the native video track is enabled
  pc,              \* pc[t]: the step thread t takes next
  stopping,        \* stopping[t]: t is inside ZMediaPlayer.stop()
  replaying,       \* play() runs inside onSurfacesCreated
  uncaught         \* an exception has left stop() or a surface callback

playVars == <<mPlaying, mPlayRequested, replaying>>
windowVars == <<mSurfacesState, helper, mSurface>>
nativeVars == <<alive, engine, videoTrack>>
lifeVars == <<stopped, mNativeRefCount>>
vars == <<playVars, monitor, windowVars, viewUp, lifeVars, nativeVars, pc,
          stopping, uncaught>>

Labels == {"idle",
           "gate", "start",                              \* play
           "stopSet", "stopEnter", "stopNative",         \* stop
           "detach", "drop", "destroyed",                \* detachViews
           "release", "nativeRelease",                   \* release
           "setSurface", "created", "ready", "callback"} \* setSurface

Init ==
  /\ mPlaying = FALSE /\ mPlayRequested = FALSE
  /\ monitor = NoThread
  /\ viewUp \in BOOLEAN
  /\ mSurfacesState = IF viewUp THEN "ready" ELSE "attached"
  /\ helper = TRUE /\ mSurface = viewUp
  /\ stopped = FALSE /\ mNativeRefCount = 1
  /\ alive = TRUE /\ engine = "idle" /\ videoTrack = TRUE
  /\ pc = [t \in Threads |-> "idle"]
  /\ stopping = [t \in Threads |-> FALSE]
  /\ replaying = FALSE /\ uncaught = FALSE

Goto(t, label) == pc' = [pc EXCEPT ![t] = label]
areSurfacesWaiting == mSurfacesState = "attached"
isReleased == mNativeRefCount = 0

\* A native method on a player whose instance is gone throws: the call under
\* way ends, and the exception leaves stop() or the surface callback.
Throw(t) ==
  /\ Goto(t, "idle")
  /\ stopping' = [stopping EXCEPT ![t] = FALSE]
  /\ uncaught' = TRUE

----------------------------------------------------------------------------
(* play(), from requestPlay and resume *)

PlayCall(t) ==
  /\ pc[t] = "idle" /\ monitor = NoThread
  /\ monitor' = t
  /\ \/ /\ mPlaying
        /\ Goto(t, "start")
        /\ UNCHANGED mPlayRequested
     \/ /\ ~mPlaying
        /\ mPlayRequested' = TRUE
        /\ Goto(t, "gate")
  /\ UNCHANGED <<mPlaying, replaying, windowVars, viewUp, lifeVars, nativeVars,
                 stopping, uncaught>>

\* Mutant of Gate: the surface gate is missing.
GateOpen(t) ==
  /\ pc[t] = "gate"
  /\ Goto(t, "start")
  /\ UNCHANGED <<playVars, monitor, windowVars, viewUp, lifeVars, nativeVars,
                 stopping, uncaught>>

\* `if (areSurfacesWaiting()) return`: the request stays for onSurfacesCreated.
Gate(t) ==
  /\ pc[t] = "gate"
  /\ \/ /\ areSurfacesWaiting
        /\ monitor' = NoThread
        /\ replaying' = (replaying /\ t # Ui)
        /\ Goto(t, "idle")
     \/ /\ ~areSurfacesWaiting
        /\ Goto(t, "start")
        /\ UNCHANGED <<monitor, replaying>>
  /\ UNCHANGED <<mPlaying, mPlayRequested, windowVars, viewUp, lifeVars,
                 nativeVars, stopping, uncaught>>

\* mPlaying is set before nativePlay throws on a player that is gone: out of
\* play(), to its caller, or out of the surface callback that called it again.
Start(t) ==
  /\ pc[t] = "start"
  /\ mPlaying' = TRUE
  /\ engine' = IF alive THEN "playing" ELSE engine
  /\ uncaught' = (uncaught \/ (~alive /\ replaying /\ t = Ui))
  /\ replaying' = (replaying /\ t # Ui)
  /\ monitor' = NoThread
  /\ Goto(t, "idle")
  /\ UNCHANGED <<mPlayRequested, windowVars, viewUp, lifeVars, alive,
                 videoTrack, stopping>>

PauseCall(t) ==
  /\ pc[t] = "idle" /\ alive /\ engine = "playing"
  /\ engine' = "paused"
  /\ UNCHANGED <<playVars, monitor, windowVars, viewUp, lifeVars, alive,
                 videoTrack, pc, stopping, uncaught>>

\* The media ends or fails.  onEventNative is hooked to return null, so no
\* Java state follows.
EngineEnds ==
  /\ engine # "idle"
  /\ engine' = "idle"
  /\ UNCHANGED <<playVars, monitor, windowVars, viewUp, lifeVars, alive,
                 videoTrack, pc, stopping, uncaught>>

----------------------------------------------------------------------------
(* ZMediaPlayer.stop() *)

\* `if (stopped) return`, and `stopped = true` in a step of its own: the field
\* is volatile, the test and the assignment are not one step.
StopCall(t) ==
  /\ pc[t] = "idle" /\ t \in Stoppers /\ ~stopped
  /\ Goto(t, "stopSet")
  /\ stopping' = [stopping EXCEPT ![t] = TRUE]
  /\ UNCHANGED <<playVars, monitor, windowVars, viewUp, lifeVars, nativeVars,
                 uncaught>>

StopSet(t) ==
  /\ pc[t] = "stopSet"
  /\ stopped' = TRUE
  /\ Goto(t, "stopEnter")
  /\ UNCHANGED <<playVars, monitor, windowVars, viewUp, mNativeRefCount,
                 nativeVars,
                 stopping, uncaught>>

StopEnter(t) ==
  /\ pc[t] = "stopEnter" /\ monitor = NoThread
  /\ monitor' = t
  /\ mPlayRequested' = FALSE /\ mPlaying' = FALSE
  /\ Goto(t, "stopNative")
  /\ UNCHANGED <<replaying, windowVars, viewUp, lifeVars, nativeVars, stopping, uncaught>>

StopNative(t) ==
  /\ pc[t] = "stopNative"
  /\ monitor' = NoThread
  /\ \/ /\ alive
        /\ engine' = "idle"
        /\ Goto(t, "detach")
        /\ UNCHANGED <<stopping, uncaught>>
     \/ /\ ~alive
        /\ Throw(t)
        /\ UNCHANGED engine
  /\ UNCHANGED <<playVars, windowVars, viewUp, lifeVars, alive, videoTrack>>

----------------------------------------------------------------------------
(* AWindow.detachViews(), from stop() and when the view loses its surface *)

\* Mutant of AfterDetach: stop() returns without mediaPlayer.release().
AfterDetachReturn(t) == "idle"

AfterDetach(t) == IF stopping[t] THEN "release" ELSE "idle"

\* Mutant of Detach: the helper stays in its slot.
DetachKeepHelper(t) ==
  /\ pc[t] = "detach"
  /\ mSurfacesState' = "init"
  /\ Goto(t, IF mSurfacesState = "init" THEN AfterDetach(t) ELSE "destroyed")
  /\ UNCHANGED <<playVars, monitor, helper, mSurface, viewUp, lifeVars,
                 nativeVars, stopping, uncaught>>

Detach(t) ==
  /\ pc[t] = "detach"
  /\ mSurfacesState' = "init"
  /\ Goto(t, IF mSurfacesState = "init" THEN AfterDetach(t) ELSE "drop")
  /\ UNCHANGED <<playVars, monitor, helper, mSurface, viewUp, lifeVars,
                 nativeVars, stopping, uncaught>>

\* SurfaceHelper.release() and the slot set to null.
Drop(t) ==
  /\ pc[t] = "drop"
  /\ helper' = FALSE /\ mSurface' = FALSE
  /\ Goto(t, "destroyed")
  /\ UNCHANGED <<playVars, monitor, mSurfacesState, viewUp, lifeVars,
                 nativeVars, stopping, uncaught>>

\* Mutant of onSurfacesDestroyed: the method is not synchronized.
onSurfacesDestroyedUnlocked(t) ==
  /\ pc[t] = "destroyed"
  /\ videoTrack' = (videoTrack /\ ~mPlaying)
  /\ Goto(t, AfterDetach(t))
  /\ UNCHANGED <<playVars, monitor, windowVars, viewUp, lifeVars, alive,
                 engine, stopping, uncaught>>

onSurfacesDestroyed(t) ==
  /\ pc[t] = "destroyed" /\ monitor = NoThread
  /\ \/ /\ mPlaying /\ ~alive
        /\ Throw(t)
        /\ UNCHANGED videoTrack
     \/ /\ alive \/ ~mPlaying
        /\ videoTrack' = (videoTrack /\ ~mPlaying)
        /\ Goto(t, AfterDetach(t))
        /\ UNCHANGED <<stopping, uncaught>>
  /\ UNCHANGED <<playVars, monitor, windowVars, viewUp, lifeVars, alive,
                 engine>>

----------------------------------------------------------------------------
(* VLCObject.release(): the count under the monitor, then onReleaseNative
   under the monitor again *)

\* Mutant of Release: the caller that finds the count at zero does not return.
ReleaseNoReturn(t) ==
  /\ pc[t] = "release" /\ monitor = NoThread
  /\ mNativeRefCount' = 0
  /\ Goto(t, "nativeRelease")
  /\ UNCHANGED <<playVars, monitor, windowVars, viewUp, stopped, nativeVars,
                 stopping, uncaught>>

Release(t) ==
  /\ pc[t] = "release" /\ monitor = NoThread
  /\ \/ /\ isReleased
        /\ Goto(t, "idle")
        /\ stopping' = [stopping EXCEPT ![t] = FALSE]
        /\ UNCHANGED mNativeRefCount
     \/ /\ ~isReleased
        /\ mNativeRefCount' = mNativeRefCount - 1
        /\ Goto(t, "nativeRelease")
        /\ UNCHANGED stopping
  /\ UNCHANGED <<playVars, monitor, windowVars, viewUp, stopped, nativeVars,
                 uncaught>>

onReleaseNative(t) ==
  /\ pc[t] = "nativeRelease" /\ monitor = NoThread
  /\ alive' = FALSE
  /\ engine' = "idle"
  /\ Goto(t, "idle")
  /\ stopping' = [stopping EXCEPT ![t] = FALSE]
  /\ UNCHANGED <<playVars, monitor, windowVars, viewUp, lifeVars, videoTrack,
                 uncaught>>

----------------------------------------------------------------------------
(* Surface callbacks, on the UI thread *)

SurfaceCreated ==
  /\ pc[Ui] = "idle" /\ ~viewUp
  /\ viewUp' = TRUE
  /\ Goto(Ui, IF helper THEN "setSurface" ELSE "idle")
  /\ UNCHANGED <<playVars, monitor, windowVars, lifeVars, nativeVars,
                 stopping, uncaught>>

SurfaceDestroyed ==
  /\ pc[Ui] = "idle" /\ viewUp
  /\ viewUp' = FALSE
  /\ Goto(Ui, IF helper THEN "detach" ELSE "idle")
  /\ UNCHANGED <<playVars, monitor, windowVars, lifeVars, nativeVars,
                 stopping, uncaught>>

\* SurfaceHelper.setSurface takes a surface once.
SetSurface ==
  /\ pc[Ui] = "setSurface"
  /\ mSurface' = TRUE
  /\ Goto(Ui, IF mSurface THEN "idle" ELSE "created")
  /\ UNCHANGED <<playVars, monitor, mSurfacesState, helper, viewUp, lifeVars,
                 nativeVars, stopping, uncaught>>

\* AWindow.onSurfaceCreated: IllegalArgumentException unless ATTACHED.
CheckAttached ==
  /\ pc[Ui] = "created"
  /\ \/ /\ areSurfacesWaiting
        /\ Goto(Ui, "ready")
        /\ UNCHANGED <<stopping, uncaught>>
     \/ /\ ~areSurfacesWaiting
        /\ Throw(Ui)
  /\ UNCHANGED <<playVars, monitor, windowVars, viewUp, lifeVars, nativeVars>>

\* NullPointerException if the slot is empty by now, else READY.
SetReady ==
  /\ pc[Ui] = "ready"
  /\ \/ /\ helper
        /\ mSurfacesState' = "ready"
        /\ Goto(Ui, "callback")
        /\ UNCHANGED <<stopping, uncaught>>
     \/ /\ ~helper
        /\ Throw(Ui)
        /\ UNCHANGED mSurfacesState
  /\ UNCHANGED <<playVars, monitor, helper, mSurface, viewUp, lifeVars,
                 nativeVars>>

\* Mutant of onSurfacesCreated: the test of mPlaying is inverted.
onSurfacesCreatedInverted ==
  /\ pc[Ui] = "callback" /\ monitor = NoThread
  /\ \/ /\ mPlaying /\ mPlayRequested
        /\ monitor' = Ui
        /\ replaying' = TRUE
        /\ Goto(Ui, "gate")
     \/ /\ ~mPlaying \/ ~mPlayRequested
        /\ Goto(Ui, "idle")
        /\ UNCHANGED <<monitor, replaying>>
  /\ UNCHANGED <<mPlaying, mPlayRequested, windowVars, viewUp, lifeVars,
                 nativeVars, stopping, uncaught>>

\* A request is pending: play(), re-entering the monitor, its first test and
\* assignment repeated to no effect.
onSurfacesCreated ==
  /\ pc[Ui] = "callback" /\ monitor = NoThread
  /\ \/ /\ ~mPlaying /\ mPlayRequested
        /\ monitor' = Ui
        /\ replaying' = TRUE
        /\ Goto(Ui, "gate")
     \/ /\ mPlaying \/ ~mPlayRequested
        /\ Goto(Ui, "idle")
        /\ UNCHANGED <<monitor, replaying>>
  /\ UNCHANGED <<mPlaying, mPlayRequested, windowVars, viewUp, lifeVars,
                 nativeVars, stopping, uncaught>>

----------------------------------------------------------------------------

\* A step that finishes a call that is under way.
Step(t) ==
  \/ Gate(t) \/ Start(t)
  \/ StopSet(t) \/ StopEnter(t) \/ StopNative(t)
  \/ Detach(t) \/ Drop(t) \/ onSurfacesDestroyed(t)
  \/ Release(t) \/ onReleaseNative(t)

UiStep == SetSurface \/ CheckAttached \/ SetReady \/ onSurfacesCreated

Next ==
  \/ \E t \in Threads : PlayCall(t) \/ PauseCall(t) \/ StopCall(t) \/ Step(t)
  \/ UiStep \/ SurfaceCreated \/ SurfaceDestroyed \/ EngineEnds

\* Threads are scheduled, and a thread that waits for the monitor is not
\* overtaken for ever.  Nothing forces a call, a surface or an end of media.
Fairness ==
  /\ \A t \in Threads : SF_vars(Step(t))
  /\ SF_vars(UiStep)

SafeSpec == Init /\ [][Next]_vars
Spec == SafeSpec /\ Fairness

----------------------------------------------------------------------------
(* Properties *)

TypeOK ==
  /\ mPlaying \in BOOLEAN /\ mPlayRequested \in BOOLEAN
  /\ monitor \in Threads \cup {NoThread}
  /\ mSurfacesState \in {"init", "attached", "ready"}
  /\ helper \in BOOLEAN /\ mSurface \in BOOLEAN /\ viewUp \in BOOLEAN
  /\ stopped \in BOOLEAN /\ mNativeRefCount \in 0..1
  /\ alive \in BOOLEAN /\ videoTrack \in BOOLEAN
  /\ engine \in {"idle", "playing", "paused"}
  /\ pc \in [Threads -> Labels]
  /\ stopping \in [Threads -> BOOLEAN]
  /\ replaying \in BOOLEAN /\ uncaught \in BOOLEAN

\* No thread is lost between the test of the window in play() and the callback
\* that ends the wait: a request that has not reached the engine is waiting
\* for a surface, or some thread is on its way to start it, or the player is
\* being stopped (MediaPlayer.play, onSurfacesCreated, stop).
PendingIsServed ==
  (mPlayRequested /\ ~mPlaying) =>
    \/ areSurfacesWaiting
    \/ \E t \in Threads : pc[t] \in {"gate", "start"}
    \/ pc[Ui] = "callback"
    \/ stopped

\* The Java side never believes the engine is off while it runs: whenever the
\* monitor is free, an engine that plays or is paused has mPlaying set, on
\* which onSurfacesDestroyed and the surface gate of play() rely.
EngineHasSession ==
  (engine # "idle" /\ monitor = NoThread) => mPlaying

\* The native player is released once, by the thread that took the count to
\* zero, however many threads got past the unsynchronized `stopped` test of
\* ZMediaPlayer.stop().
NativeReleaseOnce ==
  \A t, u \in Threads :
    (pc[t] = "nativeRelease") => /\ isReleased /\ alive
                                /\ (pc[u] = "nativeRelease" => t = u)

\* The video track is only ever disabled when the view is gone for good: no
\* surface is attached to a player whose video onSurfacesDestroyed turned off.
VideoOffOnlyWithoutSurface ==
  ~videoTrack => ~helper

\* When onSurfacesDestroyed returns, the engine does not play video to the
\* surface that was taken away, even if play() or stop() ran meanwhile.
LostSurfaceStopsVideo ==
  [][\A t \in Threads :
       (pc[t] = "destroyed" /\ pc'[t] # "destroyed") =>
         (engine # "playing" \/ ~videoTrack')]_vars

\* With stop() confined to the UI thread, no exception leaves stop() or the
\* surface callbacks, whatever the threads that call play() do.
NothingUncaughtOnUi ==
  (Stoppers \subseteq {Ui}) => ~uncaught

\* ZMediaPlayer.stop() takes effect: the native player is released in the end,
\* although it waits for the monitor four times.
StopReleases == stopped ~> ~alive

----------------------------------------------------------------------------
(* The promise of the class *)

Intent == INSTANCE PlaybackIntent WITH
  session <- IF mPlaying THEN "started"
             ELSE IF mPlayRequested THEN "pending" ELSE "none",
  waiting <- areSurfacesWaiting,
  engine <- engine,
  open <- alive

\* MediaPlayer implements PlaybackIntent: a request deferred by the surface
\* gate starts the engine by itself, once, and never after stop().
ImplementsIntent == Intent!Spec
=============================================================================
