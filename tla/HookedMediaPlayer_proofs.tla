---------------------- MODULE HookedMediaPlayer_proofs ----------------------
(***************************************************************************)
(* The inductive invariant of HookedMediaPlayer and what follows from it,  *)
(* for any set of worker threads and any set of threads that call stop().  *)
(***************************************************************************)
EXTENDS HookedMediaPlayer, TLAPS

\* Exactly the thread that is inside a synchronized method owns the monitor.
MonitorInv ==
  \A t \in Threads :
    (pc[t] \in {"gate", "start", "stopNative"}) <=> (monitor = t)

\* What play() has established when it is about to test the window, and when
\* it is about to call the engine.  The window never waits again once it has
\* stopped waiting, so the test stays true outside the monitor.
PlayInv ==
  /\ \A t \in Threads :
       /\ pc[t] = "gate" => (mPlayRequested /\ ~mPlaying)
       /\ pc[t] = "start" => (mPlayRequested /\ ~areSurfacesWaiting)
  /\ mPlaying => (mPlayRequested /\ ~areSurfacesWaiting)

\* The engine runs only for a session, or while stop() is silencing it.
EngineInv ==
  /\ engine # "idle" => alive
  /\ engine # "idle" =>
       (mPlaying \/ \E t \in Threads : pc[t] = "stopNative")

\* A window that waits has its helper, has no surface before the UI thread
\* hands it over, and is only detached by stop().
WindowInv ==
  /\ areSurfacesWaiting => helper
  /\ \A t \in Threads :
       /\ pc[t] = "drop" => ~areSurfacesWaiting
       /\ pc[t] = "destroyed" => ~helper
       /\ pc[t] \in {"stopEnter", "stopNative"} => stopped
       /\ (pc[t] = "detach" /\ areSurfacesWaiting) => stopped
  /\ (areSurfacesWaiting /\ viewUp) =>
       pc[Ui] \in {"setSurface", "created", "ready"}
  /\ (areSurfacesWaiting /\ mSurface) => pc[Ui] \in {"created", "ready"}

\* The references: the last one is given up once.
ReleaseInv ==
  /\ mNativeRefCount = 1 =>
       (alive /\ \A t \in Threads : pc[t] # "nativeRelease")
  /\ NativeReleaseOnce

IInv ==
  /\ TypeOK
  /\ MonitorInv
  /\ PlayInv
  /\ EngineInv
  /\ WindowInv
  /\ PendingIsServed
  /\ ReleaseInv
  /\ VideoOffOnlyWithoutSurface

----------------------------------------------------------------------------
(* Type correctness *)

LEMMA UiIsThread == Ui \in Threads
  BY DEF Threads

LEMMA InitTypeOK == Init => TypeOK
  <1> SUFFICES ASSUME Init PROVE TypeOK
    OBVIOUS
  <1>1. helper \in BOOLEAN /\ mSurface \in BOOLEAN /\ viewUp \in BOOLEAN
    BY Zenon DEF Init
  <1>2. pc \in [Threads -> Labels]
    BY DEF Init, Labels
  <1>3. stopping \in [Threads -> BOOLEAN]
    BY DEF Init
  <1>4. mNativeRefCount \in 0..1 /\ monitor \in Threads \cup {NoThread}
    BY DEF Init
  <1>5. mSurfacesState \in {"init", "attached", "ready"}
    BY DEF Init
  <1> QED
    BY <1>1, <1>2, <1>3, <1>4, <1>5 DEF Init, TypeOK

LEMMA NextTypeOK == TypeOK /\ [Next]_vars => TypeOK'
  <1> SUFFICES ASSUME TypeOK, [Next]_vars
               PROVE TypeOK'
    OBVIOUS
  <1> USE UiIsThread DEF TypeOK, playVars, windowVars, lifeVars, nativeVars,
          Goto, Throw, areSurfacesWaiting, isReleased, AfterDetach
  <1>1. ASSUME NEW t \in Threads, PlayCall(t) PROVE TypeOK'
    <2>1. pc' \in [Threads -> Labels]
      BY <1>1 DEF PlayCall, Labels
    <2> QED
      BY <1>1, <2>1, ZenonT(60) DEF PlayCall
  <1>2. ASSUME NEW t \in Threads, Gate(t) PROVE TypeOK'
    <2>1. pc' \in [Threads -> Labels]
      BY <1>2 DEF Gate, Labels
    <2>2. replaying' \in BOOLEAN
      BY <1>2, Zenon DEF Gate
    <2>3. monitor' \in Threads \cup {NoThread}
      BY <1>2 DEF Gate
    <2>4. UNCHANGED <<mPlaying, mPlayRequested, windowVars, viewUp, lifeVars,
                      nativeVars, stopping, uncaught>>
      BY <1>2 DEF Gate
    <2> QED
      BY <2>1, <2>2, <2>3, <2>4
  <1>3. ASSUME NEW t \in Threads, Start(t) PROVE TypeOK'
    <2>1. pc' \in [Threads -> Labels]
      BY <1>3 DEF Start, Labels
    <2> QED
      BY <1>3, <2>1 DEF Start
  <1>4. ASSUME NEW t \in Threads, PauseCall(t) PROVE TypeOK'
    BY <1>4 DEF PauseCall
  <1>5. ASSUME NEW t \in Threads, StopCall(t) PROVE TypeOK'
    <2>1. pc' \in [Threads -> Labels]
      BY <1>5 DEF StopCall, Labels
    <2> QED
      BY <1>5, <2>1 DEF StopCall
  <1>6. ASSUME NEW t \in Threads, StopSet(t) PROVE TypeOK'
    <2>1. pc' \in [Threads -> Labels]
      BY <1>6 DEF StopSet, Labels
    <2> QED
      BY <1>6, <2>1 DEF StopSet
  <1>7. ASSUME NEW t \in Threads, StopEnter(t) PROVE TypeOK'
    <2>1. pc' \in [Threads -> Labels]
      BY <1>7 DEF StopEnter, Labels
    <2> QED
      BY <1>7, <2>1 DEF StopEnter
  <1>8. ASSUME NEW t \in Threads, StopNative(t) PROVE TypeOK'
    <2>1. pc' \in [Threads -> Labels]
      BY <1>8 DEF StopNative, Labels
    <2> QED
      BY <1>8, <2>1, ZenonT(60) DEF StopNative
  <1>9. ASSUME NEW t \in Threads, Detach(t) PROVE TypeOK'
    <2>1. pc' \in [Threads -> Labels]
      BY <1>9 DEF Detach, Labels
    <2> QED
      BY <1>9, <2>1, ZenonT(60) DEF Detach
  <1>10. ASSUME NEW t \in Threads, Drop(t) PROVE TypeOK'
    <2>1. pc' \in [Threads -> Labels]
      BY <1>10 DEF Drop, Labels
    <2> QED
      BY <1>10, <2>1, ZenonT(60) DEF Drop
  <1>11. ASSUME NEW t \in Threads, onSurfacesDestroyed(t) PROVE TypeOK'
    <2>1. pc' \in [Threads -> Labels]
      BY <1>11 DEF onSurfacesDestroyed, Labels
    <2> QED
      BY <1>11, <2>1, ZenonT(60) DEF onSurfacesDestroyed
  <1>12. ASSUME NEW t \in Threads, Release(t) PROVE TypeOK'
    <2>1. pc' \in [Threads -> Labels]
      BY <1>12 DEF Release, Labels
    <2>2. stopping' \in [Threads -> BOOLEAN]
      BY <1>12 DEF Release
    <2>3. mNativeRefCount' \in 0..1
      <3>1. mNativeRefCount \in 0..1
        OBVIOUS
      <3> QED
        BY <1>12, <3>1 DEF Release
    <2>4. UNCHANGED <<playVars, monitor, windowVars, viewUp, stopped,
                      nativeVars, uncaught>>
      BY <1>12 DEF Release
    <2> QED
      BY <2>1, <2>2, <2>3, <2>4
  <1>13. ASSUME NEW t \in Threads, onReleaseNative(t) PROVE TypeOK'
    <2>1. pc' \in [Threads -> Labels]
      BY <1>13 DEF onReleaseNative, Labels
    <2> QED
      BY <1>13, <2>1 DEF onReleaseNative
  <1>14. CASE SetSurface
    <2>1. pc' \in [Threads -> Labels]
      BY <1>14 DEF SetSurface, Labels
    <2> QED
      BY <1>14, <2>1, ZenonT(60) DEF SetSurface
  <1>15. CASE CheckAttached
    <2>1. pc' \in [Threads -> Labels]
      BY <1>15 DEF CheckAttached, Labels
    <2>2. stopping' \in [Threads -> BOOLEAN] /\ uncaught' \in BOOLEAN
      BY <1>15 DEF CheckAttached
    <2> QED
      BY <1>15, <2>1, <2>2 DEF CheckAttached
  <1>16. CASE SetReady
    <2>1. pc' \in [Threads -> Labels]
      BY <1>16 DEF SetReady, Labels
    <2> QED
      BY <1>16, <2>1, ZenonT(60) DEF SetReady
  <1>17. CASE onSurfacesCreated
    <2>1. pc' \in [Threads -> Labels]
      BY <1>17 DEF onSurfacesCreated, Labels
    <2>2. replaying' \in BOOLEAN
      BY <1>17, Zenon DEF onSurfacesCreated
    <2>3. monitor' \in Threads \cup {NoThread}
      BY <1>17 DEF onSurfacesCreated
    <2>4. UNCHANGED <<mPlaying, mPlayRequested, windowVars, viewUp, lifeVars,
                      nativeVars, stopping, uncaught>>
      BY <1>17 DEF onSurfacesCreated
    <2> QED
      BY <2>1, <2>2, <2>3, <2>4
  <1>18. CASE SurfaceCreated
    <2>1. pc' \in [Threads -> Labels]
      BY <1>18 DEF SurfaceCreated, Labels
    <2> QED
      BY <1>18, <2>1, ZenonT(60) DEF SurfaceCreated
  <1>19. CASE SurfaceDestroyed
    <2>1. pc' \in [Threads -> Labels]
      BY <1>19 DEF SurfaceDestroyed, Labels
    <2> QED
      BY <1>19, <2>1, ZenonT(60) DEF SurfaceDestroyed
  <1>20. CASE EngineEnds
    BY <1>20 DEF EngineEnds
  <1>21. CASE UNCHANGED vars
    BY <1>21 DEF vars
  <1> QED
    BY <1>1, <1>2, <1>3, <1>4, <1>5, <1>6, <1>7, <1>8, <1>9, <1>10, <1>11,
       <1>12, <1>13, <1>14, <1>15, <1>16, <1>17, <1>18, <1>19, <1>20,
          <1>21 DEF Next, Step, UiStep

\* Every field, the monitor and every thread's step stay in their range; the
\* reference count of the player stays between 0 and 1.
THEOREM TypeCorrect == Spec => []TypeOK
  <1> QED
    BY InitTypeOK, NextTypeOK, PTL DEF Spec, SafeSpec

----------------------------------------------------------------------------
(* The inductive invariant *)

LEMMA InitIInv == Init => IInv
  <1> SUFFICES ASSUME Init PROVE IInv
    OBVIOUS
  <1>0. TypeOK
    BY InitTypeOK
  <1> USE UiIsThread, ThreadAssumption DEF Init, areSurfacesWaiting, isReleased
  <1>1. MonitorInv /\ PlayInv /\ EngineInv
    BY DEF MonitorInv, PlayInv, EngineInv
  <1>2. CASE viewUp
    BY <1>0, <1>1, <1>2 DEF IInv, WindowInv, PendingIsServed, ReleaseInv,
       NativeReleaseOnce, VideoOffOnlyWithoutSurface
  <1>3. CASE ~viewUp
    BY <1>0, <1>1, <1>3 DEF IInv, WindowInv, PendingIsServed, ReleaseInv,
       NativeReleaseOnce, VideoOffOnlyWithoutSurface
  <1> QED
    BY <1>2, <1>3

\* Each step preserves the invariant: first the monitor and what it protects,
\* then the window outside the monitor, then the end of the player.
LEMMA NextIInv == IInv /\ [Next]_vars => IInv'
  <1> SUFFICES ASSUME IInv, [Next]_vars
               PROVE IInv'
    OBVIOUS
  <1>0. TypeOK /\ TypeOK'
    BY NextTypeOK DEF IInv
  <1> USE <1>0, UiIsThread, ThreadAssumption
      DEF IInv, playVars, windowVars, lifeVars, nativeVars, Goto, Throw,
          areSurfacesWaiting, isReleased, AfterDetach, NativeReleaseOnce
  <1>1. ASSUME NEW t \in Threads, PlayCall(t) PROVE IInv'
    <2>1. MonitorInv' /\ PlayInv' /\ EngineInv'
      BY <1>1 DEF PlayCall, TypeOK,
             MonitorInv, PlayInv, EngineInv
    <2>2. WindowInv' /\ PendingIsServed'
      BY <1>1 DEF PlayCall, TypeOK,
             WindowInv, PendingIsServed
    <2>3. ReleaseInv' /\ VideoOffOnlyWithoutSurface'
      BY <1>1 DEF PlayCall, TypeOK,
             ReleaseInv, VideoOffOnlyWithoutSurface
    <2> QED
      BY <2>1, <2>2, <2>3 DEF IInv
  <1>2. ASSUME NEW t \in Threads, Gate(t) PROVE IInv'
    <2>1. MonitorInv' /\ PlayInv' /\ EngineInv'
      BY <1>2 DEF Gate, TypeOK,
             MonitorInv, PlayInv, EngineInv
    <2>2. WindowInv' /\ PendingIsServed'
      BY <1>2 DEF Gate, TypeOK,
             WindowInv, PendingIsServed
    <2>3. ReleaseInv' /\ VideoOffOnlyWithoutSurface'
      BY <1>2 DEF Gate, TypeOK,
             ReleaseInv, VideoOffOnlyWithoutSurface
    <2> QED
      BY <2>1, <2>2, <2>3 DEF IInv
  <1>3. ASSUME NEW t \in Threads, Start(t) PROVE IInv'
    <2>1. MonitorInv' /\ PlayInv' /\ EngineInv'
      BY <1>3 DEF Start, TypeOK,
             MonitorInv, PlayInv, EngineInv
    <2>2. WindowInv' /\ PendingIsServed'
      BY <1>3 DEF Start, TypeOK,
             WindowInv, PendingIsServed
    <2>3. ReleaseInv' /\ VideoOffOnlyWithoutSurface'
      BY <1>3 DEF Start, TypeOK,
             ReleaseInv, VideoOffOnlyWithoutSurface
    <2> QED
      BY <2>1, <2>2, <2>3 DEF IInv
  <1>4. ASSUME NEW t \in Threads, PauseCall(t) PROVE IInv'
    <2>1. MonitorInv' /\ PlayInv' /\ EngineInv'
      BY <1>4 DEF PauseCall, TypeOK,
             MonitorInv, PlayInv, EngineInv
    <2>2. WindowInv' /\ PendingIsServed'
      BY <1>4 DEF PauseCall, TypeOK,
             WindowInv, PendingIsServed
    <2>3. ReleaseInv' /\ VideoOffOnlyWithoutSurface'
      BY <1>4 DEF PauseCall, TypeOK,
             ReleaseInv, VideoOffOnlyWithoutSurface
    <2> QED
      BY <2>1, <2>2, <2>3 DEF IInv
  <1>5. ASSUME NEW t \in Threads, StopCall(t) PROVE IInv'
    <2>1. MonitorInv' /\ PlayInv' /\ EngineInv'
      BY <1>5 DEF StopCall, TypeOK,
             MonitorInv, PlayInv, EngineInv
    <2>2. WindowInv' /\ PendingIsServed'
      BY <1>5 DEF StopCall, TypeOK,
             WindowInv, PendingIsServed
    <2>3. ReleaseInv' /\ VideoOffOnlyWithoutSurface'
      BY <1>5 DEF StopCall, TypeOK,
             ReleaseInv, VideoOffOnlyWithoutSurface
    <2> QED
      BY <2>1, <2>2, <2>3 DEF IInv
  <1>6. ASSUME NEW t \in Threads, StopSet(t) PROVE IInv'
    <2>1. MonitorInv' /\ PlayInv' /\ EngineInv'
      BY <1>6 DEF StopSet, TypeOK,
             MonitorInv, PlayInv, EngineInv
    <2>2. WindowInv' /\ PendingIsServed'
      BY <1>6 DEF StopSet, TypeOK,
             WindowInv, PendingIsServed
    <2>3. ReleaseInv' /\ VideoOffOnlyWithoutSurface'
      BY <1>6 DEF StopSet, TypeOK,
             ReleaseInv, VideoOffOnlyWithoutSurface
    <2> QED
      BY <2>1, <2>2, <2>3 DEF IInv
  <1>7. ASSUME NEW t \in Threads, StopEnter(t) PROVE IInv'
    <2>1. MonitorInv' /\ PlayInv' /\ EngineInv'
      BY <1>7 DEF StopEnter, TypeOK,
             MonitorInv, PlayInv, EngineInv
    <2>2. WindowInv' /\ PendingIsServed'
      BY <1>7 DEF StopEnter, TypeOK,
             WindowInv, PendingIsServed
    <2>3. ReleaseInv' /\ VideoOffOnlyWithoutSurface'
      BY <1>7 DEF StopEnter, TypeOK,
             ReleaseInv, VideoOffOnlyWithoutSurface
    <2> QED
      BY <2>1, <2>2, <2>3 DEF IInv
  <1>8. ASSUME NEW t \in Threads, StopNative(t) PROVE IInv'
    <2>1. MonitorInv' /\ PlayInv' /\ EngineInv'
      BY <1>8 DEF StopNative, TypeOK,
             MonitorInv, PlayInv, EngineInv
    <2>2. WindowInv' /\ PendingIsServed'
      BY <1>8 DEF StopNative, TypeOK,
             WindowInv, PendingIsServed
    <2>3. ReleaseInv' /\ VideoOffOnlyWithoutSurface'
      BY <1>8 DEF StopNative, TypeOK,
             ReleaseInv, VideoOffOnlyWithoutSurface
    <2> QED
      BY <2>1, <2>2, <2>3 DEF IInv
  <1>9. ASSUME NEW t \in Threads, Detach(t) PROVE IInv'
    <2>1. MonitorInv' /\ PlayInv' /\ EngineInv'
      BY <1>9 DEF Detach, TypeOK,
             MonitorInv, PlayInv, EngineInv
    <2>2. WindowInv' /\ PendingIsServed'
      BY <1>9 DEF Detach, TypeOK,
             WindowInv, PendingIsServed
    <2>3. ReleaseInv' /\ VideoOffOnlyWithoutSurface'
      BY <1>9 DEF Detach, TypeOK,
             ReleaseInv, VideoOffOnlyWithoutSurface
    <2> QED
      BY <2>1, <2>2, <2>3 DEF IInv
  <1>10. ASSUME NEW t \in Threads, Drop(t) PROVE IInv'
    <2>1. MonitorInv' /\ PlayInv' /\ EngineInv'
      BY <1>10 DEF Drop, TypeOK,
             MonitorInv, PlayInv, EngineInv
    <2>2. WindowInv' /\ PendingIsServed'
      BY <1>10 DEF Drop, TypeOK,
             WindowInv, PendingIsServed
    <2>3. ReleaseInv' /\ VideoOffOnlyWithoutSurface'
      BY <1>10 DEF Drop, TypeOK,
             ReleaseInv, VideoOffOnlyWithoutSurface
    <2> QED
      BY <2>1, <2>2, <2>3 DEF IInv
  <1>11. ASSUME NEW t \in Threads, onSurfacesDestroyed(t) PROVE IInv'
    <2>1. MonitorInv' /\ PlayInv' /\ EngineInv'
      BY <1>11 DEF onSurfacesDestroyed, TypeOK,
             MonitorInv, PlayInv, EngineInv
    <2>2. WindowInv' /\ PendingIsServed'
      BY <1>11 DEF onSurfacesDestroyed, TypeOK,
             WindowInv, PendingIsServed
    <2>3. ReleaseInv' /\ VideoOffOnlyWithoutSurface'
      BY <1>11 DEF onSurfacesDestroyed, TypeOK,
             ReleaseInv, VideoOffOnlyWithoutSurface, WindowInv
    <2> QED
      BY <2>1, <2>2, <2>3 DEF IInv
  <1>12. ASSUME NEW t \in Threads, Release(t) PROVE IInv'
    <2>1. MonitorInv' /\ PlayInv' /\ EngineInv'
      BY <1>12 DEF Release, TypeOK,
             MonitorInv, PlayInv, EngineInv
    <2>2. WindowInv' /\ PendingIsServed'
      BY <1>12 DEF Release, TypeOK,
             WindowInv, PendingIsServed
    <2>3. ReleaseInv' /\ VideoOffOnlyWithoutSurface'
      BY <1>12 DEF Release, TypeOK,
             ReleaseInv, VideoOffOnlyWithoutSurface
    <2> QED
      BY <2>1, <2>2, <2>3 DEF IInv
  <1>13. ASSUME NEW t \in Threads, onReleaseNative(t) PROVE IInv'
    <2>1. MonitorInv' /\ PlayInv' /\ EngineInv'
      BY <1>13 DEF onReleaseNative, TypeOK,
             MonitorInv, PlayInv, EngineInv
    <2>2. WindowInv' /\ PendingIsServed'
      BY <1>13 DEF onReleaseNative, TypeOK,
             WindowInv, PendingIsServed
    <2>3. ReleaseInv' /\ VideoOffOnlyWithoutSurface'
      BY <1>13 DEF onReleaseNative, TypeOK,
             ReleaseInv, VideoOffOnlyWithoutSurface
    <2> QED
      BY <2>1, <2>2, <2>3 DEF IInv
  <1>14. CASE SetSurface
    <2>1. MonitorInv' /\ PlayInv' /\ EngineInv'
      BY <1>14 DEF SetSurface, TypeOK,
             MonitorInv, PlayInv, EngineInv
    <2>2. WindowInv' /\ PendingIsServed'
      BY <1>14 DEF SetSurface, TypeOK,
             WindowInv, PendingIsServed
    <2>3. ReleaseInv' /\ VideoOffOnlyWithoutSurface'
      BY <1>14 DEF SetSurface, TypeOK,
             ReleaseInv, VideoOffOnlyWithoutSurface
    <2> QED
      BY <2>1, <2>2, <2>3 DEF IInv
  <1>15. CASE CheckAttached
    <2>1. MonitorInv' /\ PlayInv' /\ EngineInv'
      BY <1>15 DEF CheckAttached, TypeOK,
             MonitorInv, PlayInv, EngineInv
    <2>2. WindowInv' /\ PendingIsServed'
      BY <1>15 DEF CheckAttached, TypeOK,
             WindowInv, PendingIsServed
    <2>3. ReleaseInv' /\ VideoOffOnlyWithoutSurface'
      BY <1>15 DEF CheckAttached, TypeOK,
             ReleaseInv, VideoOffOnlyWithoutSurface
    <2> QED
      BY <2>1, <2>2, <2>3 DEF IInv
  <1>16. CASE SetReady
    <2>1. MonitorInv' /\ PlayInv' /\ EngineInv'
      BY <1>16 DEF SetReady, TypeOK,
             MonitorInv, PlayInv, EngineInv
    <2>2. WindowInv' /\ PendingIsServed'
      BY <1>16 DEF SetReady, TypeOK,
             WindowInv, PendingIsServed
    <2>3. ReleaseInv' /\ VideoOffOnlyWithoutSurface'
      BY <1>16 DEF SetReady, TypeOK,
             ReleaseInv, VideoOffOnlyWithoutSurface
    <2> QED
      BY <2>1, <2>2, <2>3 DEF IInv
  <1>17. CASE onSurfacesCreated
    <2>1. MonitorInv' /\ PlayInv' /\ EngineInv'
      BY <1>17 DEF onSurfacesCreated, TypeOK,
             MonitorInv, PlayInv, EngineInv
    <2>2. WindowInv' /\ PendingIsServed'
      BY <1>17 DEF onSurfacesCreated, TypeOK,
             WindowInv, PendingIsServed
    <2>3. ReleaseInv' /\ VideoOffOnlyWithoutSurface'
      BY <1>17 DEF onSurfacesCreated, TypeOK,
             ReleaseInv, VideoOffOnlyWithoutSurface
    <2> QED
      BY <2>1, <2>2, <2>3 DEF IInv
  <1>18. CASE SurfaceCreated
    <2>1. MonitorInv' /\ PlayInv' /\ EngineInv'
      BY <1>18 DEF SurfaceCreated, TypeOK,
             MonitorInv, PlayInv, EngineInv
    <2>2. WindowInv' /\ PendingIsServed'
      BY <1>18 DEF SurfaceCreated, TypeOK,
             WindowInv, PendingIsServed
    <2>3. ReleaseInv' /\ VideoOffOnlyWithoutSurface'
      BY <1>18 DEF SurfaceCreated, TypeOK,
             ReleaseInv, VideoOffOnlyWithoutSurface
    <2> QED
      BY <2>1, <2>2, <2>3 DEF IInv
  <1>19. CASE SurfaceDestroyed
    <2>1. MonitorInv' /\ PlayInv' /\ EngineInv'
      BY <1>19 DEF SurfaceDestroyed, TypeOK,
             MonitorInv, PlayInv, EngineInv
    <2>2. WindowInv' /\ PendingIsServed'
      BY <1>19 DEF SurfaceDestroyed, TypeOK,
             WindowInv, PendingIsServed
    <2>3. ReleaseInv' /\ VideoOffOnlyWithoutSurface'
      BY <1>19 DEF SurfaceDestroyed, TypeOK,
             ReleaseInv, VideoOffOnlyWithoutSurface
    <2> QED
      BY <2>1, <2>2, <2>3 DEF IInv
  <1>20. CASE EngineEnds
    <2>1. MonitorInv' /\ PlayInv' /\ EngineInv'
      BY <1>20 DEF EngineEnds, TypeOK,
             MonitorInv, PlayInv, EngineInv
    <2>2. WindowInv' /\ PendingIsServed'
      BY <1>20 DEF EngineEnds, TypeOK,
             WindowInv, PendingIsServed
    <2>3. ReleaseInv' /\ VideoOffOnlyWithoutSurface'
      BY <1>20 DEF EngineEnds, TypeOK,
             ReleaseInv, VideoOffOnlyWithoutSurface
    <2> QED
      BY <2>1, <2>2, <2>3 DEF IInv
  <1>21. CASE UNCHANGED vars
    BY <1>21 DEF vars, TypeOK, MonitorInv, PlayInv, EngineInv, WindowInv,
       PendingIsServed, ReleaseInv, VideoOffOnlyWithoutSurface
  <1> QED
    BY <1>1, <1>2, <1>3, <1>4, <1>5, <1>6, <1>7, <1>8, <1>9, <1>10, <1>11,
       <1>12, <1>13, <1>14, <1>15, <1>16, <1>17, <1>18, <1>19, <1>20,
          <1>21 DEF Next, Step, UiStep

\* The invariant holds in every reachable state.
THEOREM Invariance == Spec => []IInv
  <1> QED
    BY InitIInv, NextIInv, PTL DEF Spec, SafeSpec

----------------------------------------------------------------------------
(* What follows from it *)

\* No play request is lost between the surface gate of play() and the callback
\* that ends the wait, with any number of threads calling play() and stop().
THEOREM NoLostRequest == Spec => []PendingIsServed
  <1>1. IInv => PendingIsServed
    BY DEF IInv
  <1> QED
    BY <1>1, Invariance, PTL

\* Whenever the monitor is free, an engine that runs has mPlaying set.
THEOREM FlagFollowsEngine == Spec => []EngineHasSession
  <1>1. IInv => EngineHasSession
    BY ThreadAssumption
       DEF IInv, EngineInv, MonitorInv, EngineHasSession
  <1> QED
    BY <1>1, Invariance, PTL

\* The native player is released at most once, however many threads are
\* inside stop().
THEOREM ReleasedOnce == Spec => []NativeReleaseOnce
  <1>1. IInv => NativeReleaseOnce
    BY DEF IInv, ReleaseInv
  <1> QED
    BY <1>1, Invariance, PTL

\* Video is disabled only for a view that is gone.
THEOREM VideoDisabledLate == Spec => []VideoOffOnlyWithoutSurface
  <1>1. IInv => VideoOffOnlyWithoutSurface
    BY DEF IInv
  <1> QED
    BY <1>1, Invariance, PTL

\* When onSurfacesDestroyed returns, the engine does not play video to the
\* surface that was taken away.
THEOREM SurfaceLossStopsVideo == Spec => LostSurfaceStopsVideo
  <1> DEFINE Quiet ==
        \A t \in Threads :
          (pc[t] = "destroyed" /\ pc'[t] # "destroyed") =>
            (engine # "playing" \/ ~videoTrack')
  <1>1. IInv /\ [Next]_vars => [Quiet]_vars
    <2> SUFFICES ASSUME IInv, Next,
                        NEW t \in Threads,
                        pc[t] = "destroyed", pc'[t] # "destroyed"
                 PROVE  engine # "playing" \/ ~videoTrack'
      OBVIOUS
    <2>1. onSurfacesDestroyed(t)
      BY UiIsThread
         DEF Next, Step, UiStep, PlayCall, PauseCall, StopCall, Gate, Start,
             StopSet, StopEnter, StopNative, Detach, Drop,
             onSurfacesDestroyed, Release, onReleaseNative, SetSurface,
             CheckAttached, SetReady, onSurfacesCreated, SurfaceCreated,
             SurfaceDestroyed, EngineEnds, Goto, Throw, IInv, TypeOK
    <2>2. engine # "idle" => alive /\ mPlaying
      BY <2>1, ThreadAssumption
         DEF onSurfacesDestroyed, IInv, EngineInv, MonitorInv
    <2> QED
      BY <2>1, <2>2 DEF onSurfacesDestroyed
  <1> QED
    BY <1>1, Invariance, PTL DEF Spec, SafeSpec, LostSurfaceStopsVideo

----------------------------------------------------------------------------
(* stop() on the UI thread only *)

\* What the UI thread can rely on when the other threads never stop the player:
\* the window changes under its own steps only, and a player that is gone is
\* not used by a surface callback.
UiInv ==
  /\ ~uncaught
  /\ \A t \in Workers : pc[t] \in {"idle", "gate", "start"}
  /\ ~alive => stopped /\ ~helper /\ pc[Ui] \in {"idle", "gate", "start"}
  /\ mSurfacesState = "init" /\ pc[Ui] # "drop" => ~helper
  /\ pc[Ui] \in {"release", "nativeRelease"} => ~helper /\ stopped
  /\ stopping[Ui] => stopped \/ pc[Ui] = "stopSet"
  /\ helper /\ ~mSurface /\ pc[Ui] # "drop" => areSurfacesWaiting
  /\ replaying => alive /\ pc[Ui] \in {"gate", "start"}
  /\ pc[Ui] = "setSurface" => helper
  /\ pc[Ui] \in {"created", "ready"} => areSurfacesWaiting /\ helper /\ mSurface

LEMMA InitUiInv == Init => UiInv
  BY UiIsThread DEF Init, UiInv, areSurfacesWaiting, Threads

LEMMA NextUiInv ==
  ASSUME Stoppers \subseteq {Ui}, IInv, UiInv, [Next]_vars
  PROVE  UiInv'
  <1> USE UiIsThread, ThreadAssumption
      DEF UiInv, playVars, windowVars, lifeVars, nativeVars, Goto, Throw,
          areSurfacesWaiting, AfterDetach, Threads
  <1>0. /\ pc \in [Threads -> Labels] /\ stopping \in [Threads -> BOOLEAN]
        /\ \A t \in Threads :
             /\ pc[t] = "destroyed" => ~helper
             /\ pc[t] \in {"stopEnter", "stopNative"} => stopped
    BY DEF IInv, TypeOK, WindowInv
  <1>1. ASSUME NEW t \in Threads, PlayCall(t) PROVE UiInv'
    BY <1>0, <1>1 DEF PlayCall
  <1>2. ASSUME NEW t \in Threads, Gate(t) PROVE UiInv'
    <2>1. replaying' => replaying /\ (t # Ui \/ pc' = [pc EXCEPT ![t] = "start"])
      BY <1>2, Zenon DEF Gate
    <2> QED
      BY <1>0, <1>2, <2>1 DEF Gate
  <1>3. ASSUME NEW t \in Threads, Start(t) PROVE UiInv'
    BY <1>0, <1>3 DEF Start
  <1>4. ASSUME NEW t \in Threads, PauseCall(t) PROVE UiInv'
    BY <1>0, <1>4 DEF PauseCall
  <1>5. ASSUME NEW t \in Threads, StopCall(t) PROVE UiInv'
    BY <1>0, <1>5 DEF StopCall
  <1>6. ASSUME NEW t \in Threads, StopSet(t) PROVE UiInv'
    BY <1>0, <1>6 DEF StopSet
  <1>7. ASSUME NEW t \in Threads, StopEnter(t) PROVE UiInv'
    BY <1>0, <1>7 DEF StopEnter
  <1>8. ASSUME NEW t \in Threads, StopNative(t) PROVE UiInv'
    BY <1>0, <1>8 DEF StopNative
  <1>9. ASSUME NEW t \in Threads, Detach(t) PROVE UiInv'
    BY <1>0, <1>9 DEF Detach
  <1>10. ASSUME NEW t \in Threads, Drop(t) PROVE UiInv'
    BY <1>0, <1>10 DEF Drop
  <1>11. ASSUME NEW t \in Threads, onSurfacesDestroyed(t) PROVE UiInv'
    BY <1>0, <1>11 DEF onSurfacesDestroyed
  <1>12. ASSUME NEW t \in Threads, Release(t) PROVE UiInv'
    BY <1>0, <1>12 DEF Release
  <1>13. ASSUME NEW t \in Threads, onReleaseNative(t) PROVE UiInv'
    BY <1>0, <1>13 DEF onReleaseNative
  <1>14. CASE SetSurface
    BY <1>0, <1>14 DEF SetSurface
  <1>15. CASE CheckAttached
    BY <1>0, <1>15 DEF CheckAttached
  <1>16. CASE SetReady
    BY <1>0, <1>16 DEF SetReady
  <1>17. CASE onSurfacesCreated
    BY <1>0, <1>17 DEF onSurfacesCreated
  <1>18. CASE SurfaceCreated
    BY <1>0, <1>18 DEF SurfaceCreated
  <1>19. CASE SurfaceDestroyed
    BY <1>0, <1>19 DEF SurfaceDestroyed
  <1>20. CASE EngineEnds
    BY <1>0, <1>20 DEF EngineEnds
  <1>21. CASE UNCHANGED vars
    BY <1>21 DEF vars
  <1> QED
    BY <1>1, <1>2, <1>3, <1>4, <1>5, <1>6, <1>7, <1>8, <1>9, <1>10, <1>11,
       <1>12, <1>13, <1>14, <1>15, <1>16, <1>17, <1>18, <1>19, <1>20, <1>21
       DEF Next, Step, UiStep

\* Confined to the UI thread, stop() never throws, nor does a surface callback,
\* whatever the threads do that call play() and pause().
THEOREM UiStopIsSafe == Spec => []NothingUncaughtOnUi
  <1> DEFINE Confined == Stoppers \subseteq {Ui} => UiInv
  <1>1. Init => Confined
    BY InitUiInv
  <1>2. IInv /\ Confined /\ [Next]_vars => Confined'
    <2> SUFFICES ASSUME IInv, UiInv, [Next]_vars, Stoppers \subseteq {Ui}
                 PROVE  UiInv'
      BY Zenon
    <2> QED
      BY NextUiInv, Zenon
  <1>3. Confined => NothingUncaughtOnUi
    BY DEF UiInv, NothingUncaughtOnUi
  <1> HIDE DEF Confined
  <1> QED
    BY <1>1, <1>2, <1>3, Invariance, PTL DEF Spec, SafeSpec

----------------------------------------------------------------------------
(* The safety part of the refinement: initial states map to initial states
   and every step to a step of PlaybackIntent or to a stutter *)

LEMMA InitRefines == Init => Intent!Init
  <1> SUFFICES ASSUME Init PROVE Intent!Init
    OBVIOUS
  <1> QED
    BY Zenon DEF Init, Intent!Init, areSurfacesWaiting

LEMMA NextRefines == IInv /\ [Next]_vars => [Intent!Next]_(Intent!vars)
  <1> SUFFICES ASSUME IInv, [Next]_vars
               PROVE  [Intent!Next]_(Intent!vars)
    OBVIOUS
  <1> USE UiIsThread
      DEF playVars, windowVars, lifeVars, nativeVars, areSurfacesWaiting,
          Intent!Next, Intent!vars
  \* play()
  <1>1. ASSUME NEW t \in Threads, PlayCall(t)
        PROVE  Intent!Ask \/ UNCHANGED Intent!vars
    BY <1>1 DEF PlayCall, Intent!Ask
  <1>2. ASSUME NEW t \in Threads, Gate(t)
        PROVE  UNCHANGED Intent!vars
    BY <1>2 DEF Gate
  <1>3. ASSUME NEW t \in Threads, Start(t)
        PROVE  \/ Intent!Begin \/ Intent!Again \/ Intent!BeginClosed
               \/ UNCHANGED Intent!vars
    <2>1. mPlayRequested /\ ~areSurfacesWaiting
      BY <1>3 DEF Start, IInv, PlayInv
    <2> QED
      BY <1>3, <2>1 DEF Start, Intent!Begin, Intent!Again, Intent!BeginClosed
  <1>4. ASSUME NEW t \in Threads, PauseCall(t)
        PROVE  Intent!Pause
    BY <1>4 DEF PauseCall, Intent!Pause
  \* stop()
  <1>5. ASSUME NEW t \in Threads, StopCall(t) \/ StopSet(t)
        PROVE  UNCHANGED Intent!vars
    BY <1>5 DEF StopCall, StopSet
  <1>6. ASSUME NEW t \in Threads, StopEnter(t)
        PROVE  Intent!Cancel
    BY <1>6 DEF StopEnter, Intent!Cancel
  <1>7. ASSUME NEW t \in Threads, StopNative(t)
        PROVE  Intent!Silence \/ UNCHANGED Intent!vars
    BY <1>7 DEF StopNative, Intent!Silence
  \* detachViews()
  <1>8. ASSUME NEW t \in Threads, Detach(t)
        PROVE  Intent!EndWait \/ UNCHANGED Intent!vars
    BY <1>8 DEF Detach, Intent!EndWait
  <1>9. ASSUME NEW t \in Threads, Drop(t) \/ onSurfacesDestroyed(t)
        PROVE  UNCHANGED Intent!vars
    BY <1>9 DEF Drop, onSurfacesDestroyed
  \* release()
  <1>10. ASSUME NEW t \in Threads, Release(t)
         PROVE  UNCHANGED Intent!vars
    BY <1>10 DEF Release
  <1>11. ASSUME NEW t \in Threads, onReleaseNative(t)
         PROVE  Intent!Close
    BY <1>11 DEF onReleaseNative, Intent!Close
  \* the surface callbacks, the engine
  <1>12. CASE SetSurface \/ CheckAttached \/ onSurfacesCreated
              \/ SurfaceCreated \/ SurfaceDestroyed
    <2>1. UNCHANGED Intent!vars
      BY <1>12 DEF SetSurface, CheckAttached, onSurfacesCreated,
         SurfaceCreated, SurfaceDestroyed
    <2> QED
      BY <2>1
  <1>13. CASE SetReady
    <2>1. Intent!EndWait \/ UNCHANGED Intent!vars
      BY <1>13 DEF SetReady, Intent!EndWait
    <2> QED
      BY <2>1
  <1>14. CASE EngineEnds
    <2>1. Intent!Silence
      BY <1>14 DEF EngineEnds, Intent!Silence
    <2> QED
      BY <2>1
  <1>15. CASE UNCHANGED vars
    BY <1>15 DEF vars
  <1> QED
    BY <1>1, <1>2, <1>3, <1>4, <1>5, <1>6, <1>7, <1>8, <1>9, <1>10, <1>11,
       <1>12, <1>13, <1>14, <1>15 DEF Next, Step, UiStep

\* Every behaviour of the code is one PlaybackIntent allows: a deferred request
\* starts the engine only when the wait is over, never after stop() has
\* cancelled it, and never on a closed engine.
THEOREM ImplementsIntentSafely == Spec => Intent!SafeSpec
  <1> QED
    BY InitRefines, NextRefines, Invariance, PTL
       DEF Spec, SafeSpec, Intent!SafeSpec

=============================================================================
