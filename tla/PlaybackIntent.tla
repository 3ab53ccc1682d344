--------------------------- MODULE PlaybackIntent ---------------------------
(***************************************************************************)
(* What org.videolan.libvlc.MediaPlayer promises to the code that calls    *)
(* play() and stop(), whatever the threads and the surface callbacks do:   *)
(*                                                                         *)
(*   - a play request made while the window waits for its surface is kept  *)
(*     and starts the engine when the wait is over, without a second call; *)
(*   - it starts the engine once: later play() calls act on the session    *)
(*     that is already started;                                            *)
(*   - a stop() made before that cancels it;                               *)
(*   - nothing starts a closed (released) engine.                          *)
(***************************************************************************)

VARIABLES session,   \* "none", "pending" (asked for, not started) or "started"
          waiting,   \* the window is attached and has no surface yet
          engine,    \* the native player: "idle", "playing" or "paused"
          open       \* the native player exists

vars == <<session, waiting, engine, open>>

Init ==
  /\ session = "none"
  /\ waiting \in BOOLEAN
  /\ engine = "idle"
  /\ open = TRUE

\* play() before any session is started: the request is remembered.
Ask ==
  /\ session = "none"
  /\ session' = "pending"
  /\ UNCHANGED <<waiting, engine, open>>

\* The remembered request reaches the engine, never while the window waits.
Begin ==
  /\ session = "pending" /\ ~waiting /\ open
  /\ session' = "started"
  /\ engine' = "playing"
  /\ UNCHANGED <<waiting, open>>

\* play() on a started session: resume after a pause, or restart at the end.
Again ==
  /\ session = "started" /\ ~waiting /\ open
  /\ engine' = "playing"
  /\ UNCHANGED <<session, waiting, open>>

\* A request that comes too late: the engine is gone and stays silent.
BeginClosed ==
  /\ session = "pending" /\ ~waiting /\ ~open
  /\ session' = "started"
  /\ UNCHANGED <<waiting, engine, open>>

\* stop() forgets the session; the engine falls silent in a later step.
Cancel ==
  /\ session' = "none"
  /\ UNCHANGED <<waiting, engine, open>>

Silence ==
  /\ engine' = "idle"
  /\ UNCHANGED <<session, waiting, open>>

Pause ==
  /\ engine = "playing" /\ open
  /\ engine' = "paused"
  /\ UNCHANGED <<session, waiting, open>>

\* The wait ends, with a surface or because the views were detached.
EndWait ==
  /\ waiting' = FALSE
  /\ UNCHANGED <<session, engine, open>>

Close ==
  /\ open' = FALSE
  /\ engine' = "idle"
  /\ UNCHANGED <<session, waiting>>

Next ==
  \/ Ask \/ Begin \/ Again \/ BeginClosed \/ Cancel
  \/ Silence \/ Pause \/ EndWait \/ Close

\* A request that may start does start, unless it is cancelled or the engine
\* is closed first.
Fairness == WF_vars(Begin)

SafeSpec == Init /\ [][Next]_vars
Spec == SafeSpec /\ Fairness

TypeOK ==
  /\ session \in {"none", "pending", "started"}
  /\ waiting \in BOOLEAN
  /\ engine \in {"idle", "playing", "paused"}
  /\ open \in BOOLEAN
=============================================================================
