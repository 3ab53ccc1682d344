------------------------- MODULE ViewPlayers_proofs -------------------------
(***************************************************************************)
(* Proofs about ViewPlayers, for any number of players and requests.       *)
(***************************************************************************)
EXTENDS ViewPlayers, TLAPS

----------------------------------------------------------------------------
(* The inductive invariant *)

\* What the steps of one player's life leave in the sets.
Life ==
  /\ stopped \subseteq built /\ attached \subseteq built
  /\ requestPlay \subseteq built
  /\ ready \subseteq (attached \cap helper) \ (stopped \cup AudioPlayers)
  /\ media \subseteq attached
  /\ owner \in Players => owner \in built \ AudioPlayers
  /\ AudioPlayers \cap built \subseteq attached
  /\ (built \ AudioPlayers) \ attached \subseteq helper
  /\ attached \ AudioPlayers \subseteq ready \cup lost \cup stopped

\* A player that was never beside another is alone on the view; the listener
\* is its own while its window is READY, and while it waits.
Alone ==
  \A p \in OnView \ shared :
    /\ OnView = {p}
    /\ p \in ready => listener = "vlc" /\ owner = p
    /\ p \notin attached => listener = "attach" /\ owner = p /\ ~available

\* How requests and plays are counted.
Counted ==
  \A p \in Players :
    /\ requests[p] > 0 => p \in requestPlay
    /\ p \in requestPlay => requests[p] > 0
    /\ plays[p] <= requests[p]
    /\ p \notin attached => plays[p] = 0
    /\ p \in (attached \cap requestPlay) \ stopped => plays[p] > 0

IInv == TypeOK /\ Life /\ VlcHasSurface /\ Alone /\ Counted

----------------------------------------------------------------------------
(* Preservation, one lemma per action *)

\* The initial states satisfy the invariant: nothing is built.
LEMMA InitIInv == Init => IInv
<1> SUFFICES ASSUME Init PROVE IInv
  OBVIOUS
<1> USE PlayerAssumption DEF Init, Live, OnView
<1>1. TypeOK
  BY DEF TypeOK
<1>2. Life /\ VlcHasSurface /\ Alone /\ Counted
  BY DEF Life, VlcHasSurface, Alone, Counted
<1> QED
  BY <1>1, <1>2 DEF IInv

\* A new player alone on the view, or shared with those it meets.
LEMMA TextureViewPlayerKeeps ==
  ASSUME IInv, NEW p \in Players, TextureViewPlayer(p)
  PROVE  IInv'
<1> USE PlayerAssumption DEF IInv, TextureViewPlayer, Meet, Listen,
                             Live, OnView, viewVars, baseVars, windowVars,
                             mediaVars, history
<1>1. TypeOK'
  BY DEF TypeOK
<1>2. Life'
  BY DEF TypeOK, Life, VlcHasSurface
<1>3. VlcHasSurface'
  BY DEF TypeOK, Life, VlcHasSurface
<1>4. Alone'
  BY DEF TypeOK, Life, VlcHasSurface, Alone
<1>5. Counted'
  BY DEF TypeOK, Life, VlcHasSurface, Counted
<1> QED
  BY <1>1, <1>2, <1>3, <1>4, <1>5 DEF IInv

\* An audio player touches nothing of the view.
LEMMA AudioPlayerKeeps ==
  ASSUME IInv, NEW p \in Players, AudioPlayer(p)
  PROVE  IInv'
<1> USE PlayerAssumption DEF IInv, AudioPlayer,
                             Live, OnView, viewVars, baseVars, windowVars,
                             mediaVars, history
<1>1. TypeOK'
  BY DEF TypeOK
<1>2. Life'
  BY DEF TypeOK, Life, VlcHasSurface
<1>3. VlcHasSurface'
  BY DEF TypeOK, Life, VlcHasSurface
<1>4. Alone'
  BY DEF TypeOK, Life, VlcHasSurface, Alone
<1>5. Counted'
  BY DEF TypeOK, Life, VlcHasSurface, Counted
<1> QED
  BY <1>1, <1>2, <1>3, <1>4, <1>5 DEF IInv

\* A request is counted before it can be played.
LEMMA RequestPlayKeeps ==
  ASSUME IInv, NEW p \in Players, RequestPlay(p)
  PROVE  IInv'
<1> USE PlayerAssumption DEF IInv, RequestPlay, Play,
                             Live, OnView, viewVars, baseVars, windowVars,
                             mediaVars, history
<1>1. TypeOK'
  BY DEF TypeOK
<1>2. Life'
  BY DEF TypeOK, Life, VlcHasSurface
<1>3. VlcHasSurface'
  BY DEF TypeOK, Life, VlcHasSurface
<1>4. Alone'
  BY DEF TypeOK, Life, VlcHasSurface, Alone
<1>5. Counted'
  BY DEF TypeOK, Life, VlcHasSurface, Counted
<1> QED
  BY <1>1, <1>2, <1>3, <1>4, <1>5 DEF IInv

\* Pausing only concerns the engine.
LEMMA PauseKeeps ==
  ASSUME IInv, NEW p \in Players, Pause(p)
  PROVE  IInv'
<1> USE PlayerAssumption DEF IInv, Pause,
                             Live, OnView, viewVars, baseVars, windowVars,
                             mediaVars, history
<1>1. TypeOK'
  BY DEF TypeOK
<1>2. Life'
  BY DEF TypeOK, Life, VlcHasSurface
<1>3. VlcHasSurface'
  BY DEF TypeOK, Life, VlcHasSurface
<1>4. Alone'
  BY DEF TypeOK, Life, VlcHasSurface, Alone
<1>5. Counted'
  BY DEF TypeOK, Life, VlcHasSurface, Counted
<1> QED
  BY <1>1, <1>2, <1>3, <1>4, <1>5 DEF IInv

\* Resuming only concerns the engine and the flags of MediaPlayer.
LEMMA ResumeKeeps ==
  ASSUME IInv, NEW p \in Players, Resume(p)
  PROVE  IInv'
<1> USE PlayerAssumption DEF IInv, Resume,
                             Live, OnView, viewVars, baseVars, windowVars,
                             mediaVars, history
<1>1. TypeOK'
  BY DEF TypeOK
<1>2. Life'
  BY DEF TypeOK, Life, VlcHasSurface
<1>3. VlcHasSurface'
  BY DEF TypeOK, Life, VlcHasSurface
<1>4. Alone'
  BY DEF TypeOK, Life, VlcHasSurface, Alone
<1>5. Counted'
  BY DEF TypeOK, Life, VlcHasSurface, Counted
<1> QED
  BY <1>1, <1>2, <1>3, <1>4, <1>5 DEF IInv

\* The end of the media only concerns the engine.
LEMMA EngineEndsKeeps ==
  ASSUME IInv, NEW p \in Players, EngineEnds(p)
  PROVE  IInv'
<1> USE PlayerAssumption DEF IInv, EngineEnds,
                             Live, OnView, viewVars, baseVars, windowVars,
                             mediaVars, history
<1>1. TypeOK'
  BY DEF TypeOK
<1>2. Life'
  BY DEF TypeOK, Life, VlcHasSurface
<1>3. VlcHasSurface'
  BY DEF TypeOK, Life, VlcHasSurface
<1>4. Alone'
  BY DEF TypeOK, Life, VlcHasSurface, Alone
<1>5. Counted'
  BY DEF TypeOK, Life, VlcHasSurface, Counted
<1> QED
  BY <1>1, <1>2, <1>3, <1>4, <1>5 DEF IInv

\* Stopping a player that is not alone may take the listener of another.
LEMMA StopKeeps ==
  ASSUME IInv, NEW p \in Players, Stop(p)
  PROVE  IInv'
<1> USE PlayerAssumption DEF IInv, Stop, Listen,
                             Live, OnView, viewVars, baseVars, windowVars,
                             mediaVars, history
<1>1. TypeOK'
  BY DEF TypeOK
<1>2. Life'
  BY DEF TypeOK, Life, VlcHasSurface
<1>3. VlcHasSurface'
  BY DEF TypeOK, Life, VlcHasSurface
<1>4. Alone'
  BY DEF TypeOK, Life, VlcHasSurface, Alone
<1>5. Counted'
  BY DEF TypeOK, Life, VlcHasSurface, Counted
<1> QED
  BY <1>1, <1>2, <1>3, <1>4, <1>5 DEF IInv

\* The listener that waits attaches its player.
LEMMA SurfaceAvailableKeeps ==
  ASSUME IInv, SurfaceAvailable
  PROVE  IInv'
<1> USE PlayerAssumption DEF IInv, SurfaceAvailable, HandleSurfaceAvailable, Play, Listen,
                             Live, OnView, viewVars, baseVars, windowVars,
                             mediaVars, history
<1>1. TypeOK'
  BY DEF TypeOK
<1>2. Life'
  BY DEF TypeOK, Life, VlcHasSurface
<1>3. VlcHasSurface'
  BY DEF TypeOK, Life, VlcHasSurface
<1>4. Alone'
  BY DEF TypeOK, Life, VlcHasSurface, Alone
<1>5. Counted'
  BY DEF TypeOK, Life, VlcHasSurface, Counted
<1> QED
  BY <1>1, <1>2, <1>3, <1>4, <1>5 DEF IInv

\* The player whose listener is there is detached.
LEMMA SurfaceDestroyedKeeps ==
  ASSUME IInv, SurfaceDestroyed
  PROVE  IInv'
<1> USE PlayerAssumption DEF IInv, SurfaceDestroyed, Listen,
                             Live, OnView, viewVars, baseVars, windowVars,
                             mediaVars, history
<1>1. TypeOK'
  <2>1. /\ available' \in BOOLEAN
        /\ listener' \in {"none", "attach", "vlc"}
        /\ owner' \in Players \cup {NoPlayer}
        /\ (listener' = "none") <=> (owner' = NoPlayer)
    BY DEF TypeOK
  <2>2. /\ ready' \subseteq Players /\ helper' \subseteq Players
        /\ videoTrack' \subseteq Players /\ lost' \subseteq Players
    BY DEF TypeOK
  <2> QED
    BY <2>1, <2>2 DEF TypeOK
<1>2. Life'
  BY DEF TypeOK, Life, VlcHasSurface
<1>3. VlcHasSurface'
  BY DEF TypeOK, Life, VlcHasSurface
<1>4. Alone'
  BY DEF TypeOK, Life, VlcHasSurface, Alone
<1>5. Counted'
  BY DEF TypeOK, Life, VlcHasSurface, Counted
<1> QED
  BY <1>1, <1>2, <1>3, <1>4, <1>5 DEF IInv

----------------------------------------------------------------------------
(* Theorems *)

\* A step of any kind preserves the invariant.
LEMMA NextIInv ==
  ASSUME IInv, [Next]_vars
  PROVE  IInv'
<1>1. ASSUME NEW p \in Players,
             \/ TextureViewPlayer(p) \/ AudioPlayer(p) \/ RequestPlay(p)
             \/ Pause(p) \/ Resume(p) \/ EngineEnds(p) \/ Stop(p)
      PROVE  IInv'
  BY <1>1, TextureViewPlayerKeeps, AudioPlayerKeeps, RequestPlayKeeps,
     PauseKeeps, ResumeKeeps, EngineEndsKeeps, StopKeeps
<1>2. CASE SurfaceAvailable
  BY <1>2, SurfaceAvailableKeeps
<1>3. CASE SurfaceDestroyed
  BY <1>3, SurfaceDestroyedKeeps
<1>4. CASE UNCHANGED vars
  BY <1>4 DEF IInv, TypeOK, Life, VlcHasSurface, Alone, Counted, Live, OnView,
              vars, viewVars, baseVars, windowVars, mediaVars, history
<1> QED
  BY <1>1, <1>2, <1>3, <1>4 DEF Next

\* The invariant holds throughout: the listener, the windows and the counts fit
\* together in every reachable state.
THEOREM Invariance == Spec => []IInv
<1>1. Init => IInv
  BY InitIInv
<1>2. IInv /\ [Next]_vars => IInv'
  BY NextIInv
<1> QED
  BY <1>1, <1>2, PTL DEF Spec

\* The variables keep their types, for any number of players.
THEOREM TypeCorrect == Spec => []TypeOK
<1>1. IInv => TypeOK
  BY DEF IInv
<1> QED
  BY <1>1, Invariance, PTL

\* A request made while the view has no surface is played when it comes, if the
\* player has had the view for itself (requestPlay, handleSurfaceAvailable).
THEOREM NoRequestForgotten == Spec => []RequestServed
<1>1. IInv => RequestServed
  <2> SUFFICES ASSUME IInv, NEW p \in Live \ shared,
                      requests[p] > 0, available
               PROVE  plays[p] > 0
    BY DEF RequestServed
  <2>1. p \in Players /\ p \in requestPlay
    BY DEF IInv, TypeOK, Live, Counted
  <2>2. p \in attached
    BY <2>1 DEF IInv, Alone, Life, Live, OnView
  <2> QED
    BY <2>1, <2>2 DEF IInv, Counted, Live
<1> QED
  BY <1>1, Invariance, PTL

\* No surface and no pair of calls plays one request twice.
THEOREM NoRequestRepeated == Spec => []PlayPerRequest
<1>1. IInv => PlayPerRequest
  BY DEF IInv, Counted, PlayPerRequest
<1> QED
  BY <1>1, Invariance, PTL

\* A player alone on the view is detached when the view loses its surface.
THEOREM DetachedWithSurface == Spec => []ReadyHasSurface
<1>1. IInv => ReadyHasSurface
  BY DEF IInv, Alone, VlcHasSurface, Life, TypeOK, Live, OnView,
         ReadyHasSurface
<1> QED
  BY <1>1, Invariance, PTL

\* attachViews meets neither an attached window nor an empty helper slot.
THEOREM ListenerFits == Spec => []VlcHasSurface
<1>1. IInv => VlcHasSurface
  BY DEF IInv
<1> QED
  BY <1>1, Invariance, PTL

\* The engine of a TextureViewPlayer starts without a surface only after the
\* view has lost one in the player's lifetime.
THEOREM StartsWithSurface == Spec => StartsOnSurface
<1>1. IInv /\ [Next]_vars =>
        \A p \in Players \ AudioPlayers :
          (engine[p] = "idle" /\ engine'[p] = "playing") =>
            p \in ready' \cup lost
  <2> SUFFICES ASSUME IInv, [Next]_vars,
                      NEW p \in Players \ AudioPlayers,
                      engine[p] = "idle", engine'[p] = "playing"
               PROVE  p \in ready' \cup lost
    OBVIOUS
  <2> USE DEF IInv, TypeOK, Life, Live
  <2>1. ASSUME NEW q \in Players, RequestPlay(q)
        PROVE  p \in ready' \cup lost
    BY <2>1 DEF RequestPlay, Play, windowVars, mediaVars
  <2>2. ASSUME NEW q \in Players, Resume(q)
        PROVE  p \in ready' \cup lost
    <3>1. p = q /\ p \in media
      BY <2>2 DEF Resume
    <3>2. p \in attached \ stopped
      BY <2>2, <3>1 DEF Resume
    <3> QED
      BY <2>2, <3>2 DEF Resume, windowVars
  <2>3. CASE SurfaceAvailable
    BY <2>3 DEF SurfaceAvailable, HandleSurfaceAvailable, Play, mediaVars
  <2>4. ASSUME NEW q \in Players, TextureViewPlayer(q) \/ AudioPlayer(q)
        PROVE  FALSE
    BY <2>4 DEF TextureViewPlayer, AudioPlayer, mediaVars
  <2>5. ASSUME NEW q \in Players, Pause(q) \/ EngineEnds(q) \/ Stop(q)
        PROVE  FALSE
    BY <2>5 DEF Pause, EngineEnds, Stop
  <2>6. CASE SurfaceDestroyed
    BY <2>6 DEF SurfaceDestroyed
  <2>7. CASE UNCHANGED vars
    BY <2>7 DEF vars, mediaVars
  <2> QED
    BY <2>1, <2>2, <2>3, <2>4, <2>5, <2>6, <2>7 DEF Next
<1> QED
  BY <1>1, Invariance, PTL DEF Spec, StartsOnSurface

\* What the players and the one listener of the view hold for its surface agrees
\* (SurfaceAvailable, SurfaceDestroyed, Stop).
THEOREM SurfaceIsKnown == Spec => []SurfaceKnown
<1>1. ReadyHasSurface /\ VlcHasSurface => SurfaceKnown
  BY DEF SurfaceKnown
<1> QED
  BY <1>1, DetachedWithSurface, ListenerFits, PTL
=============================================================================
