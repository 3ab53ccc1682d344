---------------------------- MODULE ViewPlayers ----------------------------
(***************************************************************************)
(* The players an application makes for one TextureView, one after another *)
(* or several at a time, with the audio players beside them.               *)
(*                                                                         *)
(* A TextureView has one SurfaceTextureListener.  A TextureViewPlayer that *)
(* finds the view without a surface puts its own listener there and waits; *)
(* attaching the view replaces it by the listener of libvlc, and detaching *)
(* sets it to null, whoever's it is.  All of this, requestPlay, resume and *)
(* stop included, runs on the UI thread here, so that a method is a step;  *)
(* HookedMediaPlayer has the steps of one player under other threads.      *)
(***************************************************************************)
EXTENDS Naturals

CONSTANTS Players,     \* the players the application makes
          AudioPlayers, \* those of class AudioPlayer; the others share the view
          NoPlayer,    \* no player
          MaxRequests  \* how often requestPlay is called on a player

ASSUME PlayerAssumption ==
  /\ AudioPlayers \subseteq Players
  /\ NoPlayer \notin Players
  /\ MaxRequests \in Nat

VARIABLES
  available,      \* the TextureView has a SurfaceTexture
  listener,       \* its SurfaceTextureListener: "none", "attach" (of
                  \* addAttachListener) or "vlc" (of the SurfaceHelper)
  owner,          \* the player whose listener it is
  built,          \* the players whose constructor has run
  stopped,        \* ZMediaPlayer.stopped
  attached,       \* BaseViewPlayer.attached
  requestPlay,    \* BaseViewPlayer.requestPlay
  ready,          \* AWindow of the player: READY, else INIT; ATTACHED is left
                  \* within the step that enters it, the view has a surface
  helper,         \* the video SurfaceHelper is in its slot
  media,          \* setMedia was called
  mPlaying,       \* MediaPlayer.mPlaying
  mPlayRequested, \* MediaPlayer.mPlayRequested
  engine,         \* the native player: "idle", "playing" or "paused"
  videoTrack,     \* the native video track is enabled
  requests,       \* history: the calls of requestPlay
  plays,          \* history: the calls of play(hasVideo) that went through
  shared,         \* history: the players that were not alone on the view
  lost            \* history: the players whose view lost its surface

viewVars == <<available, listener, owner>>
baseVars == <<built, stopped, attached, requestPlay>>
windowVars == <<ready, helper>>
mediaVars == <<media, mPlaying, mPlayRequested, engine, videoTrack>>
history == <<requests, plays, shared, lost>>
vars == <<viewVars, baseVars, windowVars, mediaVars, history>>

Init ==
  /\ available \in BOOLEAN /\ listener = "none" /\ owner = NoPlayer
  /\ built = {} /\ stopped = {} /\ attached = {} /\ requestPlay = {}
  /\ ready = {} /\ helper = {}
  /\ media = {} /\ mPlaying = {} /\ mPlayRequested = {}
  /\ engine = [p \in Players |-> "idle"]
  /\ videoTrack = Players
  /\ requests = [p \in Players |-> 0] /\ plays = [p \in Players |-> 0]
  /\ shared = {} /\ lost = {}

Live == built \ stopped
OnView == Live \ AudioPlayers

Listen(kind, p) == listener' = kind /\ owner' = p

----------------------------------------------------------------------------
(* Construction *)

\* A player built beside another that is not stopped shares the view with it.
Meet(p) ==
  shared' = shared \cup (IF OnView = {} THEN {} ELSE OnView \cup {p})

\* Mutant of TextureViewPlayer: the listener is added in any case, and takes
\* the place of libvlc's.
TextureViewPlayerListens(p) ==
  /\ p \notin built \cup AudioPlayers
  /\ built' = built \cup {p}
  /\ helper' = helper \cup {p}
  /\ attached' = IF available THEN attached \cup {p} ELSE attached
  /\ ready' = IF available THEN ready \cup {p} ELSE ready
  /\ Listen("attach", p)
  /\ Meet(p)
  /\ UNCHANGED <<available, stopped, requestPlay, mediaVars, requests, plays,
                 lost>>

\* handleAttach: the view is attached at once, or waited for.
TextureViewPlayer(p) ==
  /\ p \notin built \cup AudioPlayers
  /\ built' = built \cup {p}
  /\ helper' = helper \cup {p}
  /\ \/ /\ available
        /\ attached' = attached \cup {p}
        /\ ready' = ready \cup {p}
        /\ Listen("vlc", p)
     \/ /\ ~available
        /\ Listen("attach", p)
        /\ UNCHANGED <<attached, ready>>
  /\ Meet(p)
  /\ UNCHANGED <<available, stopped, requestPlay, mediaVars, requests, plays,
                 lost>>

AudioPlayer(p) ==
  /\ p \in AudioPlayers \ built
  /\ built' = built \cup {p}
  /\ attached' = attached \cup {p}
  /\ UNCHANGED <<viewVars, stopped, requestPlay, windowVars, mediaVars,
                 history>>

----------------------------------------------------------------------------
(* Playing *)

\* ZMediaPlayer.play(hasVideo) while the player is not stopped: setMedia, then
\* MediaPlayer.play(), whose window is INIT or READY here: nothing waits.
Play(p) ==
  /\ media' = media \cup {p}
  /\ mPlayRequested' = IF p \in mPlaying THEN mPlayRequested
                       ELSE mPlayRequested \cup {p}
  /\ mPlaying' = mPlaying \cup {p}
  /\ engine' = [engine EXCEPT ![p] = "playing"]
  /\ plays' = [plays EXCEPT ![p] = @ + 1]
  /\ UNCHANGED videoTrack

\* Mutant of RequestPlay: isAttached is not tested.
RequestPlayUngated(p) ==
  /\ p \in built /\ requests[p] < MaxRequests
  /\ requests' = [requests EXCEPT ![p] = @ + 1]
  /\ requestPlay' = requestPlay \cup {p}
  /\ \/ p \notin stopped /\ Play(p)
     \/ p \in stopped /\ UNCHANGED <<mediaVars, plays>>
  /\ UNCHANGED <<viewVars, built, stopped, attached, windowVars, shared, lost>>

\* Mutant of RequestPlay: the request is not remembered.
RequestPlayForget(p) ==
  /\ p \in built /\ requests[p] < MaxRequests
  /\ requests' = [requests EXCEPT ![p] = @ + 1]
  /\ \/ /\ p \in attached \ stopped
        /\ Play(p)
        /\ requestPlay' = requestPlay \cup {p}
     \/ /\ p \notin attached \ stopped
        /\ UNCHANGED <<mediaVars, plays, requestPlay>>
  /\ UNCHANGED <<viewVars, built, stopped, attached, windowVars, shared, lost>>

\* On a stopped player play() throws from the first native call, which
\* requestPlay catches; callBack is null by then.
RequestPlay(p) ==
  /\ p \in built /\ requests[p] < MaxRequests
  /\ requests' = [requests EXCEPT ![p] = @ + 1]
  /\ requestPlay' = requestPlay \cup {p}
  /\ \/ p \in attached \ stopped /\ Play(p)
     \/ p \notin attached \ stopped /\ UNCHANGED <<mediaVars, plays>>
  /\ UNCHANGED <<viewVars, built, stopped, attached, windowVars, shared, lost>>

Pause(p) ==
  /\ p \in Live /\ engine[p] = "playing"
  /\ engine' = [engine EXCEPT ![p] = "paused"]
  /\ UNCHANGED <<viewVars, baseVars, windowVars, media, mPlaying,
                 mPlayRequested, videoTrack, history>>

\* resume() calls MediaPlayer.play() whether or not a media is set; without
\* one the native player stays idle.
Resume(p) ==
  /\ p \in Live
  /\ mPlayRequested' = IF p \in mPlaying THEN mPlayRequested
                       ELSE mPlayRequested \cup {p}
  /\ mPlaying' = mPlaying \cup {p}
  /\ engine' = [engine EXCEPT ![p] = IF p \in media THEN "playing" ELSE @]
  /\ UNCHANGED <<viewVars, baseVars, windowVars, media, videoTrack, history>>

EngineEnds(p) ==
  /\ engine[p] # "idle"
  /\ engine' = [engine EXCEPT ![p] = "idle"]
  /\ UNCHANGED <<viewVars, baseVars, windowVars, media, mPlaying,
                 mPlayRequested, videoTrack, history>>

\* stop(): the engine is silenced, and detachViews on an attached view sets
\* the listener of the view to null, also when it is another player's.
\* onSurfacesDestroyed finds mPlaying false.
Stop(p) ==
  /\ p \in Live
  /\ stopped' = stopped \cup {p}
  /\ mPlaying' = mPlaying \ {p} /\ mPlayRequested' = mPlayRequested \ {p}
  /\ engine' = [engine EXCEPT ![p] = "idle"]
  /\ \/ /\ p \in ready
        /\ ready' = ready \ {p} /\ helper' = helper \ {p}
        /\ Listen("none", NoPlayer)
     \/ /\ p \notin ready
        /\ UNCHANGED <<windowVars, listener, owner>>
  /\ UNCHANGED <<available, built, attached, requestPlay, media, videoTrack,
                 history>>

----------------------------------------------------------------------------
(* The callbacks of the TextureView *)

\* Mutant of HandleSurfaceAvailable: the listener that waits stays in place.
HandleSurfaceAvailableKeep(p) ==
  /\ attached' = attached \cup {p}
  /\ ready' = ready \cup {p}
  /\ UNCHANGED <<listener, owner>>
  /\ \/ p \in requestPlay /\ Play(p)
     \/ p \notin requestPlay /\ UNCHANGED <<mediaVars, plays>>

\* handleSurfaceAvailable: the view is attached, and a request that waited is
\* played.  onSurfacesCreated finds no request of MediaPlayer that is not
\* playing: resume() on the window in INIT has set mPlaying.
HandleSurfaceAvailable(p) ==
  /\ attached' = attached \cup {p}
  /\ ready' = ready \cup {p}
  /\ Listen("vlc", p)
  /\ \/ p \in requestPlay /\ Play(p)
     \/ p \notin requestPlay /\ UNCHANGED <<mediaVars, plays>>

\* libvlc's listener is never there when a surface comes: VlcHasSurface.
SurfaceAvailable ==
  /\ ~available
  /\ available' = TRUE
  /\ \/ listener = "attach" /\ owner \notin stopped /\ HandleSurfaceAvailable(owner)
     \/ /\ listener = "none" \/ owner \in stopped
        /\ UNCHANGED <<listener, owner, attached, ready, mediaVars, plays>>
  /\ UNCHANGED <<built, stopped, requestPlay, helper, requests, shared, lost>>

\* libvlc's listener detaches the view; `attached` keeps its value.
SurfaceDestroyed ==
  /\ available
  /\ available' = FALSE
  /\ lost' = lost \cup built
  /\ \/ /\ listener = "vlc"
        /\ ready' = ready \ {owner} /\ helper' = helper \ {owner}
        /\ videoTrack' = IF owner \in mPlaying THEN videoTrack \ {owner}
                         ELSE videoTrack
        /\ Listen("none", NoPlayer)
     \/ /\ listener # "vlc"
        /\ UNCHANGED <<ready, helper, videoTrack, listener, owner>>
  /\ UNCHANGED <<baseVars, media, mPlaying, mPlayRequested, engine, requests,
                 plays, shared>>

----------------------------------------------------------------------------

Next ==
  \/ \E p \in Players :
       \/ TextureViewPlayer(p) \/ AudioPlayer(p)
       \/ RequestPlay(p) \/ Pause(p) \/ Resume(p) \/ EngineEnds(p) \/ Stop(p)
  \/ SurfaceAvailable \/ SurfaceDestroyed

Spec == Init /\ [][Next]_vars

----------------------------------------------------------------------------
(* Properties *)

TypeOK ==
  /\ available \in BOOLEAN
  /\ listener \in {"none", "attach", "vlc"}
  /\ owner \in Players \cup {NoPlayer}
  /\ (listener = "none") <=> (owner = NoPlayer)
  /\ \A s \in {built, stopped, attached, requestPlay, ready, helper, media,
               mPlaying, mPlayRequested, videoTrack, shared, lost} :
       s \subseteq Players
  /\ engine \in [Players -> {"idle", "playing", "paused"}]
  /\ requests \in [Players -> 0..MaxRequests]
  /\ plays \in [Players -> Nat]

\* A request made before the view had a surface is not forgotten: a player
\* that has had the view for itself, is asked to play and not stopped has
\* played as soon as the view has a surface (requestPlay,
\* handleSurfaceAvailable), whatever came and went on the view before it.
RequestServed ==
  \A p \in Live \ shared :
    (requests[p] > 0 /\ available) => plays[p] > 0

\* One request is played once: it is not played again by each surface that
\* comes, nor by both requestPlay and handleSurfaceAvailable.
PlayPerRequest ==
  \A p \in Players : plays[p] <= requests[p]

\* A player that has had the view for itself is detached when the surface
\* goes: its window is never READY without a surface.
ReadyHasSurface ==
  \A p \in ready \ shared : available

\* libvlc's listener is on the view only while the view has a surface, and
\* belongs to a player that is not stopped and has its helper: attachViews,
\* called by handleSurfaceAvailable, cannot meet an attached window or an
\* empty slot, where it throws.
VlcHasSurface ==
  /\ listener = "vlc" => available /\ owner \in (ready \cap helper) \ stopped
  /\ listener = "attach" => owner \notin attached \cup ready

\* What the players and the view hold for the surface agrees: nobody who has had
\* the view for itself believes in a surface that is gone, and the one listener
\* of the view is that of a player which can use what it is told.
SurfaceKnown == ReadyHasSurface /\ VlcHasSurface

\* A TextureViewPlayer starts its engine without a surface only after the view
\* has lost one in its lifetime: the first requestPlay waits for the view,
\* also when the listener of the player was overwritten.
StartsOnSurface ==
  [][\A p \in Players \ AudioPlayers :
       (engine[p] = "idle" /\ engine'[p] = "playing") =>
         p \in ready' \cup lost]_vars
=============================================================================
