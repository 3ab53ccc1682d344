--------------------------- MODULE MediaOwnership ---------------------------
(***************************************************************************)
(* Who holds the native media: ZMediaPlayer.play(hasVideo) creates a Media *)
(* for every call, hands it to MediaPlayer.setMedia, which retains it and  *)
(* releases the one before, and releases its own reference; the release of *)
(* the player releases the last.  Threads may play while another stops.    *)
(*                                                                         *)
(* What play() does to the engine afterwards is in HookedMediaPlayer.      *)
(***************************************************************************)
EXTENDS Integers

CONSTANTS Threads,  \* threads that call play() and stop()
          Medias,   \* the Media objects that can be created
          NoMedia

ASSUME MediaAssumption == NoMedia \notin Medias

VARIABLES count,    \* VLCObject.mNativeRefCount of each media
          created,  \* the media there are
          mMedia,   \* MediaPlayer.mMedia
          player,   \* the native player: "live", "releasing", "released"
          pc,       \* pc[t]: the next step of thread t
          own,      \* own[t]: the variable media of play(hasVideo)
          failed    \* media whose setMedia threw

vars == <<count, created, mMedia, player, pc, own, failed>>

Init ==
  /\ count = [m \in Medias |-> 0] /\ created = {}
  /\ mMedia = NoMedia /\ player = "live"
  /\ pc = [t \in Threads |-> "idle"] /\ own = [t \in Threads |-> NoMedia]
  /\ failed = {}

\* VLCObject.release and retain, for NoMedia the null test of the caller.
Release(c, m) ==
  IF m # NoMedia /\ c[m] > 0 THEN [c EXCEPT ![m] = @ - 1] ELSE c

Retain(c, m) == IF c[m] > 0 THEN [c EXCEPT ![m] = @ + 1] ELSE c

----------------------------------------------------------------------------
(* play(hasVideo) *)

NewMedia(t, m) ==
  /\ pc[t] = "idle" /\ m \notin created
  /\ created' = created \cup {m} /\ count' = [count EXCEPT ![m] = 1]
  /\ own' = [own EXCEPT ![t] = m] /\ pc' = [pc EXCEPT ![t] = "setMedia"]
  /\ UNCHANGED <<mMedia, player, failed>>

\* The end of setMedia: nativeSetMedia throws on a released player, and play
\* ends without the release of its reference.
NativeSetMedia(t, m) ==
  IF player = "released"
    THEN /\ failed' = failed \cup {m} /\ own' = [own EXCEPT ![t] = NoMedia]
         /\ pc' = [pc EXCEPT ![t] = "idle"]
    ELSE /\ pc' = [pc EXCEPT ![t] = "release"]
         /\ UNCHANGED <<own, failed>>

\* Mutant of SetMedia: the media is not retained.
SetMediaUnretained(t) ==
  /\ pc[t] = "setMedia"
  /\ count' = Release(count, mMedia)
  /\ mMedia' = own[t] /\ NativeSetMedia(t, own[t])
  /\ UNCHANGED <<created, player>>

\* The monitor of the player makes this one step.  A released media would be
\* refused after the release of mMedia, and play would end with the exception.
SetMedia(t) ==
  /\ pc[t] = "setMedia"
  /\ IF Release(count, mMedia)[own[t]] = 0
       THEN /\ count' = Release(count, mMedia)
            /\ failed' = failed \cup {own[t]} /\ own' = [own EXCEPT ![t] = NoMedia]
            /\ pc' = [pc EXCEPT ![t] = "idle"] /\ UNCHANGED mMedia
       ELSE /\ count' = Retain(Release(count, mMedia), own[t])
            /\ mMedia' = own[t] /\ NativeSetMedia(t, own[t])
  /\ UNCHANGED <<created, player>>

ReleaseOwn(t) ==
  /\ pc[t] = "release"
  /\ count' = Release(count, own[t])
  /\ own' = [own EXCEPT ![t] = NoMedia] /\ pc' = [pc EXCEPT ![t] = "idle"]
  /\ UNCHANGED <<created, mMedia, player, failed>>

----------------------------------------------------------------------------
(* stop() *)

\* The last reference of the player goes; others may enter its monitor yet.
ReleasePlayer(t) ==
  /\ pc[t] = "idle" /\ player = "live"
  /\ player' = "releasing" /\ pc' = [pc EXCEPT ![t] = "onReleaseNative"]
  /\ UNCHANGED <<count, created, mMedia, own, failed>>

\* Mutant of onReleaseNative: the media is forgotten.
onReleaseNativeKeep(t) ==
  /\ pc[t] = "onReleaseNative"
  /\ player' = "released" /\ pc' = [pc EXCEPT ![t] = "idle"]
  /\ UNCHANGED <<count, created, mMedia, own, failed>>

onReleaseNative(t) ==
  /\ pc[t] = "onReleaseNative"
  /\ count' = Release(count, mMedia)
  /\ player' = "released" /\ pc' = [pc EXCEPT ![t] = "idle"]
  /\ UNCHANGED <<created, mMedia, own, failed>>

----------------------------------------------------------------------------

Step(t) ==
  \/ \E m \in Medias : NewMedia(t, m)
  \/ SetMedia(t) \/ ReleaseOwn(t)
  \/ ReleasePlayer(t) \/ onReleaseNative(t)

Next == \E t \in Threads : Step(t)

Spec == Init /\ [][Next]_vars

----------------------------------------------------------------------------
(* Properties *)

\* The variables have their types, and a media has at most its creator and the
\* player as holders.
TypeOK ==
  /\ count \in [Medias -> 0..2] /\ created \subseteq Medias
  /\ mMedia \in Medias \cup {NoMedia}
  /\ player \in {"live", "releasing", "released"}
  /\ pc \in [Threads -> {"idle", "setMedia", "release", "onReleaseNative"}]
  /\ own \in [Threads -> Medias \cup {NoMedia}] /\ failed \subseteq Medias

\* setMedia always gets a media nobody has released, so that its exception
\* "Media is released", which would leave mMedia with a released media, is not
\* thrown, whatever the other threads do (play, setMedia).
FreshWhenSet ==
  \A t \in Threads : pc[t] = "setMedia" => count[own[t]] = 1 /\ own[t] # mMedia

\* The media of a player that is not released is alive, also while several
\* threads replace it (setMedia).
CurrentIsAlive ==
  (player # "released" /\ mMedia # NoMedia) => count[mMedia] >= 1

\* A media stays alive until the play() that created it has released it, as long
\* as nobody called setMedia on the released player (play, setMedia).
OwnedIsAlive ==
  failed = {} =>
    \A t \in Threads : own[t] # NoMedia => count[own[t]] >= 1

\* Whoever holds a media holds one that is alive: neither the player nor the
\* play() that created it can find it released under its hands, in whatever
\* order several of them and the release of the player run.
HeldIsAlive == CurrentIsAlive /\ OwnedIsAlive

\* Nothing leaks: once the player is released and no play() is under way, every
\* media that reached the player is released, whoever came first
\* (play, setMedia, onReleaseNative).
ReleasedWhenUnused ==
  (player = "released" /\ \A t \in Threads : pc[t] = "idle") =>
    \A m \in created \ failed : count[m] = 0
=============================================================================
