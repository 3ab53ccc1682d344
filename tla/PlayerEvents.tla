---------------------------- MODULE PlayerEvents ----------------------------
(***************************************************************************)
(* The way of a native event to the callbacks of the application:          *)
(*                                                                         *)
(*   - EventHandler (in the libvlc archive) is one object for the process; *)
(*     each engine's event thread walks its list of handlers by index and  *)
(*     sends the event to all of them, whichever player it comes from;     *)
(*   - the handler of a ZMediaPlayer runs on the UI thread's looper and    *)
(*     turns the message into callbacks, testing the callBack field before *)
(*     some of them;                                                       *)
(*   - stop() takes the handler off the list, purges its messages, clears  *)
(*     callBack and releases the engine, from the UI thread (also from     *)
(*     inside a callback) or from another thread, while all of the above   *)
(*     goes on.                                                            *)
(*                                                                         *)
(* Each access to the shared list, the message queue, callBack and the     *)
(* engine is a step.  An exception on the UI thread ends the process.      *)
(***************************************************************************)
EXTENDS Naturals, Sequences, FiniteSets, SequencesExt

CONSTANTS Players,    \* the ZMediaPlayer objects the application makes
          Ui,         \* the UI thread
          Workers,    \* other threads that call stop()
          Events,     \* the events the engines send
          NoPlayer,   \* no player
          MaxCasts    \* how many events the engines send in all

Threads == Workers \cup {Ui}
AllEvents == {"paused", "stopped", "end", "position", "error"}

ASSUME EventAssumption ==
  /\ Ui \notin Workers
  /\ NoPlayer \notin Players
  /\ Events \subseteq AllEvents
  /\ MaxCasts \in Nat

VARIABLES
  handlers,  \* EventHandler.mEventHandler: the players whose handler is in it
  cast,      \* cast[p]: the walk over handlers by the event thread of p
  casts,     \* how many events were sent
  queue,     \* the messages of the UI looper: [to |-> player, event |-> e]
  at,        \* the step the UI looper takes next in handleMessage
  to,        \* the player whose handler runs
  ref,       \* the callback is read, its argument not yet
  crash,     \* "none", or the step at which an exception left the handler
  built,     \* the players whose constructor has run
  stopped,   \* ZMediaPlayer.stopped
  callBack,  \* callBack[p]: the field is not null for the UI thread
  hidden,    \* players whose callBack is null for the thread that stops them,
             \* and not yet for the UI thread: the field is not volatile
  live,      \* live[p]: the native player is not released
  isOnPlayCallback, \* VideoPlayerEventHandler.isOnPlayCallback
  stopAt,    \* stopAt[t]: the step thread t takes next in stop()
  stopOf,    \* stopOf[t]: the player that t stops
  gone,      \* history: stop() has returned
  phase      \* history: what the application was told last: "idle", then
             \* "running" after onPlay, "complete" after onComplete, "idle"
             \* again after onStopped

busVars == <<handlers, cast, casts, queue>>
uiVars == <<at, to, ref, crash>>
playerVars == <<built, stopped, callBack, hidden, live>>
stopVars == <<stopAt, stopOf, gone>>
tellVars == <<isOnPlayCallback, phase>>
vars == <<busVars, uiVars, playerVars, stopVars, tellVars>>

NoCast == [at |-> "idle", event |-> "none", i |-> 0, target |-> NoPlayer,
           sent |-> <<>>, audience |-> {}, removed |-> 0]

\* The steps of handleMessage.
Tests == {"pausedTest", "stoppedTest", "endTest", "endPlayTest",
          "completeTest", "playTest"}
Calls == {"pausedCall", "stoppedCall", "endPlayCall", "completeCall",
          "playCall", "postCall", "errorCall"}
InApp == {"inOnPlay", "inEndPlay", "inOnStopped", "inLast"}
Labels == Tests \cup Calls \cup InApp
            \cup {"loop", "position", "setFlag", "pausedRef", "postRef",
                  "resetFlag"}

Init ==
  /\ handlers = <<>> /\ queue = <<>> /\ casts = 0
  /\ cast = [p \in Players |-> NoCast]
  /\ at = "loop" /\ to = NoPlayer /\ ref = FALSE /\ crash = "none"
  /\ built = {} /\ stopped = {} /\ hidden = {} /\ gone = {}
  /\ callBack = [p \in Players |-> FALSE]
  /\ live = [p \in Players |-> FALSE]
  /\ isOnPlayCallback = [p \in Players |-> FALSE]
  /\ phase = [p \in Players |-> "idle"]
  /\ stopAt = [t \in Threads |-> "idle"]
  /\ stopOf = [t \in Threads |-> NoPlayer]

\* Application code runs on the UI thread: between messages, or in a callback.
UiFree == at \in InApp \cup {"loop"} /\ stopAt[Ui] = "idle"

----------------------------------------------------------------------------
(* The constructor, up to init() *)

\* Mutant of Construct: a new handler goes to the front of the list.
ConstructInFront(p) ==
  /\ UiFree /\ p \notin built
  /\ built' = built \cup {p}
  /\ live' = [live EXCEPT ![p] = TRUE]
  /\ callBack' = [callBack EXCEPT ![p] = TRUE]
  /\ handlers' = <<p>> \o handlers
  /\ UNCHANGED <<cast, casts, queue, uiVars, stopped, hidden, stopVars,
                 tellVars>>

Construct(p) ==
  /\ UiFree /\ p \notin built
  /\ built' = built \cup {p}
  /\ live' = [live EXCEPT ![p] = TRUE]
  /\ callBack' = [callBack EXCEPT ![p] = TRUE]
  /\ handlers' = Append(handlers, p)
  /\ UNCHANGED <<cast, casts, queue, uiVars, stopped, hidden, stopVars,
                 tellVars>>

----------------------------------------------------------------------------
(* EventHandler.callback, on the event thread of the engine of p *)

CastBegin(p, e) ==
  /\ cast[p].at = "idle" /\ live[p] /\ casts < MaxCasts
  /\ casts' = casts + 1
  /\ cast' = [cast EXCEPT ![p] =
                [NoCast EXCEPT !.at = "size", !.event = e,
                               !.audience = Range(handlers)]]
  /\ UNCHANGED <<handlers, queue, uiVars, playerVars, stopVars, tellVars>>

\* i < size()
CastSize(p) ==
  /\ cast[p].at = "size"
  /\ cast' = [cast EXCEPT ![p].at =
                IF cast[p].i < Len(handlers) THEN "get" ELSE "over"]
  /\ UNCHANGED <<handlers, casts, queue, uiVars, playerVars, stopVars,
                 tellVars>>

\* get(i), which throws when the list has become shorter: the walk ends.
CastGet(p) ==
  LET i == cast[p].i IN
  /\ cast[p].at = "get"
  /\ cast' = [cast EXCEPT ![p] =
                IF i < Len(handlers)
                THEN [@ EXCEPT !.at = "send", !.target = handlers[i + 1]]
                ELSE [@ EXCEPT !.at = "over"]]
  /\ UNCHANGED <<handlers, casts, queue, uiVars, playerVars, stopVars,
                 tellVars>>

\* sendMessage, and i++
CastSend(p) ==
  LET q == cast[p].target IN
  /\ cast[p].at = "send"
  /\ queue' = Append(queue, [to |-> q, event |-> cast[p].event])
  /\ cast' = [cast EXCEPT ![p].at = "size", ![p].i = @ + 1,
                          ![p].target = NoPlayer, ![p].sent = Append(@, q)]
  /\ UNCHANGED <<handlers, casts, uiVars, playerVars, stopVars, tellVars>>

CastEnd(p) ==
  /\ cast[p].at = "over"
  /\ cast' = [cast EXCEPT ![p] = NoCast]
  /\ UNCHANGED <<handlers, casts, queue, uiVars, playerVars, stopVars,
                 tellVars>>

----------------------------------------------------------------------------
(* VideoPlayerEventHandler.handleMessage, on the UI thread *)

UiRuns == stopAt[Ui] = "idle"

Goto(label) ==
  /\ at' = label
  /\ to' = IF label = "loop" THEN NoPlayer ELSE to
  /\ ref' = FALSE
  /\ crash' = crash

Fail ==
  /\ crash' = at
  /\ UNCHANGED <<at, to, ref>>

\* `case` by event.  The owner of the handler, held weakly, is the callback
\* object: it can only have been collected once callBack is cleared.
FirstStep == [paused |-> "pausedTest", stopped |-> "stoppedTest",
              end |-> "endTest", position |-> "position",
              error |-> "errorCall"]

Dispatch ==
  LET m == Head(queue) IN
  /\ UiRuns /\ at = "loop" /\ queue # <<>>
  /\ queue' = Tail(queue)
  /\ \/ /\ at' = FirstStep[m.event] /\ to' = m.to
     \/ /\ ~callBack[m.to]
        /\ UNCHANGED <<at, to>>
  /\ UNCHANGED <<handlers, cast, casts, ref, crash, playerVars, stopVars,
                 tellVars>>

\* getLength() throws on a released player.
Position ==
  /\ UiRuns /\ at = "position"
  /\ \/ ~live[to] /\ Fail
     \/ live[to] /\ Goto(IF isOnPlayCallback[to] THEN "postRef" ELSE "playTest")
  /\ UNCHANGED <<busVars, playerVars, stopVars, tellVars>>

\* Mutant of EndReached: onComplete without onPlay when no position was sent.
EndReachedSilent ==
  /\ UiRuns /\ at = "endTest"
  /\ Goto("completeTest")
  /\ UNCHANGED <<busVars, playerVars, stopVars, tellVars>>

EndReached ==
  /\ UiRuns /\ at = "endTest"
  /\ \/ isOnPlayCallback[to] /\ Goto("completeTest")
     \/ ~isOnPlayCallback[to] /\ live[to] /\ Goto("endPlayTest")
     \/ ~isOnPlayCallback[to] /\ ~live[to] /\ Fail
  /\ UNCHANGED <<busVars, playerVars, stopVars, tellVars>>

\* `if (callBack != null)`, and for onStopped also `!isReleased()`.
Test(label, yes, no) ==
  /\ at = label
  /\ Goto(IF callBack[to] /\ (label = "stoppedTest" => live[to])
          THEN yes ELSE no)

\* Mutant of TestCallBack: the case EndReached breaks after onPlay's test.
TestCallBackBreak ==
  /\ UiRuns
  /\ \/ Test("pausedTest", "pausedRef", "loop")
     \/ Test("stoppedTest", "stoppedCall", "resetFlag")
     \/ Test("endPlayTest", "endPlayCall", "completeTest")
     \/ Test("completeTest", "loop", "loop")
     \/ Test("playTest", "playCall", "setFlag")
  /\ UNCHANGED <<busVars, playerVars, stopVars, tellVars>>

\* Mutant of TestCallBack: onComplete is called without a test, as onError is.
TestCallBackNot ==
  /\ UiRuns
  /\ \/ Test("pausedTest", "pausedRef", "loop")
     \/ Test("stoppedTest", "stoppedCall", "resetFlag")
     \/ Test("endPlayTest", "endPlayCall", "completeTest")
     \/ Test("completeTest", "completeCall", "completeCall")
     \/ Test("playTest", "playCall", "setFlag")
  /\ UNCHANGED <<busVars, playerVars, stopVars, tellVars>>

TestCallBack ==
  /\ UiRuns
  /\ \/ Test("pausedTest", "pausedRef", "loop")
     \/ Test("stoppedTest", "stoppedCall", "resetFlag")
     \/ Test("endPlayTest", "endPlayCall", "completeTest")
     \/ Test("completeTest", "completeCall", "loop")
     \/ Test("playTest", "playCall", "setFlag")
  /\ UNCHANGED <<busVars, playerVars, stopVars, tellVars>>

\* callBack.onX(mediaPlayer.getPosition()): the field is read, then the
\* argument, and only then does a null reference throw.
ReadRef ==
  /\ UiRuns /\ at \in {"pausedRef", "postRef"}
  /\ at' = IF at = "pausedRef" THEN "pausedCall" ELSE "postCall"
  /\ ref' = callBack[to]
  /\ UNCHANGED <<to, crash, busVars, playerVars, stopVars, tellVars>>

\* The call of a callback: where it goes on in the application, and what the
\* application knows afterwards.
Called == [pausedCall |-> "inLast", postCall |-> "inLast",
           errorCall |-> "inLast", completeCall |-> "inLast",
           stoppedCall |-> "inOnStopped", endPlayCall |-> "inEndPlay",
           playCall |-> "inOnPlay"]

Told(p, label) ==
  CASE label \in {"playCall", "endPlayCall"} -> "running"
    [] label = "completeCall" -> "complete"
    [] label = "stoppedCall" -> "idle"
    [] OTHER -> phase[p]

\* The call at this step goes through: no null reference, no released player.
CallWorks ==
  IF at \in {"pausedCall", "postCall"} THEN live[to] /\ ref ELSE callBack[to]

Call ==
  /\ UiRuns /\ at \in Calls
  /\ \/ /\ CallWorks
        /\ Goto(Called[at])
        /\ phase' = [phase EXCEPT ![to] = Told(to, at)]
     \/ /\ ~CallWorks
        /\ Fail
        /\ UNCHANGED phase
  /\ UNCHANGED <<busVars, playerVars, stopVars, isOnPlayCallback>>

AppReturns ==
  /\ UiRuns
  /\ \/ at = "inOnPlay" /\ Goto("setFlag")
     \/ at = "inEndPlay" /\ Goto("completeTest")
     \/ at = "inOnStopped" /\ Goto("resetFlag")
     \/ at = "inLast" /\ Goto("loop")
  /\ UNCHANGED <<busVars, playerVars, stopVars, tellVars>>

\* Mutant of SetFlag: the flag is only ever reset.
SetFlagNever ==
  /\ UiRuns /\ at \in {"setFlag", "resetFlag"}
  /\ isOnPlayCallback' = [isOnPlayCallback EXCEPT ![to] = FALSE]
  /\ Goto(IF at = "setFlag" THEN "postRef" ELSE "loop")
  /\ UNCHANGED <<busVars, playerVars, stopVars, phase>>

\* isOnPlayCallback = true, or = false.
SetFlag ==
  /\ UiRuns /\ at \in {"setFlag", "resetFlag"}
  /\ isOnPlayCallback' = [isOnPlayCallback EXCEPT ![to] = (at = "setFlag")]
  /\ Goto(IF at = "setFlag" THEN "postRef" ELSE "loop")
  /\ UNCHANGED <<busVars, playerVars, stopVars, phase>>

Handle ==
  \/ Dispatch \/ Position \/ EndReached \/ TestCallBack \/ ReadRef \/ Call
  \/ AppReturns \/ SetFlag

----------------------------------------------------------------------------
(* ZMediaPlayer.stop() on thread t *)

\* The handler of p holds the monitor of its MediaPlayer around onStopped.
MonitorFree(t, p) == t = Ui \/ to # p \/ at \notin {"stoppedCall", "inOnStopped"}

StopGo(t, label) == stopAt' = [stopAt EXCEPT ![t] = label]

\* if (stopped) return
StopCall(t, p) ==
  /\ stopAt[t] = "idle" /\ (t = Ui => UiFree)
  /\ p \in built \ stopped
  /\ StopGo(t, "set")
  /\ stopOf' = [stopOf EXCEPT ![t] = p]
  /\ UNCHANGED <<busVars, uiVars, playerVars, gone, tellVars>>

\* stopped = true
StopSet(t) ==
  /\ stopAt[t] = "set"
  /\ stopped' = stopped \cup {stopOf[t]}
  /\ StopGo(t, "remove")
  /\ UNCHANGED <<busVars, uiVars, built, callBack, hidden, live, stopOf, gone,
                 tellVars>>

\* removeHandler(eventHandler): the first that is equal goes, the rest moves up.
StopRemove(t) ==
  LET p == stopOf[t] IN
  /\ stopAt[t] = "remove"
  /\ handlers' = RemoveFirst(handlers, p)
  /\ cast' = [c \in Players |->
                IF cast[c].at # "idle" /\ p \in Range(handlers)
                THEN [cast[c] EXCEPT !.removed = @ + 1] ELSE cast[c]]
  /\ StopGo(t, "purge")
  /\ UNCHANGED <<casts, queue, uiVars, playerVars, stopOf, gone, tellVars>>

\* removeCallbacksAndMessages(null): the other messages keep their order.
Purged(p) ==
  LET kept == {i \in DOMAIN queue : queue[i].to # p}
      nth(k) == CHOOSE i \in kept : Cardinality({j \in kept : j <= i}) = k
  IN [k \in 1 .. Cardinality(kept) |-> queue[nth(k)]]

StopPurge(t) ==
  /\ stopAt[t] = "purge"
  /\ queue' = Purged(stopOf[t])
  /\ StopGo(t, "clear")
  /\ UNCHANGED <<handlers, cast, casts, uiVars, playerVars, stopOf, gone,
                 tellVars>>

\* Mutant of StopClear: callBack is kept.
StopClearKeep(t) ==
  /\ stopAt[t] = "clear"
  /\ StopGo(t, "engine")
  /\ UNCHANGED <<busVars, uiVars, playerVars, stopOf, gone, tellVars>>

\* callBack = null, a plain field.
StopClear(t) ==
  LET p == stopOf[t] IN
  /\ stopAt[t] = "clear"
  /\ \/ /\ t = Ui
        /\ callBack' = [callBack EXCEPT ![p] = FALSE]
        /\ UNCHANGED hidden
     \/ /\ t # Ui
        /\ hidden' = hidden \cup {p}
        /\ UNCHANGED callBack
  /\ StopGo(t, "engine")
  /\ UNCHANGED <<busVars, uiVars, built, stopped, live, stopOf, gone,
                 tellVars>>

\* mediaPlayer.stop(), which throws on a released player.
StopEngine(t) ==
  LET p == stopOf[t] IN
  /\ stopAt[t] = "engine" /\ MonitorFree(t, p)
  /\ \/ /\ live[p]
        /\ StopGo(t, "release")
        /\ UNCHANGED crash
     \/ /\ ~live[p]
        /\ crash' = "stop"
        /\ UNCHANGED stopAt
  /\ UNCHANGED <<busVars, at, to, ref, playerVars, stopOf, gone, tellVars>>

\* Mutant of StopRelease: the player is not released.
StopReleaseNot(t) ==
  LET p == stopOf[t] IN
  /\ stopAt[t] = "release" /\ MonitorFree(t, p)
  /\ gone' = gone \cup {p}
  /\ StopGo(t, "idle")
  /\ stopOf' = [stopOf EXCEPT ![t] = NoPlayer]
  /\ UNCHANGED <<busVars, uiVars, playerVars, tellVars>>

\* mediaPlayer.release(), and return
StopRelease(t) ==
  LET p == stopOf[t] IN
  /\ stopAt[t] = "release" /\ MonitorFree(t, p)
  /\ live' = [live EXCEPT ![p] = FALSE]
  /\ gone' = gone \cup {p}
  /\ StopGo(t, "idle")
  /\ stopOf' = [stopOf EXCEPT ![t] = NoPlayer]
  /\ UNCHANGED <<busVars, uiVars, built, stopped, callBack, hidden, tellVars>>

StopStep(t) ==
  \/ StopSet(t) \/ StopRemove(t) \/ StopPurge(t) \/ StopClear(t)
  \/ StopEngine(t) \/ StopRelease(t)

\* The UI thread sees a callBack that another thread has cleared.
Publish(p) ==
  /\ p \in hidden
  /\ hidden' = hidden \ {p}
  /\ callBack' = [callBack EXCEPT ![p] = FALSE]
  /\ UNCHANGED <<busVars, uiVars, built, stopped, live, stopVars, tellVars>>

----------------------------------------------------------------------------

CastStep(p) == CastSize(p) \/ CastGet(p) \/ CastSend(p) \/ CastEnd(p)

Next ==
  /\ crash = "none"
  /\ \/ \E p \in Players : \/ Construct(p) \/ CastStep(p) \/ Publish(p)
                           \/ \E e \in Events : CastBegin(p, e)
                           \/ \E t \in Threads : StopCall(t, p)
     \/ \E t \in Threads : StopStep(t)
     \/ Handle

\* Threads are scheduled and the looper runs; the application returns from its
\* callbacks.  No event has to happen.
Fairness ==
  /\ \A p \in Players : WF_vars(crash = "none" /\ CastStep(p))
  /\ \A t \in Threads : WF_vars(crash = "none" /\ StopStep(t))
  /\ WF_vars(crash = "none" /\ Handle)

SafeSpec == Init /\ [][Next]_vars
Spec == SafeSpec /\ Fairness

----------------------------------------------------------------------------
(* Properties *)

TypeOK ==
  /\ handlers \in Seq(Players)
  /\ queue \in Seq([to : Players, event : AllEvents])
  /\ casts \in 0..MaxCasts
  /\ at \in Labels /\ to \in Players \cup {NoPlayer} /\ ref \in BOOLEAN
  /\ (at = "loop") <=> (to = NoPlayer)
  /\ crash \in {"none", "stop"} \cup Labels
  /\ \A s \in {built, stopped, hidden, gone} : s \subseteq Players
  /\ callBack \in [Players -> BOOLEAN] /\ live \in [Players -> BOOLEAN]
  /\ isOnPlayCallback \in [Players -> BOOLEAN]
  /\ phase \in [Players -> {"idle", "running", "complete"}]
  /\ stopAt \in [Threads -> {"idle", "set", "remove", "purge", "clear",
                             "engine", "release"}]
  /\ stopOf \in [Threads -> Players \cup {NoPlayer}]
  /\ \A t \in Threads : (stopAt[t] = "idle") <=> (stopOf[t] = NoPlayer)

\* onPostPosition and onComplete never reach an application that was not told
\* onPlay since it started or since onStopped, although the events of all
\* engines reach all players, in any order (handleMessage).
OnPlayFirst ==
  (at \in {"postCall", "completeCall"} /\ CallWorks) => phase[to] # "idle"

\* onPlay is not repeated within one run of the media: between two of them the
\* application was told onComplete or onStopped (isOnPlayCallback).
OnPlayOncePerRun ==
  (at \in {"playCall", "endPlayCall"} /\ CallWorks) => phase[to] # "running"

\* With stop() confined to the UI thread, the application hears nothing of a
\* player after stop() has returned, not even for messages that were sent
\* while its handler was being removed.
NothingAfterStop ==
  (Workers = {}) => ((at \in Calls /\ CallWorks) => to \notin gone)

\* With stop() confined to the UI thread, an exception leaves the handler only
\* for a player whose stop() has returned, in a late message or after a callback
\* that stopped it, and only where the code relies on the player without a test:
\* getLength(), getPosition(), and onError.  The calls behind a test of callBack
\* never throw, although the application runs in between (handleMessage, stop).
CrashOnlyAfterStop ==
  (Workers = {} /\ crash # "none") =>
    to \in gone /\ crash \in {"position", "endTest", "postCall", "errorCall"}

\* One walk over the list of handlers sends a handler the event at most once,
\* whatever is added to or removed from the list meanwhile, and misses at most
\* one registered handler for each handler that was removed during the walk:
\* index shifting skips no more than that, and a walk over an unchanged list
\* reaches everyone (EventHandler.callback, addHandler, removeHandler).
WalkReaches ==
  \A p \in Players :
    /\ IsInjective(cast[p].sent)
    /\ cast[p].at = "over" =>
         Cardinality((cast[p].audience \cap Range(handlers))
                       \ Range(cast[p].sent)) <= cast[p].removed

\* The end of the media that reached the looper is reported: the application
\* hears onComplete, unless it stops the player or an exception ends it all.
EndReported ==
  \A p \in Players :
    (\E i \in DOMAIN queue : queue[i] = [to |-> p, event |-> "end"])
      ~> (phase[p] = "complete" \/ p \in stopped \/ crash # "none")

----------------------------------------------------------------------------
(* What the code says of itself *)

\* The call marked "TODO:warning: may produce NPE" (onPostPosition) finds a
\* callback when its argument, the position of a live player, was read.
PostPositionHasTarget ==
  (at = "postCall" /\ live[to]) => ref
=============================================================================
