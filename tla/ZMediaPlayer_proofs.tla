------------------------ MODULE ZMediaPlayer_proofs ------------------------
(***************************************************************************)
(* Proofs about the three models of ZMediaPlayer that share no step with   *)
(* the others: MediaOwnership, for any threads and media, VlcOptions, for  *)
(* any speeds, numbers of processors and preferences, and PlayerLayout,    *)
(* for any sizes of containers and videos.                                 *)
(***************************************************************************)
EXTENDS MediaOwnership, VlcOptions, PlayerLayout, TLAPS

----------------------------------------------------------------------------
(* The media: the inductive invariant *)

Owned(m) == IF \E t \in Threads : own[t] = m THEN 1 ELSE 0
Held(m) == IF player # "released" /\ mMedia = m THEN 1 ELSE 0

\* A play() in progress has a media of its own, which no other one has and
\* which did not fail.
Distinct ==
  /\ \A t \in Threads :
       /\ pc[t] \in {"setMedia", "release"} <=> own[t] # NoMedia
       /\ own[t] # NoMedia => own[t] \in created \ failed
  /\ \A t, u \in Threads : own[t] = own[u] /\ own[t] # NoMedia => t = u
  /\ mMedia # NoMedia => mMedia \in created
  /\ failed \subseteq created

\* One thread releases the player, and setMedia fails only afterwards.
OneRelease ==
  /\ \A t \in Threads : pc[t] = "onReleaseNative" => player = "releasing"
  /\ \A t, u \in Threads :
       pc[t] = "onReleaseNative" /\ pc[u] = "onReleaseNative" => t = u
  /\ failed # {} => player = "released"

\* The count of a media is the number of its holders; after a setMedia on the
\* released player, which releases mMedia again, it may be less.
Counted ==
  /\ \A m \in created \ failed : count[m] <= Owned(m) + Held(m)
  /\ failed = {} => \A m \in created : count[m] = Owned(m) + Held(m)

IInv == TypeOK /\ FreshWhenSet /\ Distinct /\ OneRelease /\ Counted

----------------------------------------------------------------------------
(* Preservation, one lemma per action *)

\* The initial states satisfy the invariant: there are no media.
LEMMA InitIInv == Init => IInv
BY MediaAssumption
DEF Init, IInv, TypeOK, FreshWhenSet, Distinct, OneRelease, Counted, Owned, Held

\* The new media has one holder, the thread that created it.
LEMMA NewMediaKeeps ==
  ASSUME IInv, NEW t \in Threads, NEW m \in Medias, NewMedia(t, m)
  PROVE  IInv'
<1> USE MediaAssumption DEF IInv, NewMedia
<1>1. own[t] = NoMedia /\ \A u \in Threads : own[u] # m
  BY DEF TypeOK, Distinct
<1>2. TypeOK'
  BY DEF TypeOK
<1>3. Distinct' /\ FreshWhenSet'
  BY <1>1 DEF TypeOK, Distinct, FreshWhenSet
<1>4. OneRelease'
  BY DEF TypeOK, OneRelease
<1>5. Owned(m)' = 1 /\ Held(m)' = 0 /\ m \notin failed
  BY DEF TypeOK, Distinct, Owned, Held
<1>6. ASSUME NEW n \in created PROVE Owned(n)' = Owned(n) /\ Held(n)' = Held(n)
  BY <1>1 DEF TypeOK, Owned, Held
<1>7. \A n \in created : count'[n] = count[n]
  BY DEF TypeOK
<1>8. count'[m] = 1
  BY DEF TypeOK
<1>9. Counted'
  BY <1>5, <1>6, <1>7, <1>8 DEF TypeOK, Distinct, Counted
<1> QED
  BY <1>2, <1>3, <1>4, <1>9

\* The player becomes a holder of the new media instead of the old one; on a
\* released player the new media is one that failed.
LEMMA SetMediaKeeps ==
  ASSUME IInv, NEW t \in Threads, SetMedia(t)
  PROVE  IInv'
<1> USE MediaAssumption DEF IInv
<1>0. PICK m \in Medias : own[t] = m
  BY DEF TypeOK, Distinct, SetMedia
<1>1. /\ m \in created \ failed /\ m # mMedia /\ own[t] = m
      /\ count[m] = 1 /\ pc[t] = "setMedia"
      /\ \A u \in Threads : own[u] = m => u = t
  BY <1>0 DEF TypeOK, Distinct, FreshWhenSet, SetMedia
<1>2. Release(count, mMedia)[m] = 1
  BY <1>1 DEF TypeOK, Release
<1>3. /\ count' = Retain(Release(count, mMedia), m)
      /\ mMedia' = m /\ NativeSetMedia(t, m) /\ UNCHANGED <<created, player>>
  BY <1>1, <1>2 DEF SetMedia
<1>4. /\ count' \in [Medias -> 0..2] /\ count'[m] = 2
      /\ \A n \in Medias \ {m} :
           count'[n] = IF n = mMedia /\ count[n] > 0 THEN count[n] - 1 ELSE count[n]
  BY <1>1, <1>3 DEF TypeOK, Release, Retain
<1>5. CASE player = "released"
  <2>1. /\ failed' = failed \cup {m} /\ own' = [own EXCEPT ![t] = NoMedia]
        /\ pc' = [pc EXCEPT ![t] = "idle"]
    BY <1>3, <1>5 DEF NativeSetMedia
  <2>2. TypeOK'
    BY <1>1, <1>3, <1>4, <2>1 DEF TypeOK
  <2>3. Distinct'
    BY <1>1, <1>3, <2>1 DEF TypeOK, Distinct
  <2>4. FreshWhenSet'
    BY <1>1, <1>3, <1>4, <2>1 DEF TypeOK, Distinct, FreshWhenSet
  <2>5. OneRelease'
    BY <1>3, <1>5, <2>1 DEF TypeOK, OneRelease
  <2>6. ASSUME NEW n \in Medias \ {m}
        PROVE  Owned(n)' = Owned(n) /\ Held(n)' = Held(n) /\ count'[n] <= count[n]
    BY <1>1, <1>3, <1>4, <1>5, <2>1 DEF TypeOK, Owned, Held
  <2>7. Counted'
    BY <1>1, <1>3, <1>4, <2>1, <2>6 DEF TypeOK, Counted, Owned, Held
  <2> QED
    BY <2>2, <2>3, <2>4, <2>5, <2>7
<1>6. CASE player # "released"
  <2>1. pc' = [pc EXCEPT ![t] = "release"] /\ UNCHANGED <<own, failed>>
    BY <1>3, <1>6 DEF NativeSetMedia
  <2>2. failed = {}
    BY <1>6 DEF OneRelease
  <2>3. TypeOK'
    BY <1>1, <1>3, <1>4, <2>1 DEF TypeOK
  <2>4. Distinct'
    BY <1>1, <1>3, <2>1 DEF TypeOK, Distinct
  <2>5. FreshWhenSet'
    BY <1>1, <1>3, <1>4, <2>1 DEF TypeOK, Distinct, FreshWhenSet
  <2>6. OneRelease'
    BY <1>3, <2>1 DEF TypeOK, OneRelease
  <2>7. Owned(m)' = 1 /\ Held(m)' = 1
    BY <1>1, <1>3, <1>6, <2>1 DEF Owned, Held
  <2>8. ASSUME NEW n \in created \ {m}
        PROVE  count'[n] = Owned(n)' + Held(n)'
    <3>1. count[n] = Owned(n) + Held(n)
      BY <2>2 DEF Counted
    <3>2. Owned(n)' = Owned(n) /\ Held(n)' = 0 /\ Owned(n) \in {0, 1}
      BY <1>3, <2>1 DEF Owned, Held
    <3>3. Held(n) = IF n = mMedia THEN 1 ELSE 0
      BY <1>6 DEF Held
    <3>4. n \in Medias /\ count[n] \in 0..2
      BY DEF TypeOK
    <3> QED
      BY <1>4, <3>1, <3>2, <3>3, <3>4
  <2>9. Counted'
    BY <1>3, <1>4, <2>1, <2>2, <2>7, <2>8 DEF TypeOK, Counted
  <2> QED
    BY <2>3, <2>4, <2>5, <2>6, <2>9
<1> QED
  BY <1>5, <1>6

\* The thread is no holder any more.
LEMMA ReleaseOwnKeeps ==
  ASSUME IInv, NEW t \in Threads, ReleaseOwn(t)
  PROVE  IInv'
<1> USE MediaAssumption DEF IInv, ReleaseOwn
<1>0. PICK m \in Medias : own[t] = m
  BY DEF TypeOK, Distinct
<1>1. /\ m \in created \ failed /\ own[t] = m
      /\ \A u \in Threads : own[u] = m => u = t
  BY <1>0 DEF TypeOK, Distinct
<1>2. /\ count' \in [Medias -> 0..2]
      /\ count'[m] = IF count[m] > 0 THEN count[m] - 1 ELSE 0
      /\ \A n \in Medias \ {m} : count'[n] = count[n]
  BY <1>1 DEF TypeOK, Release
<1>3. TypeOK'
  BY <1>2 DEF TypeOK
<1>4. Distinct'
  BY <1>1 DEF TypeOK, Distinct
<1>5. FreshWhenSet'
  BY <1>1, <1>2 DEF TypeOK, Distinct, FreshWhenSet
<1>6. OneRelease'
  BY DEF TypeOK, OneRelease
<1>7. Owned(m) = 1 /\ Owned(m)' = 0 /\ Held(m)' = Held(m) /\ Held(m) \in {0, 1}
  BY <1>1 DEF TypeOK, Owned, Held
<1>8. ASSUME NEW n \in created \ {m}
      PROVE  Owned(n)' = Owned(n) /\ Held(n)' = Held(n) /\ count'[n] = count[n]
  BY <1>1, <1>2 DEF TypeOK, Owned, Held
<1>9. Counted'
  BY <1>1, <1>2, <1>7, <1>8 DEF TypeOK, Counted
<1> QED
  BY <1>3, <1>4, <1>5, <1>6, <1>9

\* Only the state of the player changes.
LEMMA ReleasePlayerKeeps ==
  ASSUME IInv, NEW t \in Threads, ReleasePlayer(t)
  PROVE  IInv'
<1> USE DEF IInv, ReleasePlayer
<1>1. TypeOK' /\ FreshWhenSet' /\ Distinct'
  BY DEF TypeOK, FreshWhenSet, Distinct
<1>2. OneRelease'
  BY DEF TypeOK, OneRelease
<1>3. Counted'
  BY DEF TypeOK, Counted, Owned, Held
<1> QED
  BY <1>1, <1>2, <1>3

\* The player is no holder any more.
LEMMA onReleaseNativeKeeps ==
  ASSUME IInv, NEW t \in Threads, onReleaseNative(t)
  PROVE  IInv'
<1> USE MediaAssumption DEF IInv, onReleaseNative
<1>1. player = "releasing" /\ failed = {}
  BY DEF OneRelease
<1>2. /\ count' \in [Medias -> 0..2]
      /\ \A n \in Medias :
           count'[n] = IF n = mMedia /\ count[n] > 0 THEN count[n] - 1 ELSE count[n]
  BY DEF TypeOK, Release
<1>3. TypeOK'
  BY <1>2 DEF TypeOK
<1>4. Distinct' /\ FreshWhenSet'
  BY <1>2 DEF TypeOK, Distinct, FreshWhenSet
<1>5. OneRelease'
  BY DEF TypeOK, OneRelease
<1>6. ASSUME NEW n \in created PROVE count'[n] = Owned(n)' + Held(n)'
  <2>1. n \in Medias /\ count[n] \in 0..2 /\ count[n] = Owned(n) + Held(n)
    BY <1>1 DEF TypeOK, Counted
  <2>2. Owned(n)' = Owned(n) /\ Held(n)' = 0 /\ Owned(n) \in {0, 1}
    BY DEF Owned, Held
  <2>3. Held(n) = IF n = mMedia THEN 1 ELSE 0
    BY <1>1 DEF Held
  <2> QED
    BY <1>2, <2>1, <2>2, <2>3
<1>7. Counted'
  BY <1>1, <1>2, <1>6 DEF TypeOK, Counted
<1> QED
  BY <1>3, <1>4, <1>5, <1>7

\* Every step, and every stutter, keeps the invariant.
LEMMA NextKeeps == IInv /\ [Next]_vars => IInv'
<1> SUFFICES ASSUME IInv, [Next]_vars PROVE IInv'
  OBVIOUS
<1>1. ASSUME NEW t \in Threads, Step(t) PROVE IInv'
  BY <1>1, NewMediaKeeps, SetMediaKeeps, ReleaseOwnKeeps, ReleasePlayerKeeps,
     onReleaseNativeKeeps DEF Step
<1>2. CASE UNCHANGED vars
  BY <1>2 DEF vars, IInv, TypeOK, FreshWhenSet, Distinct, OneRelease, Counted,
              Owned, Held
<1> QED
  BY <1>1, <1>2 DEF Next

\* The invariant holds always.
LEMMA Invariant == Spec => []IInv
BY InitIInv, NextKeeps, PTL DEF Spec

----------------------------------------------------------------------------
(* The theorems *)

\* The variables keep their types; in particular no media ever has more than
\* two references (play, setMedia, release).
THEOREM TypeCorrect == Spec => []TypeOK
<1>1. IInv => TypeOK
  BY DEF IInv
<1> QED
  BY <1>1, Invariant, PTL

\* setMedia never refuses the media that play() gives it, so that mMedia is never
\* left with a media it has already released (setMedia).
THEOREM MediaAccepted == Spec => []FreshWhenSet
<1>1. IInv => FreshWhenSet
  BY DEF IInv
<1> QED
  BY <1>1, Invariant, PTL

\* The media of a player that is not released is alive (setMedia).
THEOREM PlayerHoldsMedia == Spec => []CurrentIsAlive
<1>1. ASSUME IInv, player # "released", mMedia # NoMedia PROVE count[mMedia] >= 1
  <2>1. failed = {} /\ mMedia \in created
    BY <1>1 DEF IInv, OneRelease, Distinct
  <2>2. count[mMedia] = Owned(mMedia) + 1 /\ Owned(mMedia) \in {0, 1}
    BY <1>1, <2>1 DEF IInv, Counted, Held, Owned
  <2> QED
    BY <2>2
<1>2. IInv => CurrentIsAlive
  BY <1>1 DEF CurrentIsAlive
<1> QED
  BY <1>2, Invariant, PTL

\* The media of a play() in progress is alive, while no setMedia has failed
\* (play, setMedia).
THEOREM CreatorHoldsMedia == Spec => []OwnedIsAlive
<1>1. ASSUME IInv, failed = {}, NEW t \in Threads, own[t] # NoMedia
      PROVE  count[own[t]] >= 1
  <2>1. own[t] \in created
    BY <1>1 DEF IInv, Distinct
  <2>2. Owned(own[t]) = 1 /\ Held(own[t]) \in {0, 1}
    BY DEF Owned, Held
  <2>3. count[own[t]] = Owned(own[t]) + Held(own[t])
    BY <1>1, <2>1 DEF IInv, Counted
  <2> QED
    BY <2>2, <2>3
<1>2. IInv => OwnedIsAlive
  BY <1>1 DEF OwnedIsAlive
<1> QED
  BY <1>2, Invariant, PTL

\* When the player is released and no play() is under way, every media that
\* reached the player is released (play, setMedia, onReleaseNative).
THEOREM NothingLeaks == Spec => []ReleasedWhenUnused
<1>1. ASSUME IInv, player = "released", \A t \in Threads : pc[t] = "idle",
             NEW m \in created \ failed
      PROVE  count[m] = 0
  <2>1. m \in Medias /\ m # NoMedia /\ count[m] \in 0..2
    BY <1>1, MediaAssumption DEF IInv, TypeOK
  <2>2. \A t \in Threads : own[t] # m
    BY <1>1, <2>1 DEF IInv, Distinct
  <2>3. Owned(m) = 0 /\ Held(m) = 0
    BY <1>1, <2>2 DEF Owned, Held
  <2>4. count[m] <= Owned(m) + Held(m)
    BY <1>1 DEF IInv, Counted
  <2> QED
    BY <2>1, <2>3, <2>4
<1>2. IInv => ReleasedWhenUnused
  BY <1>1 DEF ReleasedWhenUnused
<1> QED
  BY <1>2, Invariant, PTL

\* Whoever holds a media, the player or the play() that created it, holds one
\* that is alive (play, setMedia, onReleaseNative).
THEOREM HeldMediaAlive == Spec => []HeldIsAlive
<1>1. CurrentIsAlive /\ OwnedIsAlive => HeldIsAlive
  BY DEF HeldIsAlive
<1> QED
  BY <1>1, PlayerHoldsMedia, CreatorHoldsMedia, PTL

----------------------------------------------------------------------------
(* The options *)

\* The devices there are.
Devices == MachineSpecs \cup {NoSpecs}

\* The two devices are comparable, and the options are those of getLibOptions.
OptionInv ==
  /\ deblocking \in Preferences /\ networkCaching \in Caches
  /\ specs \in Devices /\ faster \in Devices
  /\ AtLeastAsFast(faster, specs)
  /\ Built => options = [d \in {specs, faster} |->
                           [skipLoopFilter |-> DeblockingOption(d),
                            caching |-> NetworkCaching]]

\* It holds of every state.
LEMMA OptionsInductive == OptionsSpec => []OptionInv
<1>1. OptionsInit => OptionInv
  <2> SUFFICES ASSUME OptionsInit
               PROVE  OptionInv
    OBVIOUS
  <2>1. /\ deblocking \in Preferences /\ networkCaching \in Caches
        /\ specs \in Devices
    BY DEF OptionsInit, Devices
  <2>2. faster \in Devices /\ AtLeastAsFast(faster, specs)
    BY DEF OptionsInit, Devices
  <2>3. ~Built
    BY Zenon DEF OptionsInit, Built
  <2> QED
    BY <2>1, <2>2, <2>3, Zenon DEF OptionInv
<1>2. OptionInv /\ [OptionsNext]_optionVars => OptionInv'
  <2> SUFFICES ASSUME OptionInv, [OptionsNext]_optionVars
               PROVE  OptionInv'
    OBVIOUS
  <2>1. UNCHANGED <<deblocking, networkCaching, specs, faster>>
    BY DEF OptionsNext, getLibOptions, optionVars
  <2>2. /\ \A m : DeblockingOption(m)' = DeblockingOption(m)
        /\ NetworkCaching' = NetworkCaching
    BY <2>1 DEF DeblockingOption, getDeblocking, NetworkCaching
  <2>3. /\ (deblocking \in Preferences /\ networkCaching \in Caches)'
        /\ (specs \in Devices /\ faster \in Devices)'
        /\ AtLeastAsFast(faster, specs)'
    BY <2>1 DEF OptionInv, Devices, AtLeastAsFast
  <2>4. \/ options' = options
        \/ options' = [d \in {specs, faster} |->
                         [skipLoopFilter |-> DeblockingOption(d),
                          caching |-> NetworkCaching]]
    BY DEF OptionsNext, getLibOptions, optionVars
  <2>5. Built' => options' = [d \in {specs, faster} |->
                               [skipLoopFilter |-> DeblockingOption(d),
                                caching |-> NetworkCaching]]
    BY <2>4, Zenon DEF OptionInv, Built
  <2> QED
    BY <2>1, <2>2, <2>3, <2>5 DEF OptionInv
<1> QED
  BY <1>1, <1>2, PTL DEF OptionsSpec

\* The levels a device that is known can get, with no preference.
LEMMA DefaultLevel ==
  ASSUME NEW m \in Devices
  PROVE  DefaultDeblocking(m) \in {1, 3, 4}
BY DEF DefaultDeblocking

\* A level is a number, whatever text is stored.
LEMMA LevelType ==
  ASSUME OptionInv, NEW m \in Devices
  PROVE  DeblockingOption(m) \in Int
<1>1. deblocking # NotANumber => deblocking \in Int
  BY OptionAssumption DEF OptionInv
<1> QED
  BY <1>1, DefaultLevel DEF DeblockingOption, getDeblocking

\* The network cache stays in its bounds.
LEMMA CachingType ==
  OptionInv => NetworkCaching \in 0 .. MaxCaching
<1> SUFFICES ASSUME OptionInv
             PROVE  NetworkCaching \in 0 .. MaxCaching
  OBVIOUS
<1>1. networkCaching \in Int
  BY OptionAssumption DEF OptionInv
<1>2. MaxCaching \in Nat
  BY DEF MaxCaching
<1> QED
  BY <1>1, <1>2 DEF NetworkCaching

\* A device nothing is known of is comparable to itself only.
LEMMA KnownTogether ==
  ASSUME NEW n \in Devices, NEW m \in Devices, AtLeastAsFast(n, m)
  PROVE  (n = NoSpecs) <=> (m = NoSpecs)
BY OptionAssumption DEF Devices, MachineSpecs, NoSpecs, AtLeastAsFast

\* The levels that are chosen for two devices.
LEMMA DefaultFalls ==
  ASSUME NEW n \in MachineSpecs,
         NEW m \in MachineSpecs, AtLeastAsFast(n, m)
  PROVE  DefaultDeblocking(n) <= DefaultDeblocking(m)
<1>1. /\ n.cpu = m.cpu /\ n.processors >= m.processors
      /\ n.frequency >= m.frequency /\ n.bogoMIPS >= m.bogoMIPS
  BY DEF AtLeastAsFast
<1>2. /\ n.processors \in Int /\ m.processors \in Int
      /\ n.frequency \in Int /\ m.frequency \in Int
      /\ n.bogoMIPS \in Int /\ m.bogoMIPS \in Int
  <2>1. /\ Unknown \in Int
        /\ \A x \in Speeds : x \in Int
        /\ \A x \in Processors : x \in Int
    BY OptionAssumption DEF Unknown
  <2>2. ASSUME NEW k \in MachineSpecs
        PROVE  /\ k.processors \in Int /\ k.frequency \in Int
               /\ k.bogoMIPS \in Int
    <3>1. /\ k.processors \in Processors /\ k.bogoMIPS \in Speeds
          /\ k.frequency \in Speeds \cup {Unknown}
      BY DEF MachineSpecs
    <3> QED
      BY <2>1, <3>1, Zenon
  <2> QED
    BY <2>2
<1>3. m.processors > 2 /\ (m.frequency >= 1200 \/ m.bogoMIPS >= 1200) =>
        n.processors > 2 /\ (n.frequency >= 1200 \/ n.bogoMIPS >= 1200)
  BY <1>1, <1>2
<1> QED
  BY <1>1, <1>3 DEF DefaultDeblocking

\* ... also when a preference is set.
LEMMA LevelFalls ==
  ASSUME OptionInv, NEW n \in Devices, NEW m \in Devices, AtLeastAsFast(n, m)
  PROVE  DeblockingOption(n) <= DeblockingOption(m)
<1>1. (n = NoSpecs) <=> (m = NoSpecs)
  BY KnownTogether DEF OptionInv
<1>2. deblocking # NotANumber => deblocking \in Int
  BY OptionAssumption DEF OptionInv
<1>3. CASE deblocking # NotANumber /\ deblocking < 0 /\ m # NoSpecs
  <2>1. n \in MachineSpecs /\ m \in MachineSpecs
    BY <1>1, <1>3 DEF Devices
  <2>2. DefaultDeblocking(n) <= DefaultDeblocking(m)
    BY <2>1, DefaultFalls DEF OptionInv
  <2> QED
    BY <1>1, <1>3, <2>2 DEF DeblockingOption, getDeblocking
<1>4. CASE deblocking # NotANumber /\ ~(deblocking < 0 /\ m # NoSpecs)
  BY <1>1, <1>2, <1>4 DEF DeblockingOption, getDeblocking
<1>5. CASE deblocking = NotANumber
  BY <1>5 DEF DeblockingOption
<1> QED
  BY <1>3, <1>4, <1>5

\* The options have their types (ZMediaPlayer.getLibOptions).
THEOREM OptionTypes == OptionsSpec => []OptionsTypeOK
<1>1. OptionInv => OptionsTypeOK
  <2> SUFFICES ASSUME OptionInv
               PROVE  OptionsTypeOK
    OBVIOUS
  <2>1. \A d \in {specs, faster} :
          [skipLoopFilter |-> DeblockingOption(d),
           caching |-> NetworkCaching] \in
             [skipLoopFilter : Int, caching : 0 .. MaxCaching]
    BY LevelType, CachingType DEF OptionInv
  <2>2. Built => options \in
                [{specs, faster} ->
                  [skipLoopFilter : Int, caching : 0 .. MaxCaching]]
    BY <2>1, Zenon DEF OptionInv
  <2> QED
    BY <2>2 DEF OptionInv, OptionsTypeOK, Devices
<1> QED
  BY <1>1, OptionsInductive, PTL

\* A device that is at least as fast never skips more of the loop filter; a
\* preference is respected, and every level exists, but on a device nothing is
\* known of and for a preference that is no number (ZMediaPlayer.getDeblocking,
\* getLibOptions).
THEOREM FasterNeverSkipsMore == OptionsSpec => []FasterSkipsNoMore
<1>1. OptionInv => FasterSkipsNoMore
  <2> SUFFICES ASSUME OptionInv, Built
               PROVE  FasterSkipsNoMore
    BY DEF FasterSkipsNoMore
  <2>1. /\ SkipLoopFilter(specs) = DeblockingOption(specs)
        /\ SkipLoopFilter(faster) = DeblockingOption(faster)
    BY DEF OptionInv, SkipLoopFilter
  <2>2. DeblockingOption(faster) <= DeblockingOption(specs)
    BY LevelFalls DEF OptionInv
  <2>3. CASE deblocking = NotANumber
    <3>1. DeblockingOption(specs) = -1 /\ deblocking \notin 0 .. 4
      BY <2>3, OptionAssumption DEF DeblockingOption
    <3> QED
      BY <2>1, <2>2, <2>3, <3>1 DEF FasterSkipsNoMore
  <2>4. CASE deblocking # NotANumber
    <3>1. deblocking \in Int /\ DeblockingOption(specs) = getDeblocking(specs)
      BY <2>4, OptionAssumption DEF OptionInv, DeblockingOption
    <3>2. deblocking \in 0 .. 4 => getDeblocking(specs) = deblocking
      BY <3>1 DEF getDeblocking
    <3>3. \/ getDeblocking(specs) \in 0 .. 4
          \/ deblocking < 0 /\ specs = NoSpecs
      BY <3>1, DefaultLevel DEF OptionInv, getDeblocking
    <3> QED
      BY <2>1, <2>2, <2>4, <3>1, <3>2, <3>3 DEF FasterSkipsNoMore
  <2> QED
    BY <2>3, <2>4
<1> QED
  BY <1>1, OptionsInductive, PTL

----------------------------------------------------------------------------
(* The layout: products and quotients *)

Positive == Nat \ {0}
Fractions == Positive \X Positive

LEMMA Products ==
  ASSUME NEW a \in Positive, NEW b \in Positive
  PROVE  a * b \in Positive
BY DEF Positive

\* A product of natural numbers that is not 0 has factors that are not 0.
LEMMA Factors ==
  ASSUME NEW a \in Nat, NEW b \in Nat, a * b # 0
  PROVE  a \in Positive /\ b \in Positive
BY DEF Positive

\* What is multiplied by the same number keeps its order.
LEMMA LessTimes ==
  ASSUME NEW a \in Int, NEW b \in Int, NEW c \in Positive
  PROVE  /\ a < b <=> a * c < b * c
         /\ a <= b <=> a * c <= b * c
<1>1. c \in Int /\ c > 0
  BY DEF Positive
<1>2. b * c - a * c = (b - a) * c
  BY <1>1
<1>3. ASSUME a < b PROVE a * c < b * c
  BY <1>1, <1>3
<1>4. ASSUME b <= a PROVE b * c <= a * c
  BY <1>1, <1>4
<1>5. ASSUME a <= b PROVE a * c <= b * c
  BY <1>1, <1>5
<1>6. ASSUME b < a PROVE b * c < a * c
  BY <1>1, <1>6
<1>7. a * c \in Int /\ b * c \in Int
  BY <1>1
<1> QED
  BY <1>3, <1>4, <1>5, <1>6, <1>7

\* Rounding.
LEMMA Rounded ==
  ASSUME NEW n \in Int, NEW d \in Positive
  PROVE  /\ Floor(<<n, d>>) \in Int /\ Ceil(<<n, d>>) \in Int
         /\ Floor(<<n, d>>) * d <= n /\ n < (Floor(<<n, d>>) + 1) * d
         /\ (Ceil(<<n, d>>) - 1) * d < n /\ n <= Ceil(<<n, d>>) * d
<1>1. d \in Nat /\ d > 0
  BY DEF Positive
<1>2. ASSUME NEW m \in Int
      PROVE  /\ m \div d \in Int
             /\ (m \div d) * d <= m /\ m < (m \div d + 1) * d
  <2>1. m \div d \in Int /\ m = d * (m \div d) + (m % d) /\ m % d \in 0 .. d - 1
    BY <1>1
  <2> PICK q \in Int : q = m \div d
    BY <2>1
  <2> PICK r \in 0 .. d - 1 : r = m % d
    BY <2>1
  <2>2. m = d * q + r
    BY <2>1
  <2>3. q * d <= m /\ m < (q + 1) * d
    BY <1>1, <2>2
  <2> QED
    BY <2>1, <2>3
<1>3. Floor(<<n, d>>) = n \div d /\ Ceil(<<n, d>>) = -((-n) \div d)
  BY DEF Floor, Ceil
<1>4. PICK q \in Int : q = (-n) \div d
  BY <1>2
<1>5. q * d <= -n /\ -n < (q + 1) * d
  BY <1>2, <1>4
<1>6. (-q - 1) * d < n /\ n <= (-q) * d
  BY <1>1, <1>5
<1> QED
  BY <1>2, <1>3, <1>4, <1>6

\* If p11/p12 and p21/p22 have the ratio r1/r2, and a/W is less than the first
\* and b/H at least the second, the ratio of a/W and b/H is less.
LEMMA RatioLess ==
  ASSUME NEW a \in Int, NEW b \in Int, NEW p11 \in Positive, NEW p12 \in Positive,
         NEW p21 \in Positive, NEW p22 \in Positive, NEW r1 \in Positive,
         NEW r2 \in Positive, NEW W \in Positive, NEW H \in Positive,
         a * p12 < p11 * W, p21 * H <= b * p22, p11 * p22 * r2 = r1 * p12 * p21
  PROVE  a * H * r2 < r1 * W * b
<1> USE DEF Positive
<1>1. (a * p12) * (H * r2 * p22) < (p11 * W) * (H * r2 * p22)
  BY LessTimes, Products
<1>2. (p21 * H) * (r1 * W * p12) <= (b * p22) * (r1 * W * p12)
  BY LessTimes, Products
<1>3. (p11 * W) * (H * r2 * p22) = (p21 * H) * (r1 * W * p12)
  BY SMT
<1>4. (a * H * r2) * (p12 * p22) < (r1 * W * b) * (p12 * p22)
  BY <1>1, <1>2, <1>3
<1> QED
  BY <1>4, LessTimes, Products

----------------------------------------------------------------------------
(* The layout: computed lengths *)

\* c is n/d, rounded up and not exactly.
UpTo(c, n, d) ==
  /\ c \in Positive
  /\ ((c - 1) * Precision - 1) * d < n * Precision
  /\ n * Precision <= (c * Precision + 1) * d

\* f is n/d, rounded down and not exactly.
DownTo(f, n, d) ==
  /\ f \in Nat
  /\ (f * Precision - 1) * d <= n * Precision
  /\ n * Precision < ((f + 1) * Precision + 1) * d

LEMMA PrecisionType == Precision \in Positive /\ Precision \in Int /\ Precision >= 3
BY LayoutAssumption DEF Positive

\* The errors of two lengths do not add up to a pixel.
LEMMA TwoErrors ==
  ASSUME NEW k \in Int, k * Precision <= 2
  PROVE  k <= 0
<1>1. ASSUME 1 <= k
      PROVE  FALSE
  <2>1. 1 * Precision <= k * Precision
    BY <1>1, PrecisionType, LessTimes
  <2> PICK x \in Int : x = k * Precision
    BY PrecisionType
  <2> QED
    BY <2>1, PrecisionType
<1> QED
  BY <1>1

\* What is rounded up.
LEMMA CeilNearBounds ==
  ASSUME NEW n \in Positive, NEW d \in Positive, NEW c \in CeilNear(<<n, d>>)
  PROVE  UpTo(c, n, d)
<1> PICK p \in Positive : p = Precision /\ p \in Int
  BY PrecisionType
<1>1. n \in Int /\ d \in Int /\ d * p \in Positive
      /\ n * p - d \in Int /\ n * p + d \in Int
  BY Products DEF Positive
<1>2. /\ Below(<<n, d>>) = <<n * p - d, d * p>>
      /\ Above(<<n, d>>) = <<n * p + d, d * p>>
  BY DEF Below, Above
<1> PICK lo \in Int :
      lo = Ceil(Below(<<n, d>>)) /\ n * p - d <= lo * (d * p)
  BY <1>1, <1>2, Rounded
<1> PICK hi \in Int :
      hi = Ceil(Above(<<n, d>>)) /\ (hi - 1) * (d * p) < n * p + d
  BY <1>1, <1>2, Rounded
<1>3. c \in lo .. hi /\ c > 0
  BY DEF CeilNear
<1>4. c \in Int /\ lo <= c /\ c - 1 <= hi - 1 /\ c \in Positive
  BY <1>3 DEF Positive
<1>5. lo * (d * p) <= c * (d * p) /\ (c - 1) * (d * p) <= (hi - 1) * (d * p)
  <2> PICK D \in Positive, c1 \in Int, h1 \in Int :
        D = d * p /\ c1 = c - 1 /\ h1 = hi - 1
    BY <1>1, <1>4
  <2>1. lo * D <= c * D /\ c1 * D <= h1 * D
    BY <1>4, LessTimes
  <2> QED
    BY <2>1
<1> PICK x \in Int, y \in Int : x = c * (d * p) /\ y = (c - 1) * (d * p)
  BY <1>1, <1>4
<1>6. n * p - d <= x /\ y < n * p + d
  <2>1. lo * (d * p) \in Int /\ (hi - 1) * (d * p) \in Int
    BY <1>1
  <2> QED
    BY <1>1, <1>5, <2>1
<1>7. (c * p + 1) * d = x + d /\ ((c - 1) * p - 1) * d = y - d
  BY <1>1, <1>4
<1>8. n * p <= x + d /\ y - d < n * p
  BY <1>1, <1>6
<1>9. n * p <= (c * p + 1) * d /\ ((c - 1) * p - 1) * d < n * p
  BY ONLY <1>7, <1>8
<1>10. p = Precision
  OBVIOUS
<1> QED
  BY ONLY <1>4, <1>9, <1>10 DEF UpTo

\* What is rounded down.
LEMMA FloorNearBounds ==
  ASSUME NEW n \in Nat, NEW d \in Positive, NEW f \in FloorNear(<<n, d>>)
  PROVE  DownTo(f, n, d)
<1> PICK p \in Positive : p = Precision /\ p \in Int
  BY PrecisionType
<1>1. n \in Int /\ d \in Int /\ d * p \in Positive
      /\ n * p - d \in Int /\ n * p + d \in Int
  BY Products DEF Positive
<1>2. /\ Below(<<n, d>>) = <<n * p - d, d * p>>
      /\ Above(<<n, d>>) = <<n * p + d, d * p>>
  BY DEF Below, Above
<1> PICK lo \in Int :
      lo = Floor(Below(<<n, d>>)) /\ n * p - d < (lo + 1) * (d * p)
  BY <1>1, <1>2, Rounded
<1> PICK hi \in Int :
      hi = Floor(Above(<<n, d>>)) /\ hi * (d * p) <= n * p + d
  BY <1>1, <1>2, Rounded
<1>3. f \in lo .. hi /\ f >= 0
  BY DEF FloorNear
<1>4. f \in Int /\ lo + 1 <= f + 1 /\ f <= hi /\ f \in Nat
  BY <1>3
<1>5. (lo + 1) * (d * p) <= (f + 1) * (d * p) /\ f * (d * p) <= hi * (d * p)
  <2> PICK D \in Positive, f1 \in Int, l1 \in Int :
        D = d * p /\ f1 = f + 1 /\ l1 = lo + 1
    BY <1>1, <1>4
  <2>1. l1 * D <= f1 * D /\ f * D <= hi * D
    BY <1>4, LessTimes
  <2> QED
    BY <2>1
<1> PICK x \in Int, y \in Int : x = f * (d * p) /\ y = (f + 1) * (d * p)
  BY <1>1, <1>4
<1>6. x <= n * p + d /\ n * p - d < y
  <2>1. (lo + 1) * (d * p) \in Int /\ hi * (d * p) \in Int
    BY <1>1
  <2> QED
    BY <1>1, <1>5, <2>1
<1>7. (f * p - 1) * d = x - d /\ ((f + 1) * p + 1) * d = y + d
  BY <1>1, <1>4
<1>8. x - d <= n * p /\ n * p < y + d
  BY <1>1, <1>6
<1>9. (f * p - 1) * d <= n * p /\ n * p < ((f + 1) * p + 1) * d
  BY ONLY <1>7, <1>8
<1>10. p = Precision
  OBVIOUS
<1> QED
  BY ONLY <1>4, <1>9, <1>10 DEF DownTo

LEMMA CeilPositive ==
  ASSUME NEW n \in Positive, NEW d \in Positive
  PROVE  Ceil(<<n, d>>) \in Positive
<1>1. Ceil(<<n, d>>) \in Int /\ n <= Ceil(<<n, d>>) * d
  BY Rounded DEF Positive
<1> PICK c \in Int : c = Ceil(<<n, d>>)
  BY <1>1
<1>2. 0 * d < c * d
  BY <1>1 DEF Positive
<1>3. 0 < c
  BY <1>2, LessTimes
<1> QED
  BY <1>3 DEF Positive

\* A ceiling is near.
LEMMA CeilBounds ==
  ASSUME NEW n \in Positive, NEW d \in Positive
  PROVE  UpTo(Ceil(<<n, d>>), n, d)
<1> PICK p \in Positive : p = Precision /\ p \in Int
  BY PrecisionType
<1> PICK c \in Positive : c = Ceil(<<n, d>>)
  BY CeilPositive
<1>1. n \in Int /\ d \in Int /\ c \in Int /\ d > 0
  BY DEF Positive
<1>2. (c - 1) * d < n /\ n <= c * d
  BY <1>1, Rounded
<1>3. ((c - 1) * d) * p < n * p /\ n * p <= (c * d) * p
  <2> PICK u \in Int, v \in Int : u = (c - 1) * d /\ v = c * d
    BY <1>1
  <2>1. u * p < n * p /\ n * p <= v * p
    BY <1>1, <1>2, LessTimes
  <2> QED
    BY <2>1
<1>4. /\ ((c - 1) * p - 1) * d = ((c - 1) * d) * p - d
      /\ (c * p + 1) * d = (c * d) * p + d
  BY <1>1
<1> PICK x \in Int, y \in Int, z \in Int :
      x = ((c - 1) * d) * p /\ y = (c * d) * p /\ z = n * p
  BY <1>1
<1>5. x - d < z /\ z <= y + d
  BY <1>1, <1>3
<1>6. n * p <= (c * p + 1) * d /\ ((c - 1) * p - 1) * d < n * p
  BY <1>4, <1>5
<1>7. p = Precision /\ c \in Positive /\ c = Ceil(<<n, d>>)
  OBVIOUS
<1> QED
  BY ONLY <1>6, <1>7 DEF UpTo

\* What becomes of a side of a picture.
LEMMA RoundedUpBounds ==
  ASSUME NEW n \in Positive, NEW d \in Positive, NEW k \in Positive,
         NEW l \in Positive, NEW e,
         NEW c \in RoundedUp([length |-> <<n, d>>, exact |-> e], <<k, l>>)
  PROVE  /\ UpTo(c, n * k, d * l)
         /\ e => c = Ceil(<<n * k, d * l>>)
<1>1. n * k \in Positive /\ d * l \in Positive
  BY Products
<1>2. Times(<<n, d>>, <<k, l>>) = <<n * k, d * l>>
  BY DEF Times
<1>3. c \in IF e THEN {Ceil(<<n * k, d * l>>)} ELSE CeilNear(<<n * k, d * l>>)
  BY <1>2 DEF RoundedUp
<1>4. CASE e
  BY <1>1, <1>3, <1>4, CeilBounds
<1>5. CASE ~e
  BY <1>1, <1>3, <1>5, CeilNearBounds
<1> QED
  BY <1>4, <1>5

\* A scale of l/l does not matter.
LEMMA UpToUnscaled ==
  ASSUME NEW n \in Positive, NEW d \in Positive, NEW l \in Positive, NEW c,
         UpTo(c, n * l, d * l)
  PROVE  UpTo(c, n, d)
<1> PICK p \in Positive : p = Precision /\ p \in Int
  BY PrecisionType
<1>1. n \in Int /\ d \in Int /\ l \in Int /\ c \in Int /\ c \in Positive
  BY DEF UpTo, Positive
<1> DEFINE x == ((c - 1) * p - 1) * d
           y == (c * p + 1) * d
           z == n * p
<1>2. x \in Int /\ y \in Int /\ z \in Int
  BY <1>1
<1>3. /\ ((c - 1) * p - 1) * (d * l) = x * l
      /\ (c * p + 1) * (d * l) = y * l
      /\ (n * l) * p = z * l
  BY <1>1
<1>4. x * l < z * l /\ z * l <= y * l
  BY <1>3 DEF UpTo
<1> HIDE DEF x, y, z
<1>5. x < z /\ z <= y
  BY <1>2, <1>4, LessTimes
<1> QED
  BY <1>1, <1>5 DEF UpTo, x, y, z

\* An integer that is taken over keeps its value.
LEMMA CeilGiven ==
  ASSUME NEW m \in Positive, NEW l \in Positive
  PROVE  Ceil(<<m * l, 1 * l>>) = m
<1>1. m \in Int /\ l \in Int /\ m * l \in Int /\ 1 * l = l
  BY DEF Positive
<1> PICK c \in Int :
      c = Ceil(<<m * l, l>>) /\ (c - 1) * l < m * l /\ m * l <= c * l
  BY <1>1, Rounded
<1>2. c - 1 < m /\ m <= c
  BY <1>1, LessTimes
<1> QED
  BY <1>1, <1>2

\* n/d is at most, and at least, m to within the precision.
AtMost(n, d, m) == n * Precision <= (m * Precision + 1) * d
AtLeast(n, d, m) == (m * Precision - 1) * d <= n * Precision

LEMMA CloseBounds ==
  ASSUME NEW n \in Nat, NEW d \in Positive, NEW m \in Nat, Close(<<n, d>>, m)
  PROVE  AtMost(n, d, m) /\ AtLeast(n, d, m)
<1> PICK p \in Positive : p = Precision /\ p \in Int
  BY PrecisionType
<1>1. n \in Int /\ d \in Int /\ m \in Int
  BY DEF Positive
<1>2. /\ ~(m * (d * p) < (n * p - d) * 1)
      /\ ~((n * p + d) * 1 < m * (d * p))
  BY DEF Close, Less, Below, Above
<1>3. (m * p + 1) * d = m * (d * p) + d /\ (m * p - 1) * d = m * (d * p) - d
  BY <1>1
<1> PICK x \in Int, y \in Int : x = m * (d * p) /\ y = n * p
  BY <1>1
<1>4. y <= x + d /\ x - d <= y
  BY <1>1, <1>2
<1> QED
  BY <1>3, <1>4 DEF AtMost, AtLeast

\* What is less than m in exact numbers.
LEMMA LessIsAtMost ==
  ASSUME NEW n \in Nat, NEW d \in Positive, NEW m \in Nat, n <= m * d
  PROVE  AtMost(n, d, m)
<1> PICK p \in Positive : p = Precision /\ p \in Int
  BY PrecisionType
<1>1. n \in Int /\ d \in Int /\ m \in Int /\ m * d \in Int /\ d > 0
  BY DEF Positive
<1>2. n * p <= (m * d) * p
  BY <1>1, LessTimes
<1>3. (m * p + 1) * d = (m * d) * p + d
  BY <1>1
<1> PICK x \in Int, y \in Int : x = (m * d) * p /\ y = n * p
  BY <1>1
<1>4. y <= x + d
  BY <1>1, <1>2
<1> QED
  BY <1>3, <1>4 DEF AtMost

\* Rounded up, a length of at most m is at most m + 1.
LEMMA UpToAtMost ==
  ASSUME NEW n \in Positive, NEW d \in Positive, NEW m \in Nat, NEW c,
         UpTo(c, n, d), AtMost(n, d, m)
  PROVE  c <= m + 1
<1> PICK p \in Positive : p = Precision /\ p \in Int
  BY PrecisionType
<1>1. n \in Int /\ d \in Int /\ m \in Int /\ c \in Int
  BY DEF UpTo, Positive
<1> PICK x \in Int, y \in Int, z \in Int :
      x = (c - 1) * p - 1 /\ y = m * p + 1 /\ z = n * p
  BY <1>1
<1>2. x * d < z /\ z <= y * d
  BY DEF UpTo, AtMost
<1>3. x * d \in Int /\ y * d \in Int /\ x * d < y * d
  <2>1. x * d \in Int /\ y * d \in Int
    BY <1>1
  <2> QED
    BY <1>2, <2>1
<1>4. x < y
  BY <1>3, LessTimes
<1>5. (c - 1 - m) * p <= 2
  BY <1>1, <1>4
<1>6. c - 1 - m <= 0
  BY <1>1, <1>5, TwoErrors
<1> QED
  BY <1>1, <1>6

\* Rounded up, a length of at least m is at least m.
LEMMA UpToAtLeast ==
  ASSUME NEW n \in Positive, NEW d \in Positive, NEW m \in Nat, NEW c,
         UpTo(c, n, d), AtLeast(n, d, m)
  PROVE  m <= c
<1> PICK p \in Positive : p = Precision /\ p \in Int
  BY PrecisionType
<1>1. n \in Int /\ d \in Int /\ m \in Int /\ c \in Int
  BY DEF UpTo, Positive
<1> PICK x \in Int, y \in Int, z \in Int :
      x = m * p - 1 /\ y = c * p + 1 /\ z = n * p
  BY <1>1
<1>2. x * d <= z /\ z <= y * d
  BY DEF UpTo, AtLeast
<1>3. x * d \in Int /\ y * d \in Int /\ x * d <= y * d
  <2>1. x * d \in Int /\ y * d \in Int
    BY <1>1
  <2> QED
    BY <1>2, <2>1
<1>4. x <= y
  BY <1>3, LessTimes
<1>5. (m - c) * p <= 2
  BY <1>1, <1>4
<1>6. m - c <= 0
  BY <1>1, <1>5, TwoErrors
<1> QED
  BY <1>1, <1>6

\* Rounded down, a length of at most m is at most m.
LEMMA DownToAtMost ==
  ASSUME NEW n \in Nat, NEW d \in Positive, NEW m \in Nat, NEW f,
         DownTo(f, n, d), AtMost(n, d, m)
  PROVE  f <= m
<1> PICK p \in Positive : p = Precision /\ p \in Int
  BY PrecisionType
<1>1. n \in Int /\ d \in Int /\ m \in Int /\ f \in Int
  BY DEF DownTo, Positive
<1> PICK x \in Int, y \in Int, z \in Int :
      x = f * p - 1 /\ y = m * p + 1 /\ z = n * p
  BY <1>1
<1>2. x * d <= z /\ z <= y * d
  BY DEF DownTo, AtMost
<1>3. x * d \in Int /\ y * d \in Int /\ x * d <= y * d
  <2>1. x * d \in Int /\ y * d \in Int
    BY <1>1
  <2> QED
    BY <1>2, <2>1
<1>4. x <= y
  BY <1>3, LessTimes
<1>5. (f - m) * p <= 2
  BY <1>1, <1>4
<1>6. f - m <= 0
  BY <1>1, <1>5, TwoErrors
<1> QED
  BY <1>1, <1>6

\* Rounded down, a length of at least m is at least m - 1.
LEMMA DownToAtLeast ==
  ASSUME NEW n \in Nat, NEW d \in Positive, NEW m \in Nat, NEW f,
         DownTo(f, n, d), AtLeast(n, d, m)
  PROVE  m <= f + 1
<1> PICK p \in Positive : p = Precision /\ p \in Int
  BY PrecisionType
<1>1. n \in Int /\ d \in Int /\ m \in Int /\ f \in Int
  BY DEF DownTo, Positive
<1> PICK x \in Int, y \in Int, z \in Int :
      x = m * p - 1 /\ y = (f + 1) * p + 1 /\ z = n * p
  BY <1>1
<1>2. x * d <= z /\ z < y * d
  BY DEF DownTo, AtLeast
<1>3. x * d \in Int /\ y * d \in Int /\ x * d < y * d
  <2>1. x * d \in Int /\ y * d \in Int
    BY <1>1
  <2> QED
    BY <1>2, <2>1
<1>4. x < y
  BY <1>3, LessTimes
<1>5. (m - (f + 1)) * p <= 2
  BY <1>1, <1>4
<1>6. m - (f + 1) <= 0
  BY <1>1, <1>5, TwoErrors
<1> QED
  BY <1>1, <1>6

LEMMA CoversWithin ==
  ASSUME NEW n \in Nat, NEW m \in Nat, m <= n, n <= m + 2
  PROVE  Covers(n, m)
BY DEF Covers

\* One length, rounded up here and down there.
LEMMA UpCoversDown ==
  ASSUME NEW n \in Positive, NEW d \in Positive, NEW c, NEW f,
         UpTo(c, n, d), DownTo(f, n, d)
  PROVE  Covers(c, f)
<1> PICK p \in Positive : p = Precision /\ p \in Int
  BY PrecisionType
<1>1. n \in Int /\ d \in Int /\ c \in Int /\ f \in Int /\ c \in Nat /\ f \in Nat
  BY DEF UpTo, DownTo, Positive
<1>2. f <= c
  <2>1. AtMost(n, d, c)
    BY DEF AtMost, UpTo
  <2>2. n \in Nat
    BY DEF Positive
  <2> QED
    BY <1>1, <2>1, <2>2, DownToAtMost
<1>3. c <= f + 2
  <2> PICK x \in Int, y \in Int, z \in Int :
        x = (c - 1) * p - 1 /\ y = (f + 1) * p + 1 /\ z = n * p
    BY <1>1
  <2>1. x * d < z /\ z < y * d
    BY DEF UpTo, DownTo
  <2>2. x * d \in Int /\ y * d \in Int /\ x * d < y * d
    <3>1. x * d \in Int /\ y * d \in Int
      BY <1>1
    <3> QED
      BY <2>1, <3>1
  <2>3. x < y
    BY <2>2, LessTimes
  <2>4. (c - 1 - (f + 1)) * p <= 2
    BY <1>1, <2>3
  <2>5. c - 1 - (f + 1) <= 0
    BY <1>1, <2>4, TwoErrors
  <2> QED
    BY <1>1, <2>5
<1> QED
  BY <1>1, <1>2, <1>3 DEF Covers

----------------------------------------------------------------------------
(* The layout: the inductive invariant *)

Sized(v) == v \in Videos /\ v.width * v.height # 0

\* What a view has was computed from the container and the video of now.
LaidOut ==
  fresh =>
    /\ Sized(video) /\ Box[1] * Box[2] # 0
    /\ <<layoutParams.width, layoutParams.height>> \in ViewSizes(video)
    /\ layoutParams.marginLeft = Half(container[1] - layoutParams.width)

MeasuredNow ==
  ~requested /\ video.width > 0 /\ video.height > 0 =>
    measured \in Measure(displayMode, container, video.width, video.height)

LayoutInv == LayoutTypeOK /\ LaidOut /\ MeasuredNow

\* The numbers of a video that has a size.
LEMMA VideoNumbers ==
  ASSUME NEW v \in Videos, v.width * v.height # 0
  PROVE  /\ v.width \in Positive /\ v.height \in Positive
         /\ v.visibleWidth \in Positive /\ v.visibleHeight \in Positive
         /\ SquareWidth(v) \in Fractions
<1>1. /\ v.width \in Nat /\ v.height \in Nat
      /\ v.visibleWidth \in Nat /\ v.visibleHeight \in Nat
      /\ v.visibleWidth * v.visibleHeight # 0
      /\ v.sarNum \in Nat /\ v.sarDen \in Nat
      /\ v.sarNum = v.sarDen \/ v.sarNum * v.sarDen # 0
  BY LayoutAssumption
<1>2. /\ v.width \in Positive /\ v.height \in Positive
      /\ v.visibleWidth \in Positive /\ v.visibleHeight \in Positive
  BY <1>1, Factors
<1>3. CASE v.sarDen = v.sarNum
  <2>1. SquareWidth(v) = <<v.visibleWidth, 1>>
    BY <1>3 DEF SquareWidth
  <2>2. 1 \in Positive
    BY DEF Positive
  <2> QED
    BY <1>2, <2>1, <2>2 DEF Fractions
<1>4. CASE v.sarDen # v.sarNum
  <2>1. SquareWidth(v) = <<v.visibleWidth * v.sarNum, v.sarDen>>
    BY <1>4 DEF SquareWidth
  <2>2. v.sarNum \in Positive /\ v.sarDen \in Positive
    BY <1>1, <1>4, Factors
  <2>3. v.visibleWidth * v.sarNum \in Positive
    BY <1>2, <2>2, Products
  <2>4. PICK s \in Positive : s = v.visibleWidth * v.sarNum
    BY <2>3
  <2>5. <<s, v.sarDen>> \in Fractions
    BY <2>2, <2>4 DEF Fractions
  <2>6. SquareWidth(v) \in Fractions
    BY <2>1, <2>4, <2>5
  <2> QED
    BY <1>2, <2>6
<1> QED
  BY <1>2, <1>3, <1>4

LEMMA RatioType ==
  ASSUME NEW v \in Videos, v.width * v.height # 0, NEW mode \in SizeModes
  PROVE  /\ Ratio(v, mode) \in Fractions
         /\ mode \notin {"16:9", "4:3"} =>
              Ratio(v, mode) =
                <<SquareWidth(v)[1], SquareWidth(v)[2] * v.visibleHeight>>
<1>1. CASE mode \in {"16:9", "4:3"}
  BY <1>1 DEF Ratio, Fractions, Positive
<1>2. CASE mode \notin {"16:9", "4:3"}
  <2> PICK s1 \in Positive, s2 \in Positive : SquareWidth(v) = <<s1, s2>>
    BY VideoNumbers DEF Fractions
  <2> PICK h \in Positive : h = v.visibleHeight
    BY VideoNumbers
  <2>1. Ratio(v, mode) = <<s1 * 1, s2 * h>>
    BY <1>2 DEF Ratio, Over
  <2>2. s1 * 1 = s1 /\ s2 * h \in Positive
    BY Products DEF Positive
  <2> QED
    BY <2>1, <2>2 DEF Fractions
<1> QED
  BY <1>1, <1>2

\* A picture has a size, and in every mode but "fill" the ratio asked for.
LEMMA PictureType ==
  ASSUME NEW v \in Videos, v.width * v.height # 0, NEW mode \in SizeModes,
         NEW W \in Positive, NEW H \in Positive,
         NEW r1 \in Positive, NEW r2 \in Positive, Ratio(v, mode) = <<r1, r2>>,
         NEW P \in Pictures(mode, <<W, H>>, <<r1, r2>>, v)
  PROVE  \E p11, p12, p21, p22 \in Positive : \E e, f \in BOOLEAN :
           /\ P = <<[length |-> <<p11, p12>>, exact |-> e],
                    [length |-> <<p21, p22>>, exact |-> f]>>
           /\ mode # "fill" => p11 * p22 * r2 = r1 * p12 * p21
<1>0. 1 \in Positive
  BY DEF Positive
<1>1. CASE P = FullWidth(<<W, H>>, <<r1, r2>>)
  <2>1. P = <<[length |-> <<W, 1>>, exact |-> TRUE],
              [length |-> <<W * r2, 1 * r1>>, exact |-> FALSE]>>
    BY <1>1 DEF FullWidth, Over, Given, Computed
  <2>2. W * r2 \in Positive /\ 1 * r1 \in Positive
    BY <1>0, Products
  <2>3. W * (1 * r1) * r2 = r1 * 1 * (W * r2)
    BY DEF Positive
  <2> QED
    BY <1>0, <2>1, <2>2, <2>3
<1>2. CASE P = FullHeight(<<W, H>>, <<r1, r2>>)
  <2>1. P = <<[length |-> <<H * r1, 1 * r2>>, exact |-> FALSE],
              [length |-> <<H, 1>>, exact |-> TRUE]>>
    BY <1>2 DEF FullHeight, Times, Given, Computed
  <2>2. H * r1 \in Positive /\ 1 * r2 \in Positive
    BY <1>0, Products
  <2>3. H * r1 * 1 * r2 = r1 * (1 * r2) * H
    BY DEF Positive
  <2> QED
    BY <1>0, <2>1, <2>2, <2>3
<1>3. CASE mode = "fill"
  <2>1. P = <<[length |-> <<W, 1>>, exact |-> TRUE],
              [length |-> <<H, 1>>, exact |-> TRUE]>>
    BY <1>3 DEF Pictures, Given
  <2> QED
    BY <1>0, <1>3, <2>1
<1>4. CASE mode = "original"
  <2> PICK s1 \in Positive, s2 \in Positive : SquareWidth(v) = <<s1, s2>>
    BY VideoNumbers DEF Fractions
  <2> PICK h \in Positive : h = v.visibleHeight
    BY VideoNumbers
  <2> PICK e \in BOOLEAN : e = (v.sarDen = v.sarNum)
    BY Zenon
  <2>1. P = <<[length |-> <<s1, s2>>, exact |-> v.sarDen = v.sarNum],
              [length |-> <<h, 1>>, exact |-> TRUE]>>
    BY <1>4 DEF Pictures, Given
  <2>2. r1 = s1 /\ r2 = s2 * h
    BY <1>4, RatioType
  <2>3. s1 * 1 * r2 = r1 * s2 * h
    BY <2>2 DEF Positive
  <2>4. P = <<[length |-> <<s1, s2>>, exact |-> e],
              [length |-> <<h, 1>>, exact |-> TRUE]>>
    BY <2>1, Zenon
  <2> QED
    BY ONLY <1>0, <2>3, <2>4, e \in BOOLEAN, Zenon
<1>5. mode \in {"bestFit", "fitHorizontal", "fitVertical", "fill", "16:9", "4:3",
                "original"}
  BY LayoutAssumption
<1> QED
  BY <1>1, <1>2, <1>3, <1>4, <1>5 DEF Pictures

LEMMA WindowType ==
  ASSUME LayoutTypeOK
  PROVE  /\ container \in Nat \X Nat /\ videoHeight \in Nat
         /\ Window \in Nat \X Nat /\ Box \in Nat \X Nat
         /\ Window[1] = container[1]
<1>1. container \in Nat \X Nat /\ videoHeight \in Nat
  BY LayoutAssumption DEF LayoutTypeOK
<1>2. Window \in Nat \X Nat /\ Window[1] = container[1]
  BY <1>1 DEF Window
<1>3. Box \in Nat \X Nat
  BY <1>2 DEF Box
<1> QED
  BY <1>1, <1>2, <1>3

\* The sides of a picture, and which of them are integers that are taken over.
Sides(p, q, exact) ==
  <<[length |-> p, exact |-> exact[1]], [length |-> q, exact |-> exact[2]]>>

\* A size of a view, and the box, the ratio, and the two sides of the picture that
\* it was computed from.
Shown(v, size, box, ar, p, q, exact) ==
  /\ Box = box /\ Ratio(v, currentSize) = ar
  /\ Sides(p, q, exact) \in Pictures(currentSize, box, ar, v)
  /\ currentSize # "fill" => p[1] * q[2] * ar[2] = ar[1] * p[2] * q[1]
  /\ UpTo(size[1], p[1] * v.width, p[2] * v.visibleWidth)
  /\ UpTo(size[2], q[1] * v.height, q[2] * v.visibleHeight)
  /\ exact[1] => size[1] = Ceil(<<p[1] * v.width, p[2] * v.visibleWidth>>)
  /\ exact[2] => size[2] = Ceil(<<q[1] * v.height, q[2] * v.visibleHeight>>)

LEMMA ViewIsShown ==
  ASSUME LayoutTypeOK, NEW v \in Videos, v.width * v.height # 0,
         Box[1] * Box[2] # 0, NEW w, NEW h, <<w, h>> \in ViewSizes(v)
  PROVE  \E box, ar, p, q \in Fractions : \E exact \in BOOLEAN \X BOOLEAN :
           Shown(v, <<w, h>>, box, ar, p, q, exact)
<1> PICK W \in Positive, H \in Positive : Box = <<W, H>>
  <2>1. Box = <<Box[1], Box[2]>> /\ Box[1] \in Nat /\ Box[2] \in Nat
    BY WindowType
  <2>2. Box[1] \in Positive /\ Box[2] \in Positive
    BY <2>1, Factors
  <2> QED
    BY <2>1, <2>2
<1>1. currentSize \in SizeModes
  BY DEF LayoutTypeOK
<1> PICK r1 \in Positive, r2 \in Positive : Ratio(v, currentSize) = <<r1, r2>>
  BY <1>1, RatioType DEF Fractions
<1> PICK P \in Pictures(currentSize, <<W, H>>, <<r1, r2>>, v) :
      <<w, h>> \in RoundedUp(P[1], <<v.width, v.visibleWidth>>)
                     \X RoundedUp(P[2], <<v.height, v.visibleHeight>>)
  BY DEF ViewSizes
<1> PICK p11, p12, p21, p22 \in Positive, e, f \in BOOLEAN :
      /\ P = <<[length |-> <<p11, p12>>, exact |-> e],
               [length |-> <<p21, p22>>, exact |-> f]>>
      /\ currentSize # "fill" => p11 * p22 * r2 = r1 * p12 * p21
  BY <1>1, PictureType
<1>2. /\ w \in RoundedUp([length |-> <<p11, p12>>, exact |-> e],
                         <<v.width, v.visibleWidth>>)
      /\ h \in RoundedUp([length |-> <<p21, p22>>, exact |-> f],
                         <<v.height, v.visibleHeight>>)
  <2>1. w \in RoundedUp(P[1], <<v.width, v.visibleWidth>>)
    OBVIOUS
  <2>2. h \in RoundedUp(P[2], <<v.height, v.visibleHeight>>)
    OBVIOUS
  <2>3. /\ P[1] = [length |-> <<p11, p12>>, exact |-> e]
        /\ P[2] = [length |-> <<p21, p22>>, exact |-> f]
    OBVIOUS
  <2> QED
    BY ONLY <2>1, <2>2, <2>3
<1>3. /\ v.width \in Positive /\ v.height \in Positive
      /\ v.visibleWidth \in Positive /\ v.visibleHeight \in Positive
  BY VideoNumbers
<1>4. /\ UpTo(w, p11 * v.width, p12 * v.visibleWidth)
      /\ e => w = Ceil(<<p11 * v.width, p12 * v.visibleWidth>>)
  BY <1>2, <1>3, RoundedUpBounds
<1>5. /\ UpTo(h, p21 * v.height, p22 * v.visibleHeight)
      /\ f => h = Ceil(<<p21 * v.height, p22 * v.visibleHeight>>)
  BY <1>2, <1>3, RoundedUpBounds
<1>6. Shown(v, <<w, h>>, <<W, H>>, <<r1, r2>>, <<p11, p12>>, <<p21, p22>>, <<e, f>>)
  BY <1>4, <1>5 DEF Shown, Sides
<1>7. /\ <<W, H>> \in Fractions /\ <<r1, r2>> \in Fractions
      /\ <<p11, p12>> \in Fractions /\ <<p21, p22>> \in Fractions
      /\ <<e, f>> \in BOOLEAN \X BOOLEAN
  BY DEF Fractions
<1> QED
  BY <1>6, <1>7

\* A view has at least one pixel in each direction.
LEMMA ViewType ==
  ASSUME LayoutTypeOK, NEW v \in Videos, v.width * v.height # 0,
         Box[1] * Box[2] # 0, NEW size \in ViewSizes(v)
  PROVE  size \in Positive \X Positive
<1> PICK w, h : size = <<w, h>>
  <2> PICK A, B : size \in A \X B
    BY DEF ViewSizes
  <2> QED
    OBVIOUS
<1> PICK box, ar, p, q \in Fractions, exact \in BOOLEAN \X BOOLEAN :
      Shown(v, <<w, h>>, box, ar, p, q, exact)
  BY ViewIsShown
<1> QED
  BY DEF Shown, UpTo

\* A measured size is a size.
LEMMA MeasureType ==
  ASSUME NEW size \in Nat \X Nat, NEW w \in Positive, NEW h \in Positive,
         NEW mode \in DisplayModes
  PROVE  Measure(mode, size, w, h) \subseteq Nat \X Nat
<1>1. /\ size[1] \in Nat /\ size[2] \in Nat /\ size = <<size[1], size[2]>>
      /\ size[1] * h \in Nat /\ size[2] * w \in Nat
  BY DEF Positive
<1>2. /\ FloorNear(<<size[1] * h, w>>) \subseteq Nat
      /\ FloorNear(<<size[2] * w, h>>) \subseteq Nat
  BY <1>1, FloorNearBounds DEF DownTo
<1>3. Wide(size, w, h) \subseteq Nat \X Nat /\ High(size, w, h) \subseteq Nat \X Nat
  BY <1>1, <1>2 DEF Wide, High
<1> QED
  BY <1>1, <1>3 DEF Measure, DisplayModes

LEMMA HalfType ==
  ASSUME NEW n \in Int
  PROVE  /\ Half(n) \in Int
         /\ n >= 0 => 0 <= Half(n) /\ Half(n) <= n
         /\ n = -1 => Half(n) = 0
BY DEF Half

LEMMA LayoutInitInv == LayoutInit => LayoutInv
<1> SUFFICES ASSUME LayoutInit PROVE LayoutInv
  OBVIOUS
<1>1. LayoutTypeOK
  <2>1. -1 \in Int
    OBVIOUS
  <2>2. windowSize \in Int \X Int
    BY <2>1 DEF LayoutInit
  <2> QED
    BY <2>2 DEF LayoutInit, LayoutTypeOK, DisplayModes
<1>2. LaidOut /\ MeasuredNow
  BY DEF LayoutInit, LaidOut, MeasuredNow
<1> QED
  BY <1>1, <1>2 DEF LayoutInv

LEMMA NewLayoutInv ==
  ASSUME LayoutInv, NEW v \in Videos, onNewLayout(v)
  PROVE  LayoutInv'
<1>0. /\ LayoutTypeOK /\ video' = v /\ requested' = TRUE /\ windowSize' = Window
      /\ UNCHANGED <<container, portrait, currentSize, videoHeight, displayMode,
                     measured>>
  BY DEF LayoutInv, onNewLayout, changePlayerLayout, setVideoSize
<1>1. Box' = Box /\ ViewSizes(video)' = ViewSizes(v)
  BY <1>0 DEF ViewSizes, Box, Window, Contradicts
<1>2. Window \in Nat \X Nat /\ container \in Nat \X Nat
  BY <1>0, WindowType
<1>3. CASE Box[1] * Box[2] = 0 \/ v.width * v.height = 0
  <2>1. fresh' = FALSE /\ layoutParams' = layoutParams
    BY <1>3 DEF onNewLayout, changePlayerLayout
  <2>2. LayoutTypeOK'
    <3>1. windowSize' \in Int \X Int
      BY <1>0, <1>2
    <3>2. \/ layoutParams' = NoLayout
          \/ layoutParams' \in [width : Nat \ {0}, height : Nat \ {0},
                                marginLeft : Int]
      BY <1>0, <2>1 DEF LayoutTypeOK
    <3> QED
      BY <1>0, <2>1, <3>1, <3>2 DEF LayoutTypeOK
  <2> QED
    BY <1>0, <2>1, <2>2 DEF LayoutInv, LaidOut, MeasuredNow
<1>4. CASE Box[1] * Box[2] # 0 /\ v.width * v.height # 0
  <2> PICK size \in ViewSizes(v) :
        /\ fresh' = TRUE
        /\ layoutParams' = [width |-> size[1], height |-> size[2],
                            marginLeft |-> Half(container[1] - size[1])]
    BY <1>4 DEF onNewLayout, changePlayerLayout
  <2> PICK w \in Positive, h \in Positive : size = <<w, h>>
    BY <1>0, <1>4, ViewType
  <2>1. /\ fresh' = TRUE /\ <<w, h>> \in ViewSizes(v)
        /\ layoutParams' = [width |-> w, height |-> h,
                            marginLeft |-> Half(container[1] - w)]
    OBVIOUS
  <2>2. Half(container[1] - w) \in Int
    BY <1>2, HalfType DEF Positive
  <2>3. LayoutTypeOK'
    <3>1. windowSize' \in Int \X Int
      BY <1>0, <1>2
    <3>2. layoutParams' \in [width : Nat \ {0}, height : Nat \ {0},
                             marginLeft : Int]
      BY <2>1, <2>2 DEF Positive
    <3> QED
      BY <1>0, <2>1, <3>1, <3>2 DEF LayoutTypeOK
  <2>4. LaidOut'
    BY <1>0, <1>1, <1>4, <2>1 DEF LaidOut, Sized
  <2> QED
    BY <1>0, <2>3, <2>4 DEF LayoutInv, MeasuredNow
<1> QED
  BY <1>3, <1>4

LEMMA MeasureInv ==
  ASSUME LayoutInv, NEW given \in BOOLEAN \X BOOLEAN, onMeasure(given)
  PROVE  LayoutInv'
<1>0. /\ LayoutTypeOK /\ requested' = FALSE
      /\ UNCHANGED <<container, portrait, currentSize, videoHeight, video,
                     windowSize, layoutParams, fresh, displayMode>>
  BY DEF LayoutInv, onMeasure
<1>1. container \in Nat \X Nat
  BY <1>0, WindowType
<1>2. Box' = Box /\ ViewSizes(video)' = ViewSizes(video)
  BY <1>0 DEF ViewSizes, Box, Window, Contradicts
<1>3. LaidOut'
  BY <1>0, <1>2 DEF LayoutInv, LaidOut, Sized
<1>4. CASE video.width < 1 \/ video.height < 1
  <2>1. measured' = MeasureDefault(given)
    BY <1>4 DEF onMeasure
  <2>2. measured' \in Nat \X Nat
    BY <1>1, <2>1 DEF MeasureDefault
  <2>3. LayoutTypeOK'
    BY <1>0, <2>2 DEF LayoutTypeOK
  <2>4. video.width \in Int /\ video.height \in Int
    BY <1>0, LayoutAssumption DEF LayoutTypeOK, NoVideo
  <2>5. MeasuredNow'
    BY <1>0, <1>4, <2>4 DEF MeasuredNow
  <2> QED
    BY <1>3, <2>3, <2>5 DEF LayoutInv
<1>5. CASE ~(video.width < 1 \/ video.height < 1)
  <2>1. measured' \in Measure(displayMode, container, video.width, video.height)
    BY <1>5 DEF onMeasure
  <2>2. video.width \in Positive /\ video.height \in Positive
    <3>1. video.width \in Int /\ video.height \in Int
      BY <1>0, LayoutAssumption DEF LayoutTypeOK, NoVideo
    <3> QED
      BY <1>5, <3>1 DEF Positive
  <2>3. measured' \in Nat \X Nat
    BY <1>0, <1>1, <2>1, <2>2, MeasureType DEF LayoutTypeOK
  <2>4. LayoutTypeOK'
    BY <1>0, <2>3 DEF LayoutTypeOK
  <2>5. MeasuredNow'
    BY <1>0, <2>1 DEF MeasuredNow
  <2> QED
    BY <1>3, <2>4, <2>5 DEF LayoutInv
<1> QED
  BY <1>4, <1>5

LEMMA LayoutInductive == LayoutSpec => []LayoutInv
<1>1. LayoutInv /\ [LayoutNext]_layoutVars => LayoutInv'
  <2> SUFFICES ASSUME LayoutInv, [LayoutNext]_layoutVars PROVE LayoutInv'
    OBVIOUS
  <2>1. ASSUME NEW c \in Containers, NEW p \in BOOLEAN, Turn(c, p)
        PROVE  LayoutInv'
    BY <2>1 DEF Turn, LayoutInv, LayoutTypeOK, LaidOut, MeasuredNow
  <2>2. ASSUME NEW m \in DisplayModes, setDisplayMode(m)
        PROVE  LayoutInv'
    BY <2>2 DEF setDisplayMode, LayoutInv, LayoutTypeOK, LaidOut, MeasuredNow, Sized,
       ViewSizes, Box, Window, Contradicts
  <2>3. CASE UNCHANGED layoutVars
    BY <2>3 DEF layoutVars, LayoutInv, LayoutTypeOK, LaidOut, MeasuredNow, Sized,
       ViewSizes, Box, Window, Contradicts
  <2> QED
    BY <2>1, <2>2, <2>3, NewLayoutInv, MeasureInv DEF LayoutNext
<1> QED
  BY <1>1, LayoutInitInv, PTL DEF LayoutSpec

\* The variables of PlayerLayout keep their types: a view that was laid out has at
\* least one pixel in each direction (changePlayerLayout).
THEOREM LayoutTypes == LayoutSpec => []LayoutTypeOK
<1>1. LayoutInv => LayoutTypeOK
  BY DEF LayoutInv
<1> QED
  BY <1>1, LayoutInductive, PTL

\* What a size over the full width, or height, is.
LEMMA WideHigh ==
  ASSUME NEW W \in Nat, NEW H \in Nat, NEW w \in Positive, NEW h \in Positive
  PROVE  /\ \A m \in Wide(<<W, H>>, w, h) :
              m[1] = W /\ DownTo(m[2], W * h, w)
         /\ \A m \in High(<<W, H>>, w, h) :
              m[2] = H /\ DownTo(m[1], H * w, h)
<1>1. W * h \in Nat /\ H * w \in Nat
  BY DEF Positive
<1>2. ASSUME NEW m \in Wide(<<W, H>>, w, h)
      PROVE  m[1] = W /\ m[2] \in FloorNear(<<W * h, w>>)
  BY DEF Wide
<1>3. ASSUME NEW m \in High(<<W, H>>, w, h)
      PROVE  m[2] = H /\ m[1] \in FloorNear(<<H * w, h>>)
  BY DEF High
<1> QED
  BY <1>1, <1>2, <1>3, FloorNearBounds

\* What the choice between the two tells of the lengths.
LEMMA WhichSide ==
  ASSUME NEW W \in Nat, NEW H \in Nat, NEW r1 \in Positive, NEW r2 \in Positive
  PROVE  /\ SameShape(<<W, H>>, <<r1, r2>>) =>
              /\ AtMost(W * r2, r1, H) /\ AtLeast(W * r2, r1, H)
              /\ AtMost(H * r1, r2, W) /\ AtLeast(H * r1, r2, W)
         /\ W * r2 < H * r1 => AtMost(W * r2, r1, H)
         /\ ~(W * r2 < H * r1) => AtMost(H * r1, r2, W)
         /\ Narrower(<<W, H>>, <<r1, r2>>) <=> W * r2 < H * r1
         /\ Less(<<W, r1>>, <<H, r2>>) <=> W * r2 < H * r1
<1>1. W * r2 \in Nat /\ H * r1 \in Nat /\ 1 * r1 = r1 /\ 1 * r2 = r2 /\ r1 * H = H * r1
  BY DEF Positive
<1>2. /\ Over(<<W, 1>>, <<r1, r2>>) = <<W * r2, r1>>
      /\ Times(<<H, 1>>, <<r1, r2>>) = <<H * r1, r2>>
  BY <1>1 DEF Over, Times
<1>3. SameShape(<<W, H>>, <<r1, r2>>) =>
        Close(<<W * r2, r1>>, H) /\ Close(<<H * r1, r2>>, W)
  BY <1>2 DEF SameShape
<1>4. SameShape(<<W, H>>, <<r1, r2>>) =>
              /\ AtMost(W * r2, r1, H) /\ AtLeast(W * r2, r1, H)
              /\ AtMost(H * r1, r2, W) /\ AtLeast(H * r1, r2, W)
  BY <1>1, <1>3, CloseBounds
<1>5. W * r2 < H * r1 => AtMost(W * r2, r1, H)
  BY <1>1, LessIsAtMost
<1>6. ~(W * r2 < H * r1) => AtMost(H * r1, r2, W)
  BY <1>1, LessIsAtMost
<1>7. /\ Narrower(<<W, H>>, <<r1, r2>>) <=> W * r2 < H * r1
      /\ Less(<<W, r1>>, <<H, r2>>) <=> W * r2 < H * r1
  BY <1>1 DEF Narrower, Less
<1> QED
  BY <1>4, <1>5, <1>6, <1>7

\* The size that BEST_FIT measures, and what was known of the shapes.
LEMMA BestFitMeasure ==
  ASSUME NEW W \in Nat, NEW H \in Nat, NEW w \in Positive, NEW h \in Positive,
         NEW m \in Measure("bestFit", <<W, H>>, w, h)
  PROVE  \/ /\ m \in Wide(<<W, H>>, w, h)
            /\ W * h < H * w \/ SameShape(<<W, H>>, <<w, h>>)
         \/ /\ m \in High(<<W, H>>, w, h)
            /\ ~(W * h < H * w) \/ SameShape(<<W, H>>, <<w, h>>)
<1>1. Less(<<W, w>>, <<H, h>>) <=> W * h < H * w
  BY WhichSide
<1> QED
  BY <1>1 DEF Measure

\* A PlayerTextureView in BEST_FIT lies inside its container and covers it in one
\* direction once the layout pass is done, whatever the sizes and the rounding
\* (onMeasure, setVideoSize).
THEOREM MeasuredPictureFits == LayoutSpec => []MeasuredFits
<1>1. LayoutInv => MeasuredFits
  <2> SUFFICES ASSUME LayoutInv, ~requested, displayMode = "bestFit",
                      video.width > 0, video.height > 0
               PROVE  /\ measured[1] <= container[1] /\ measured[2] <= container[2]
                      /\ measured[1] = container[1] \/ measured[2] = container[2]
    BY DEF MeasuredFits
  <2>1. /\ LayoutTypeOK
        /\ measured \in Measure("bestFit", container, video.width, video.height)
    BY DEF LayoutInv, MeasuredNow
  <2> PICK W \in Nat, H \in Nat : container = <<W, H>>
    BY <2>1, WindowType
  <2>2. video.width \in Int /\ video.height \in Int
    BY <2>1, LayoutAssumption DEF LayoutTypeOK, NoVideo
  <2> PICK w \in Positive, h \in Positive : w = video.width /\ h = video.height
    BY <2>2 DEF Positive
  <2>3. W * h \in Nat /\ H * w \in Nat
    BY DEF Positive
  <2>4. \/ /\ measured \in Wide(<<W, H>>, w, h)
           /\ W * h < H * w \/ SameShape(<<W, H>>, <<w, h>>)
        \/ /\ measured \in High(<<W, H>>, w, h)
           /\ ~(W * h < H * w) \/ SameShape(<<W, H>>, <<w, h>>)
    BY <2>1, BestFitMeasure
  <2>5. CASE /\ measured \in Wide(<<W, H>>, w, h)
             /\ W * h < H * w \/ SameShape(<<W, H>>, <<w, h>>)
    <3>1. measured[1] = W /\ DownTo(measured[2], W * h, w)
      BY <2>5, WideHigh
    <3>2. AtMost(W * h, w, H)
      BY <2>5, WhichSide
    <3>3. measured[2] <= H
      BY <2>3, <3>1, <3>2, DownToAtMost
    <3> QED
      BY <3>1, <3>3
  <2>6. CASE /\ measured \in High(<<W, H>>, w, h)
             /\ ~(W * h < H * w) \/ SameShape(<<W, H>>, <<w, h>>)
    <3>1. measured[2] = H /\ DownTo(measured[1], H * w, h)
      BY <2>6, WideHigh
    <3>2. AtMost(H * w, h, W)
      BY <2>6, WhichSide
    <3>3. measured[1] <= W
      BY <2>3, <3>1, <3>2, DownToAtMost
    <3> QED
      BY <3>1, <3>3
  <2> QED
    BY <2>4, <2>5, <2>6
<1> QED
  BY <1>1, LayoutInductive, PTL

\* The view has the shape asked for, to within a pixel and the error.
LEMMA ShapeKept ==
  ASSUME LayoutInv, fresh, currentSize # "fill"
  PROVE  InShape
<1>0. /\ LayoutTypeOK /\ video \in Videos /\ video.width * video.height # 0
      /\ Box[1] * Box[2] # 0
      /\ <<layoutParams.width, layoutParams.height>> \in ViewSizes(video)
  BY DEF LayoutInv, LaidOut, Sized
<1> PICK box, ar, p, q \in Fractions, exact \in BOOLEAN \X BOOLEAN :
      Shown(video, <<layoutParams.width, layoutParams.height>>, box, ar, p, q, exact)
  BY <1>0, ViewIsShown
<1> PICK W, H, vw, vh \in Positive :
      /\ W = video.width /\ H = video.height
      /\ vw = video.visibleWidth /\ vh = video.visibleHeight
  BY <1>0, VideoNumbers
<1> PICK r1 \in Positive, r2 \in Positive : ar = <<r1, r2>>
  BY DEF Fractions
<1> PICK p1 \in Positive, p2 \in Positive : p = <<p1, p2>>
  BY DEF Fractions
<1> PICK q1 \in Positive, q2 \in Positive : q = <<q1, q2>>
  BY DEF Fractions
<1> PICK P \in Positive : P = Precision /\ P \in Int
  BY PrecisionType
<1>1. /\ Ratio(video, currentSize) = <<r1, r2>>
      /\ p1 * q2 * r2 = r1 * p2 * q1
      /\ UpTo(layoutParams.width, p1 * W, p2 * vw)
      /\ UpTo(layoutParams.height, q1 * H, q2 * vh)
  BY <1>0 DEF Shown
<1>2. layoutParams.width \in Int /\ layoutParams.height \in Int
  BY <1>1 DEF UpTo, Positive
<1> PICK w \in Int, h \in Int : w = layoutParams.width /\ h = layoutParams.height
  BY <1>2
<1>3. PICK w0, w1, h0, h1 \in Int :
        /\ w0 = w * P - (P + 1) /\ w1 = w * P + 1
        /\ h0 = h * P - (P + 1) /\ h1 = h * P + 1
  OBVIOUS
<1>4. (w - 1) * P - 1 = w0 /\ (h - 1) * P - 1 = h0
  <2>1. \A x, y \in Int : (x - 1) * y - 1 = x * y - (y + 1)
    BY ONLY TRUE
  <2>2. w \in Int /\ h \in Int /\ P \in Int
    OBVIOUS
  <2> QED
    BY ONLY <1>3, <2>1, <2>2
<1>5. /\ w0 * (p2 * vw) < (p1 * W) * P /\ (p1 * W) * P <= w1 * (p2 * vw)
      /\ h0 * (q2 * vh) < (q1 * H) * P /\ (q1 * H) * P <= h1 * (q2 * vh)
  BY <1>1, <1>3, <1>4 DEF UpTo
<1> PICK WP \in Positive, HP \in Positive : WP = W * P /\ HP = H * P
  BY Products
<1>6. w0 * vw * H * r2 < r1 * (W * (h1 * vh))
  <2> PICK a \in Int, b \in Int : a = w0 * vw /\ b = h1 * vh
    BY DEF Positive
  <2>1. a * p2 < p1 * WP /\ q1 * HP <= b * q2
    BY <1>5 DEF Positive
  <2>2. a * HP * r2 < r1 * WP * b
    BY ONLY <1>1, <2>1, RatioLess
  <2>3. a * HP * r2 = (a * H * r2) * P /\ r1 * WP * b = (r1 * W * b) * P
    BY DEF Positive
  <2>4. a * H * r2 \in Int /\ r1 * W * b \in Int
    BY DEF Positive
  <2>5. a * H * r2 < r1 * W * b
    BY <2>2, <2>3, <2>4, LessTimes
  <2> QED
    BY <2>5 DEF Positive
<1>7. r1 * (W * (h0 * vh)) < w1 * vw * H * r2
  <2> PICK a \in Int, b \in Int : a = h0 * vh /\ b = w1 * vw
    BY DEF Positive
  <2>1. a * q2 < q1 * HP /\ p1 * WP <= b * p2
    BY <1>5 DEF Positive
  <2>2. q1 * p2 * r1 = r2 * q2 * p1
    BY <1>1 DEF Positive
  <2>3. a * WP * r1 < r2 * HP * b
    BY ONLY <2>1, <2>2, RatioLess
  <2>4. a * WP * r1 = (a * W * r1) * P /\ r2 * HP * b = (r2 * H * b) * P
    BY DEF Positive
  <2>5. a * W * r1 \in Int /\ r2 * H * b \in Int
    BY DEF Positive
  <2>6. a * W * r1 < r2 * H * b
    BY <2>3, <2>4, <2>5, LessTimes
  <2> QED
    BY <2>6 DEF Positive
<1>8. InShape <=>
        /\ w0 * vw * H * r2 < r1 * (W * (h1 * vh))
        /\ h > 1 => r1 * (W * (h0 * vh)) < w1 * vw * H * r2
  BY <1>1, <1>3 DEF InShape, Less, Over
<1> QED
  BY <1>6, <1>7, <1>8

\* The two ways to fit a picture into a box.
FitsWide(p, q, exact, W, H, r1, r2) ==
  /\ p = <<W, 1>> /\ exact[1] /\ q = <<W * r2, r1>>
  /\ W * r2 < H * r1 \/ SameShape(<<W, H>>, <<r1, r2>>)

FitsHigh(p, q, exact, W, H, r1, r2) ==
  /\ q = <<H, 1>> /\ exact[2] /\ p = <<H * r1, r2>>
  /\ ~(W * r2 < H * r1) \/ SameShape(<<W, H>>, <<r1, r2>>)

LEMMA FittingSides ==
  ASSUME NEW mode, mode \in {"bestFit", "16:9", "4:3"}, NEW v,
         NEW W \in Positive, NEW H \in Positive, NEW r1 \in Positive,
         NEW r2 \in Positive,
         NEW p \in Fractions, NEW q \in Fractions, NEW exact \in BOOLEAN \X BOOLEAN,
         Sides(p, q, exact) \in Pictures(mode, <<W, H>>, <<r1, r2>>, v)
  PROVE  FitsWide(p, q, exact, W, H, r1, r2) \/ FitsHigh(p, q, exact, W, H, r1, r2)
<1>1. 1 * r1 = r1 /\ 1 * r2 = r2 /\ W \in Nat /\ H \in Nat
  BY DEF Positive
<1> DEFINE P == Sides(p, q, exact)
           wide == FullWidth(<<W, H>>, <<r1, r2>>)
           high == FullHeight(<<W, H>>, <<r1, r2>>)
<1>2. /\ wide = <<[length |-> <<W, 1>>, exact |-> TRUE],
                  [length |-> <<W * r2, r1>>, exact |-> FALSE]>>
      /\ high = <<[length |-> <<H * r1, r2>>, exact |-> FALSE],
                  [length |-> <<H, 1>>, exact |-> TRUE]>>
  BY <1>1 DEF FullWidth, FullHeight, Over, Times, Given, Computed
<1>3. Narrower(<<W, H>>, <<r1, r2>>) <=> W * r2 < H * r1
  BY <1>1, WhichSide
<1>4. /\ P \in {wide, high}
      /\ \/ P = IF Narrower(<<W, H>>, <<r1, r2>>) THEN wide ELSE high
         \/ SameShape(<<W, H>>, <<r1, r2>>)
  BY DEF Pictures
<1>5. P = wide => p = <<W, 1>> /\ exact[1] /\ q = <<W * r2, r1>>
  BY <1>2 DEF Sides
<1>6. P = high => q = <<H, 1>> /\ exact[2] /\ p = <<H * r1, r2>>
  BY <1>2 DEF Sides
<1> HIDE DEF P, wide, high
<1> QED
  BY <1>3, <1>4, <1>5, <1>6 DEF FitsWide, FitsHigh

\* The picture of a fitting mode touches two sides of the window and exceeds it by
\* at most a pixel.
LEMMA WindowKept ==
  ASSUME LayoutInv, fresh, Fitted, Uncropped, ~Contradicts(Window)
  PROVE  /\ InWindow
         /\ layoutParams.width = Window[1] \/ layoutParams.height = Window[2]
<1>0. /\ LayoutTypeOK /\ video \in Videos /\ video.width * video.height # 0
      /\ Box[1] * Box[2] # 0 /\ Box = Window
      /\ <<layoutParams.width, layoutParams.height>> \in ViewSizes(video)
      /\ layoutParams.marginLeft = Half(container[1] - layoutParams.width)
      /\ currentSize \in {"bestFit", "16:9", "4:3"}
  BY DEF LayoutInv, LaidOut, Sized, Box, Fitted
<1> PICK box, ar, p, q \in Fractions, exact \in BOOLEAN \X BOOLEAN :
      Shown(video, <<layoutParams.width, layoutParams.height>>, box, ar, p, q, exact)
  BY <1>0, ViewIsShown
<1> PICK vw, vh \in Positive :
      /\ vw = video.width /\ vh = video.height
      /\ vw = video.visibleWidth /\ vh = video.visibleHeight
  BY <1>0, VideoNumbers DEF Uncropped
<1> PICK r1 \in Positive, r2 \in Positive : ar = <<r1, r2>>
  BY DEF Fractions
<1> PICK W \in Positive, H \in Positive : box = <<W, H>>
  BY DEF Fractions
<1>1. /\ Window = <<W, H>> /\ container[1] = W
      /\ Sides(p, q, exact) \in Pictures(currentSize, <<W, H>>, <<r1, r2>>, video)
  <2>1. Window = <<W, H>>
    BY <1>0 DEF Shown
  <2>2. container[1] = W
    BY <1>0, <2>1, WindowType
  <2> QED
    BY <2>1, <2>2 DEF Shown
<1> PICK w \in Positive, h \in Positive :
      /\ layoutParams.width = w /\ layoutParams.height = h
      /\ UpTo(w, p[1] * vw, p[2] * vw) /\ UpTo(h, q[1] * vh, q[2] * vh)
      /\ exact[1] => w = Ceil(<<p[1] * vw, p[2] * vw>>)
      /\ exact[2] => h = Ceil(<<q[1] * vh, q[2] * vh>>)
  BY DEF Shown, UpTo
<1>2. UpTo(w, p[1], p[2]) /\ UpTo(h, q[1], q[2])
  BY UpToUnscaled DEF Fractions
<1>3. W \in Nat /\ H \in Nat /\ w \in Int /\ h \in Int
      /\ W * r2 \in Positive /\ H * r1 \in Positive
  BY Products DEF Positive
<1>4. layoutParams.marginLeft = Half(W - w)
  BY <1>0, <1>1
<1>5. CASE FitsWide(p, q, exact, W, H, r1, r2)
  <2>1. w = W
    BY <1>5, CeilGiven DEF FitsWide
  <2>2. AtMost(W * r2, r1, H) /\ UpTo(h, W * r2, r1)
    BY <1>2, <1>3, <1>5, WhichSide DEF FitsWide
  <2>3. h <= H + 1
    BY <1>3, <2>2, UpToAtMost
  <2>4. layoutParams.marginLeft = 0
    BY <1>3, <1>4, <2>1 DEF Half
  <2> QED
    BY <1>1, <1>3, <2>1, <2>3, <2>4 DEF InWindow
<1>6. CASE FitsHigh(p, q, exact, W, H, r1, r2)
  <2>1. h = H
    BY <1>6, CeilGiven DEF FitsHigh
  <2>2. AtMost(H * r1, r2, W) /\ UpTo(w, H * r1, r2)
    BY <1>2, <1>3, <1>6, WhichSide DEF FitsHigh
  <2>3. w <= W + 1
    BY <1>3, <2>2, UpToAtMost
  <2>4. /\ 0 <= layoutParams.marginLeft
        /\ layoutParams.marginLeft + w <= W + 1
    <3>1. W - w \in Int /\ (W - w >= 0 \/ W - w = -1)
      BY <1>3, <2>3
    <3> QED
      BY <1>3, <1>4, <3>1, HalfType
  <2> QED
    BY <1>1, <1>3, <2>1, <2>4 DEF InWindow
<1>7. FitsWide(p, q, exact, W, H, r1, r2) \/ FitsHigh(p, q, exact, W, H, r1, r2)
  <2>1. /\ currentSize \in {"bestFit", "16:9", "4:3"}
        /\ p \in Fractions /\ q \in Fractions /\ exact \in BOOLEAN \X BOOLEAN
        /\ W \in Positive /\ H \in Positive
        /\ r1 \in Positive /\ r2 \in Positive
    BY <1>0
  <2>2. Sides(p, q, exact) \in Pictures(currentSize, <<W, H>>, <<r1, r2>>, video)
    BY <1>1
  <2> QED
    BY ONLY <2>1, <2>2, FittingSides
<1> QED
  BY <1>5, <1>6, <1>7, Zenon

\* The view ZMediaPlayer sizes has the shape of the video or of its mode, and in
\* the fitting modes touches two sides of the container and exceeds it by at most
\* a pixel (changePlayerLayout).
THEOREM ViewFitsContainer == LayoutSpec => []FitsContainer
<1>1. LayoutInv => FitsContainer
  BY ShapeKept, WindowKept DEF FitsContainer
<1> QED
  BY <1>1, LayoutInductive, PTL

\* Both editions compute one length of the container and round the other one.
LEMMA SameSize ==
  ASSUME LayoutInv, fresh, Uncropped, video.sarNum = video.sarDen, videoHeight = 0,
         ~Contradicts(Window), ~requested, displayMode = currentSize
  PROVE  /\ Covers(layoutParams.width, measured[1])
         /\ Covers(layoutParams.height, measured[2])
<1>0. /\ LayoutTypeOK /\ video \in Videos /\ video.width * video.height # 0
      /\ Box[1] * Box[2] # 0 /\ Box = Window
      /\ <<layoutParams.width, layoutParams.height>> \in ViewSizes(video)
      /\ currentSize \in DisplayModes
  BY DEF LayoutInv, LaidOut, Sized, Box, LayoutTypeOK
<1> PICK box, ar, p, q \in Fractions, exact \in BOOLEAN \X BOOLEAN :
      Shown(video, <<layoutParams.width, layoutParams.height>>, box, ar, p, q, exact)
  BY <1>0, ViewIsShown
<1> PICK vw, vh \in Positive :
      /\ vw = video.width /\ vh = video.height
      /\ vw = video.visibleWidth /\ vh = video.visibleHeight
  BY <1>0, VideoNumbers DEF Uncropped
<1> PICK W \in Positive, H \in Positive : box = <<W, H>>
  BY DEF Fractions
<1>1. /\ vw \in Int /\ vh \in Int /\ W \in Nat /\ H \in Nat
      /\ vw > 0 /\ vh > 0 /\ W * vh \in Positive /\ H * vw \in Positive
  BY Products DEF Positive
<1>2. container = <<W, H>>
  <2>1. Window = <<W, H>> /\ container \in Nat \X Nat
    BY <1>0, WindowType DEF Shown
  <2> QED
    BY <2>1 DEF Window
<1>3. ar = <<vw, vh>>
  <2>1. ar = Ratio(video, currentSize) /\ currentSize \notin {"16:9", "4:3"}
    BY <1>0 DEF Shown, DisplayModes
  <2>2. ar = <<vw * 1, 1 * vh>>
    BY <2>1 DEF Ratio, SquareWidth, Over
  <2> QED
    BY <1>1, <2>2
<1>4. Sides(p, q, exact) \in Pictures(currentSize, <<W, H>>, <<vw, vh>>, video)
  BY <1>3 DEF Shown
<1>5. measured \in Measure(currentSize, <<W, H>>, vw, vh)
  BY <1>1, <1>2 DEF LayoutInv, MeasuredNow
<1> PICK w \in Positive, h \in Positive :
      /\ layoutParams.width = w /\ layoutParams.height = h
      /\ UpTo(w, p[1] * vw, p[2] * vw) /\ UpTo(h, q[1] * vh, q[2] * vh)
      /\ exact[1] => w = Ceil(<<p[1] * vw, p[2] * vw>>)
      /\ exact[2] => h = Ceil(<<q[1] * vh, q[2] * vh>>)
  BY DEF Shown, UpTo
<1>6. UpTo(w, p[1], p[2]) /\ UpTo(h, q[1], q[2])
  BY UpToUnscaled DEF Fractions
<1>7. \A m \in Nat : Covers(m, m) /\ Covers(m + 1, m) /\ w \in Nat /\ h \in Nat
  BY DEF Covers, Positive
<1> DEFINE WideView == p = <<W, 1>> /\ exact[1] /\ q = <<W * vh, vw>>
           HighView == q = <<H, 1>> /\ exact[2] /\ p = <<H * vw, vh>>
           WideMeasured == measured \in Wide(<<W, H>>, vw, vh)
           HighMeasured == measured \in High(<<W, H>>, vw, vh)
<1>8. WideView => w = W /\ UpTo(h, W * vh, vw)
  BY <1>6, CeilGiven
<1>9. HighView => h = H /\ UpTo(w, H * vw, vh)
  BY <1>6, CeilGiven
<1>10. WideMeasured => measured[1] = W /\ DownTo(measured[2], W * vh, vw)
  BY <1>1, WideHigh
<1>11. HighMeasured => measured[2] = H /\ DownTo(measured[1], H * vw, vh)
  BY <1>1, WideHigh
<1> HIDE DEF WideView, HighView, WideMeasured, HighMeasured
<1>12. CASE WideView /\ WideMeasured
  BY <1>1, <1>7, <1>8, <1>10, <1>12, UpCoversDown
<1>13. CASE HighView /\ HighMeasured
  BY <1>1, <1>7, <1>9, <1>11, <1>13, UpCoversDown
<1>14. ASSUME SameShape(<<W, H>>, <<vw, vh>>)
       PROVE  /\ AtMost(W * vh, vw, H) /\ AtLeast(W * vh, vw, H)
              /\ AtMost(H * vw, vh, W) /\ AtLeast(H * vw, vh, W)
  BY <1>1, <1>14, WhichSide
<1>15. CASE WideView /\ HighMeasured /\ SameShape(<<W, H>>, <<vw, vh>>)
  <2>1. H <= h /\ h <= H + 1
    BY <1>1, <1>8, <1>14, <1>15, UpToAtMost, UpToAtLeast
  <2>2. measured[1] \in Nat /\ measured[1] <= W /\ W <= measured[1] + 1
    <3>1. DownTo(measured[1], H * vw, vh) /\ H * vw \in Nat
      BY <1>1, <1>11, <1>15 DEF Positive
    <3> QED
      BY <1>1, <1>14, <1>15, <3>1, DownToAtMost, DownToAtLeast DEF DownTo
  <2>3. w = W /\ measured[2] = H
    BY <1>8, <1>11, <1>15
  <2> QED
    <3>1. Covers(w, measured[1])
      BY <1>1, <2>2, <2>3, CoversWithin
    <3>2. Covers(h, measured[2])
      BY <1>1, <1>7, <2>1, <2>3, CoversWithin
    <3> QED
      BY <3>1, <3>2
<1>16. CASE HighView /\ WideMeasured /\ SameShape(<<W, H>>, <<vw, vh>>)
  <2>1. W <= w /\ w <= W + 1
    BY <1>1, <1>9, <1>14, <1>16, UpToAtMost, UpToAtLeast
  <2>2. measured[2] \in Nat /\ measured[2] <= H /\ H <= measured[2] + 1
    <3>1. DownTo(measured[2], W * vh, vw) /\ W * vh \in Nat
      BY <1>1, <1>10, <1>16 DEF Positive
    <3> QED
      BY <1>1, <1>14, <1>16, <3>1, DownToAtMost, DownToAtLeast DEF DownTo
  <2>3. h = H /\ measured[1] = W
    BY <1>9, <1>10, <1>16
  <2> QED
    <3>1. Covers(h, measured[2])
      BY <1>1, <2>2, <2>3, CoversWithin
    <3>2. Covers(w, measured[1])
      BY <1>1, <1>7, <2>1, <2>3, CoversWithin
    <3> QED
      BY <3>1, <3>2
<1>17. CASE currentSize = "fill"
  <2>1. p = <<W, 1>> /\ exact[1] /\ q = <<H, 1>> /\ exact[2] /\ measured = <<W, H>>
    BY <1>4, <1>5, <1>17 DEF Pictures, Measure, Given, Sides
  <2>2. w = W /\ h = H
    BY <2>1, CeilGiven
  <2> QED
    BY <1>1, <1>7, <2>1, <2>2
<1>18. CASE currentSize = "fitHorizontal"
  <2>1. Sides(p, q, exact) = FullWidth(<<W, H>>, <<vw, vh>>) /\ WideMeasured
    BY <1>4, <1>5, <1>18 DEF Pictures, Measure, WideMeasured
  <2>2. WideView
    BY <1>1, <2>1 DEF FullWidth, Over, Given, Computed, Sides, WideView
  <2> QED
    BY <1>12, <2>1, <2>2
<1>19. CASE currentSize = "fitVertical"
  <2>1. Sides(p, q, exact) = FullHeight(<<W, H>>, <<vw, vh>>) /\ HighMeasured
    BY <1>4, <1>5, <1>19 DEF Pictures, Measure, HighMeasured
  <2>2. HighView
    BY <1>1, <2>1 DEF FullHeight, Times, Given, Computed, Sides, HighView
  <2> QED
    BY <1>13, <2>1, <2>2
<1>20. CASE currentSize = "bestFit"
  <2>1. \/ WideView /\ (W * vh < H * vw \/ SameShape(<<W, H>>, <<vw, vh>>))
        \/ HighView /\ (~(W * vh < H * vw) \/ SameShape(<<W, H>>, <<vw, vh>>))
    <3>1. /\ currentSize \in {"bestFit", "16:9", "4:3"}
          /\ p \in Fractions /\ q \in Fractions /\ exact \in BOOLEAN \X BOOLEAN
          /\ W \in Positive /\ H \in Positive
          /\ vw \in Positive /\ vh \in Positive
      BY <1>20
    <3>2. Sides(p, q, exact) \in Pictures(currentSize, <<W, H>>, <<vw, vh>>, video)
      BY <1>4
    <3>3. FitsWide(p, q, exact, W, H, vw, vh) \/ FitsHigh(p, q, exact, W, H, vw, vh)
      BY ONLY <3>1, <3>2, FittingSides
    <3> QED
      BY <3>3 DEF FitsWide, FitsHigh, WideView, HighView
  <2>2. \/ WideMeasured /\ (W * vh < H * vw \/ SameShape(<<W, H>>, <<vw, vh>>))
        \/ HighMeasured /\ (~(W * vh < H * vw) \/ SameShape(<<W, H>>, <<vw, vh>>))
    BY <1>1, <1>5, <1>20, BestFitMeasure DEF WideMeasured, HighMeasured
  <2> QED
    BY <1>12, <1>13, <1>15, <1>16, <2>1, <2>2
<1> QED
  BY <1>0, <1>17, <1>18, <1>19, <1>20 DEF DisplayModes

\* ZMediaPlayer and ZMediaPlayer2 give a video sizes that differ by two pixels at
\* most, the first edition's being the larger, in each of the modes both have
\* (changePlayerLayout, ZDisplayMode).
THEOREM EditionsShowTheSame == LayoutSpec => []EditionsAgree
<1>1. LayoutInv => EditionsAgree
  BY SameSize DEF EditionsAgree
<1> QED
  BY <1>1, LayoutInductive, PTL
=============================================================================
