------------------------ MODULE PlayerEvents_proofs ------------------------
(***************************************************************************)
(* Proofs about PlayerEvents, for any players, threads and events.         *)
(***************************************************************************)
EXTENDS PlayerEvents, FiniteSetTheorems, SequenceTheorems,
        WellFoundedInduction, TLAPS

----------------------------------------------------------------------------
(* The list and the queue *)

\* A set of natural numbers that is not empty has a least element.
LEMMA Least ==
  ASSUME NEW I, I \subseteq Nat, I # {}
  PROVE  \E m \in I : \A k \in I : m <= k
<1>1. PICK m \in I : \A k \in I : ~(<<k, m>> \in OpToRel(<, Nat))
  BY NatLessThanWellFounded, WFMin
<1>2. ASSUME NEW k \in I, k < m
      PROVE  FALSE
  <2>1. <<k, m>> \in Nat \X Nat /\ <<k, m>>[1] < <<k, m>>[2]
    BY <1>2
  <2> QED
    BY <1>1, <2>1 DEF OpToRel
<1>3. \A k \in I : k \in Int /\ m \in Int /\ ~(k < m)
  BY <1>2
<1> QED
  BY <1>3

\* Removing an element from a list moves those behind it up by one.
LEMMA RemoveFirstShape ==
  ASSUME NEW S, NEW s \in Seq(S), NEW p
  PROVE  /\ RemoveFirst(s, p) \in Seq(S)
         /\ \/ p \notin Range(s) /\ RemoveFirst(s, p) = s
            \/ \E x \in 1 .. Len(s) :
                 /\ s[x] = p /\ Len(RemoveFirst(s, p)) = Len(s) - 1
                 /\ \A k \in 1 .. Len(s) - 1 :
                      RemoveFirst(s, p)[k] = IF k < x THEN s[k] ELSE s[k + 1]
<1>1. CASE \E i \in 1 .. Len(s) : s[i] = p
  <2> DEFINE I == {i \in 1 .. Len(s) : s[i] = p}
             x == Min(I)
  <2>1. RemoveFirst(s, p) = RemoveAt(s, x)
    BY <1>1 DEF RemoveFirst, SelectInSeq
  <2>2. x \in I
    <3>1. I \subseteq Nat /\ I # {}
      BY <1>1
    <3>2. \E m \in I : \A k \in I : m <= k
      BY <3>1, Least
    <3> QED
      BY <3>2 DEF Min
  <2> HIDE DEF x
  <2>3. x \in 1 .. Len(s) /\ s[x] = p /\ Len(s) \in Nat
    BY <2>2
  <2> DEFINE a == SubSeq(s, 1, x - 1)
             b == SubSeq(s, x + 1, Len(s))
  <2>4. /\ a \in Seq(S) /\ Len(a) = x - 1 /\ \A k \in 1 .. x - 1 : a[k] = s[k]
    BY <2>3
  <2>5. /\ b \in Seq(S) /\ Len(b) = Len(s) - x
        /\ \A k \in 1 .. Len(s) - x : b[k] = s[x + k]
    BY <2>3
  <2> HIDE DEF a, b
  <2>6. /\ a \o b \in Seq(S) /\ Len(a \o b) = Len(s) - 1
        /\ \A k \in 1 .. Len(s) - 1 :
             (a \o b)[k] = IF k <= x - 1 THEN a[k] ELSE b[k - (x - 1)]
    <3>1. /\ a \o b \in Seq(S) /\ Len(a \o b) = Len(a) + Len(b)
          /\ \A k \in 1 .. Len(a) + Len(b) :
               (a \o b)[k] = IF k <= Len(a) THEN a[k] ELSE b[k - Len(a)]
      BY <2>4, <2>5, ConcatProperties
    <3>2. Len(a) + Len(b) = Len(s) - 1
      BY <2>3, <2>4, <2>5
    <3> QED
      BY <2>4, <3>1, <3>2
  <2>7. \A k \in 1 .. Len(s) - 1 : (a \o b)[k] = IF k < x THEN s[k] ELSE s[k + 1]
    BY <2>3, <2>4, <2>5, <2>6
  <2> QED
    BY <2>1, <2>3, <2>6, <2>7 DEF RemoveAt, a, b
<1>2. CASE ~\E i \in 1 .. Len(s) : s[i] = p
  BY <1>2 DEF RemoveFirst, Range
<1> QED
  BY <1>1, <1>2

\* Purging the queue leaves messages of the queue.
LEMMA PurgedType ==
  ASSUME NEW S, queue \in Seq(S), NEW p
  PROVE  Purged(p) \in Seq(S)
<1> DEFINE kept == {i \in DOMAIN queue : queue[i].to # p}
           upTo(i) == {j \in kept : j <= i}
           n == Cardinality(kept)
           rank == [i \in kept |-> Cardinality(upTo(i))]
<1>1. /\ kept \subseteq 1 .. Len(queue) /\ Len(queue) \in Nat
      /\ \A i \in kept : i \in Int /\ queue[i] \in S
  OBVIOUS
<1> HIDE DEF kept
<1>2. IsFiniteSet(kept) /\ n \in Nat
  <2>1. IsFiniteSet(1 .. Len(queue))
    BY <1>1, FS_Interval
  <2>2. IsFiniteSet(kept)
    BY <1>1, <2>1, FS_Subset
  <2> QED
    BY <2>2, FS_CardinalityType
<1>3. ASSUME NEW i \in kept
      PROVE  /\ IsFiniteSet(upTo(i)) /\ Cardinality(upTo(i)) \in Nat
             /\ Cardinality(upTo(i)) <= n /\ i \in upTo(i)
  <2>1. upTo(i) \in SUBSET kept /\ i \in upTo(i)
    BY <1>1
  <2> QED
    BY <1>2, <2>1, FS_Subset, FS_CardinalityType
<1>4. ASSUME NEW i \in kept
      PROVE  rank[i] \in 1 .. n
  <2>1. Cardinality(upTo(i)) # 0
    BY <1>3, FS_EmptySet
  <2>2. rank[i] = Cardinality(upTo(i))
    OBVIOUS
  <2> HIDE DEF rank, upTo, n
  <2> QED
    BY <1>2, <1>3, <2>1, <2>2
<1>5. ASSUME NEW i \in kept, NEW j \in kept, i < j
      PROVE  rank[i] # rank[j]
  <2>1. upTo(i) \subseteq upTo(j) /\ j \notin upTo(i)
    <3>1. i \in Int /\ j \in Int /\ \A x \in kept : x \in Int
      BY <1>1
    <3>2. ~(j <= i) /\ \A x \in kept : x <= i => x <= j
      BY <1>5, <3>1
    <3> QED
      BY <3>2
  <2>2. upTo(i) # upTo(j)
    BY <1>3, <2>1
  <2> QED
    BY <1>3, <2>1, <2>2, FS_Subset
<1>6. \A i, j \in kept : rank[i] = rank[j] => i = j
  BY <1>1, <1>5
<1>7. rank \in Injection(kept, 1 .. n)
  BY <1>4, <1>6 DEF Injection, IsInjective
<1>8. IsFiniteSet(1 .. n) /\ Cardinality(1 .. n) = n
  BY <1>2, FS_Interval
<1>9. rank \in Surjection(kept, 1 .. n)
  BY <1>7, <1>8, FS_Injection
<1> DEFINE nth(k) == CHOOSE i \in kept : Cardinality({j \in kept : j <= i}) = k
<1>10. ASSUME NEW k \in 1 .. n
       PROVE  queue[nth(k)] \in S
  <2>1. \E i \in kept : Cardinality(upTo(i)) = k
    BY <1>9 DEF Surjection
  <2>2. nth(k) \in kept
    BY <2>1
  <2> QED
    BY <1>1, <2>2
<1> HIDE DEF nth, n
<1>11. [k \in 1 .. n |-> queue[nth(k)]] \in Seq(S)
  BY <1>2, <1>10
<1> QED
  BY <1>11 DEF Purged, kept, n, nth

----------------------------------------------------------------------------
(* The inductive invariant *)

Cast == [at : {"idle", "size", "get", "send", "over"},
         event : AllEvents \cup {"none"}, i : Nat,
         target : Players \cup {NoPlayer}, sent : Seq(Players),
         audience : SUBSET Players, removed : Nat]

Message == [to : built, event : AllEvents]

CastRegistered(c) ==
  /\ c.at # "idle" => c.event \in AllEvents
  /\ c.at = "send" => c.target \in built
  /\ Range(c.sent) \subseteq built /\ c.audience \subseteq built

Unknown(p) ==
  ~isOnPlayCallback[p] /\ phase[p] = "idle" /\ ~live[p] /\ ~callBack[p]

\* Whatever goes around belongs to a player that was constructed.
Registered ==
  /\ cast \in [Players -> Cast]
  /\ \A p \in Players : CastRegistered(cast[p])
  /\ handlers \in Seq(built) /\ queue \in Seq(Message)
  /\ to \in built \cup {NoPlayer}
  /\ \A t \in Threads : stopOf[t] \in built \cup {NoPlayer}
  /\ gone \subseteq built /\ hidden \subseteq built
  /\ \A p \in Players \ built : Unknown(p)

USE EventAssumption

----------------------------------------------------------------------------
(* Types *)

\* What the main thread does between two messages.
UiStep ==
  \/ Position \/ EndReached \/ TestCallBack \/ ReadRef \/ Call \/ AppReturns
  \/ SetFlag

\* The elements of a list after one is appended.
LEMMA AppendRange ==
  ASSUME NEW S, NEW s \in Seq(S), NEW x \in S
  PROVE  /\ Append(s, x) \in Seq(S)
         /\ Range(Append(s, x)) = Range(s) \cup {x}
<1>1. /\ Append(s, x) \in Seq(S) /\ Len(Append(s, x)) = Len(s) + 1
      /\ DOMAIN Append(s, x) = 1 .. Len(s) + 1 /\ DOMAIN s = 1 .. Len(s)
      /\ Len(s) \in Nat
      /\ \A i \in 1 .. Len(s) : Append(s, x)[i] = s[i]
      /\ Append(s, x)[Len(s) + 1] = x
  OBVIOUS
<1>2. ASSUME NEW y \in Range(s) \cup {x}
      PROVE  y \in Range(Append(s, x))
  <2>1. \E i \in 1 .. Len(s) + 1 : Append(s, x)[i] = y
    BY <1>1 DEF Range
  <2> QED
    BY <1>1, <2>1 DEF Range
<1>3. ASSUME NEW y \in Range(Append(s, x))
      PROVE  y \in Range(s) \cup {x}
  <2>1. PICK i \in 1 .. Len(s) + 1 : Append(s, x)[i] = y
    BY <1>1 DEF Range
  <2>2. i = Len(s) + 1 \/ i \in 1 .. Len(s)
    BY <1>1
  <2> QED
    BY <1>1, <2>1, <2>2 DEF Range
<1> QED
  BY <1>1, <1>2, <1>3

\* The event threads start at rest.
LEMMA NoCastType == NoCast \in Cast /\ CastRegistered(NoCast)
<1>1. Range(<<>>) = {} /\ <<>> \in Seq(Players)
  BY DEF Range
<1> QED
  BY <1>1 DEF NoCast, Cast, CastRegistered

\* A step hands nothing to a player that was not constructed.
LEMMA RegisteredKeeps ==
  ASSUME TypeOK, Registered, Next
  PROVE  Registered'
<1>1. ASSUME NEW p \in Players, Construct(p)
      PROVE  Registered'
  <2>1. /\ built' = built \cup {p} /\ p \notin built /\ built \subseteq Players
        /\ live' = [live EXCEPT ![p] = TRUE]
        /\ callBack' = [callBack EXCEPT ![p] = TRUE]
        /\ handlers' = Append(handlers, p)
        /\ UNCHANGED <<cast, casts, queue, to, stopOf, gone, hidden, isOnPlayCallback, phase>>
    BY <1>1 DEF Construct, TypeOK, uiVars, stopVars, tellVars
  <2>2. cast' \in [Players -> Cast] /\ \A c \in Players : CastRegistered(cast[c])'
    BY <2>1 DEF Registered, CastRegistered
  <2>3. handlers' \in Seq(built')
    BY <2>1, SeqMonotonic DEF Registered
  <2>4. queue' \in Seq(Message')
    <3>1. Message \subseteq Message'
      BY <2>1 DEF Message
    <3>2. queue' \in Seq(Message)
      BY <2>1 DEF Registered
    <3> QED
      BY <3>1, <3>2, SeqMonotonic
  <2>5. \A q \in Players \ built' : Unknown(q)'
    BY <2>1 DEF Registered, Unknown, TypeOK
  <2> QED
    BY <2>1, <2>2, <2>3, <2>4, <2>5 DEF Registered
<1>2. ASSUME NEW p \in Players, CastStep(p) \/ \E e \in Events : CastBegin(p, e)
      PROVE  Registered'
  <2>1. UNCHANGED <<handlers, built, to, stopOf, gone, hidden, isOnPlayCallback,
                    phase, live, callBack>>
    BY <1>2 DEF CastStep, CastBegin, CastSize, CastGet, CastSend, CastEnd,
                uiVars, playerVars, stopVars, tellVars
  <2>2. /\ cast' = [cast EXCEPT ![p] = cast'[p]]
        /\ queue' \in {queue, Append(queue, [to |-> cast[p].target,
                                            event |-> cast[p].event])}
    BY <1>2 DEF CastStep, CastBegin, CastSize, CastGet, CastSend, CastEnd, Registered
  <2>3. cast'[p] \in Cast /\ CastRegistered(cast'[p])
    <3> DEFINE c == cast[p]
    <3>1. /\ c \in Cast /\ CastRegistered(c) /\ p \in DOMAIN cast
          /\ c.at \in {"idle", "size", "get", "send", "over"}
          /\ c.event \in AllEvents \cup {"none"} /\ c.i \in Nat
          /\ c.target \in Players \cup {NoPlayer} /\ c.sent \in Seq(Players)
          /\ c.audience \subseteq Players /\ c.removed \in Nat
      BY DEF Registered, Cast
    <3>2. Range(handlers) \subseteq built /\ built \subseteq Players
      BY DEF Registered, TypeOK, Range
    <3> HIDE DEF c
    <3>3. ASSUME NEW e \in Events, CastBegin(p, e)
          PROVE  cast'[p] \in Cast /\ CastRegistered(cast'[p])
      <4>1. cast'[p] = [NoCast EXCEPT !.at = "size", !.event = e,
                                      !.audience = Range(handlers)]
        BY <3>1, <3>3 DEF CastBegin
      <4>2. Range(<<>>) = {} /\ <<>> \in Seq(Players)
        BY DEF Range
      <4>3. /\ cast'[p].at = "size" /\ cast'[p].event = e /\ cast'[p].sent = <<>>
            /\ cast'[p].audience = Range(handlers)
        BY <4>1 DEF NoCast
      <4>4. CastRegistered(cast'[p])
        BY <3>2, <4>2, <4>3 DEF CastRegistered
      <4>5. cast'[p] \in Cast
        <5>1. cast'[p] = [at |-> "size", event |-> e, i |-> 0, target |-> NoPlayer,
                          sent |-> <<>>, audience |-> Range(handlers), removed |-> 0]
          BY <4>1 DEF NoCast
        <5>2. e \in AllEvents /\ Range(handlers) \in SUBSET Players
          BY <3>2
        <5> QED
          BY <4>2, <5>1, <5>2 DEF Cast
      <4> QED
        BY <4>4, <4>5
    <3>4. ASSUME CastGet(p)
          PROVE  cast'[p] \in Cast /\ CastRegistered(cast'[p])
      <4>1. \/ cast'[p] = [c EXCEPT !.at = "over"]
            \/ /\ c.i < Len(handlers) /\ c.at = "get"
               /\ cast'[p] = [c EXCEPT !.at = "send", !.target = handlers[c.i + 1]]
        BY <3>1, <3>4 DEF CastGet, c
      <4>2. c.i < Len(handlers) => handlers[c.i + 1] \in built
        BY <3>1 DEF Registered
      <4> QED
        BY <3>1, <3>2, <3>4, <4>1, <4>2 DEF CastGet, Cast, CastRegistered, c
    <3>5. ASSUME CastSend(p)
          PROVE  cast'[p] \in Cast /\ CastRegistered(cast'[p])
      <4>1. /\ cast'[p] = [c EXCEPT !.at = "size", !.i = c.i + 1, !.target = NoPlayer,
                                    !.sent = Append(c.sent, c.target)]
            /\ c.at = "send"
        BY <3>1, <3>5 DEF CastSend, c
      <4>2. c.target \in built /\ c.target \in Players
        BY <3>1, <3>2, <4>1 DEF CastRegistered
      <4>3. /\ Append(c.sent, c.target) \in Seq(Players)
            /\ Range(Append(c.sent, c.target)) \subseteq built
        BY <3>1, <4>2, AppendRange DEF CastRegistered
      <4>4. /\ cast'[p].at = "size" /\ cast'[p].event = c.event
            /\ cast'[p].sent = Append(c.sent, c.target)
            /\ cast'[p].audience = c.audience
        BY <3>1, <4>1 DEF Cast
      <4>5. CastRegistered(cast'[p])
        BY <3>1, <4>1, <4>3, <4>4 DEF CastRegistered
      <4>6. cast'[p] \in Cast
        <5>1. cast'[p] = [at |-> "size", event |-> c.event, i |-> c.i + 1,
                          target |-> NoPlayer, sent |-> Append(c.sent, c.target),
                          audience |-> c.audience, removed |-> c.removed]
          BY <3>1, <4>1 DEF Cast
        <5>2. c.i + 1 \in Nat /\ c.audience \in SUBSET Players
          BY <3>1
        <5> QED
          BY <3>1, <4>3, <5>1, <5>2 DEF Cast
      <4> QED
        BY <4>5, <4>6
    <3>6. ASSUME CastSize(p) \/ CastEnd(p)
          PROVE  cast'[p] \in Cast /\ CastRegistered(cast'[p])
      <4>1. CASE CastSize(p)
        <5>1. cast'[p] \in {[c EXCEPT !.at = "get"], [c EXCEPT !.at = "over"]} /\ c.at = "size"
          BY <3>1, <4>1 DEF CastSize, c
        <5> QED
          BY <3>1, <5>1 DEF Cast, CastRegistered
      <4>2. CASE CastEnd(p)
        BY <3>1, <4>2, NoCastType DEF CastEnd
      <4> QED
        BY <3>6, <4>1, <4>2
    <3> QED
      BY <1>2, <3>3, <3>4, <3>5, <3>6 DEF CastStep
  <2>4. queue' \in Seq(Message)
    <3>1. CASE CastSend(p)
      <4>1. [to |-> cast[p].target, event |-> cast[p].event] \in Message
        BY <3>1 DEF CastSend, Registered, CastRegistered, Message
      <4> QED
        BY <3>1, <4>1 DEF CastSend, Registered
    <3>2. CASE ~CastSend(p)
      BY <1>2, <3>2 DEF CastStep, CastBegin, CastSize, CastGet, CastEnd, Registered
    <3> QED
      BY <3>1, <3>2
  <2> QED
    BY <2>1, <2>2, <2>3, <2>4 DEF Registered, Message, CastRegistered, Unknown
<1>3. ASSUME Dispatch
      PROVE  Registered'
  <2>1. /\ UNCHANGED <<handlers, cast, built, callBack, live, stopOf, gone, hidden,
                       isOnPlayCallback, phase>>
        /\ queue # <<>> /\ queue' = Tail(queue) /\ to' \in {to, Head(queue).to}
    BY <1>3 DEF Dispatch, playerVars, stopVars, tellVars
  <2>2. Head(queue) \in Message /\ Tail(queue) \in Seq(Message)
    BY <2>1, HeadTailProperties DEF Registered
  <2>3. Head(queue).to \in built
    BY <2>2 DEF Message
  <2> QED
    BY <2>1, <2>2, <2>3 DEF Registered, Message, CastRegistered, Unknown
<1>4. ASSUME UiStep
      PROVE  Registered'
  <2>1. UNCHANGED <<handlers, cast, queue, built, callBack, live, stopOf, gone, hidden>>
    BY <1>4 DEF UiStep, Position, EndReached, TestCallBack, ReadRef, Call,
                AppReturns, SetFlag, busVars, playerVars, stopVars
  <2>2. to' \in {to, NoPlayer}
    BY <1>4 DEF UiStep, Position, EndReached, TestCallBack, Test, ReadRef, Call,
                AppReturns, SetFlag, Goto, Fail
  <2>3. \A p \in Players \ {to} :
          phase'[p] = phase[p] /\ isOnPlayCallback'[p] = isOnPlayCallback[p]
    BY <1>4 DEF TypeOK, UiStep, Position, EndReached, TestCallBack, ReadRef, Call,
                AppReturns, SetFlag, tellVars
  <2>4. to \notin Players \ built
    BY DEF Registered, TypeOK
  <2> QED
    BY <2>1, <2>2, <2>3, <2>4 DEF Registered, Message, CastRegistered, Unknown
<1>5. ASSUME NEW t \in Threads, StopStep(t) \/ \E p \in Players : StopCall(t, p)
      PROVE  Registered'
  <2>1. UNCHANGED <<to, built, isOnPlayCallback, phase>>
    BY <1>5 DEF StopStep, StopCall, StopSet, StopRemove, StopPurge, StopClear,
                StopEngine, StopRelease, uiVars, playerVars, tellVars
  <2>2. \A q \in Players \ built : Unknown(q)'
    BY <1>5, <2>1
    DEF TypeOK, Registered, Unknown, StopStep, StopCall, StopSet, StopRemove,
        StopPurge, StopClear,
                StopEngine, StopRelease, playerVars
  <2>3. /\ \A u \in Threads : stopOf'[u] \in built \cup {NoPlayer}
        /\ gone' \subseteq built /\ hidden' \subseteq built
    <3>1. stopAt[t] # "idle" => stopOf[t] \in built
      BY DEF Registered, TypeOK
    <3> QED
      BY <1>5, <3>1 DEF TypeOK, Registered, StopStep, StopCall, StopSet, StopRemove,
           StopPurge, StopClear, StopEngine, StopRelease, playerVars
  <2>4. handlers' \in Seq(built)
    <3>1. CASE StopRemove(t)
      BY <3>1, RemoveFirstShape DEF StopRemove, Registered
    <3>2. CASE ~StopRemove(t)
      BY <1>5, <3>2 DEF Registered, StopStep, StopCall, StopSet, StopPurge,
           StopClear, StopEngine, StopRelease, busVars
    <3> QED
      BY <3>1, <3>2
  <2>5. queue' \in Seq(Message)
    <3>1. CASE StopPurge(t)
      BY <3>1, PurgedType DEF StopPurge, Registered
    <3>2. CASE ~StopPurge(t)
      BY <1>5, <3>2 DEF Registered, StopStep, StopCall, StopSet, StopRemove,
           StopClear, StopEngine, StopRelease, busVars
    <3> QED
      BY <3>1, <3>2
  <2>6. cast' \in [Players -> Cast] /\ \A c \in Players : CastRegistered(cast'[c])
    <3>1. CASE StopRemove(t)
      <4> DEFINE more(d) == [d EXCEPT !.removed = d.removed + 1]
      <4>1. ASSUME NEW c \in Players
            PROVE  more(cast[c]) \in Cast /\ CastRegistered(more(cast[c]))
        <5>1. cast[c] \in Cast /\ CastRegistered(cast[c])
          BY DEF Registered
        <5>2. more(cast[c]) \in Cast
          BY <5>1 DEF Cast
        <5>3. /\ more(cast[c]).at = cast[c].at /\ more(cast[c]).event = cast[c].event
              /\ more(cast[c]).target = cast[c].target
              /\ more(cast[c]).sent = cast[c].sent
              /\ more(cast[c]).audience = cast[c].audience
          BY <5>1 DEF Cast
        <5> QED
          BY <5>1, <5>2, <5>3 DEF CastRegistered
      <4>2. \A c \in Players : cast'[c] \in {cast[c], more(cast[c])}
        BY <3>1 DEF StopRemove
      <4>3. cast' = [c \in Players |-> cast'[c]]
        BY <3>1 DEF StopRemove
      <4> HIDE DEF more
      <4> QED
        BY <4>1, <4>2, <4>3 DEF Registered
    <3>2. CASE ~StopRemove(t)
      BY <1>5, <3>2 DEF Registered, StopStep, StopCall, StopSet, StopPurge,
           StopClear, StopEngine, StopRelease, busVars
    <3> QED
      BY <3>1, <3>2
  <2> QED
    BY <2>1, <2>2, <2>3, <2>4, <2>5, <2>6 DEF Registered, Message, CastRegistered, Unknown
<1>6. ASSUME NEW p \in Players, Publish(p)
      PROVE  Registered'
  BY <1>6 DEF Publish, Registered, TypeOK, Message, CastRegistered, Unknown, busVars,
              uiVars, stopVars, tellVars
<1> QED
  BY <1>1, <1>2, <1>3, <1>4, <1>5, <1>6 DEF Next, Handle, UiStep

\* The handler is always at one of its steps, for a player unless it waits.
UiTypeOK ==
  /\ at \in Labels /\ to \in Players \cup {NoPlayer} /\ ref \in BOOLEAN
  /\ (at = "loop") <=> (to = NoPlayer)
  /\ crash \in {"none", "stop"} \cup Labels

\* A thread is inside stop() for a player.
StopTypeOK ==
  /\ stopAt \in [Threads -> {"idle", "set", "remove", "purge", "clear",
                             "engine", "release"}]
  /\ stopOf \in [Threads -> Players \cup {NoPlayer}]
  /\ \A t \in Threads : (stopAt[t] = "idle") <=> (stopOf[t] = NoPlayer)

\* The main thread keeps its own variables in their types.
LEMMA UiTypeKeeps ==
  ASSUME TypeOK, Registered, Next
  PROVE  UiTypeOK'
<1>1. UiTypeOK
  BY DEF TypeOK, UiTypeOK
<1>2. ASSUME Dispatch
      PROVE  UiTypeOK'
  <2>1. Head(queue) \in Message
    BY <1>2, HeadTailProperties DEF Dispatch, Registered
  <2>2. /\ Head(queue).to \in Players /\ Head(queue).to # NoPlayer
        /\ FirstStep[Head(queue).event] \in Labels \ {"loop"}
    BY <2>1 DEF Message, TypeOK, FirstStep, AllEvents, Labels, Tests, Calls
  <2> QED
    BY <1>1, <1>2, <2>2 DEF Dispatch, UiTypeOK
<1>3. ASSUME NEW label \in Labels, Goto(label), at # "loop"
      PROVE  UiTypeOK'
  BY <1>1, <1>3 DEF UiTypeOK, Goto
<1>4. ASSUME Fail
      PROVE  UiTypeOK'
  BY <1>1, <1>4 DEF UiTypeOK, Fail
<1>5. ASSUME Position
      PROVE  UiTypeOK'
  <2>1. \/ Fail
        \/ at # "loop" /\ \E label \in {"postRef", "playTest"} : Goto(label)
    BY <1>5 DEF Position
  <2> QED
    BY <1>3, <1>4, <2>1 DEF Labels, Tests
<1>6. ASSUME EndReached
      PROVE  UiTypeOK'
  <2>1. \/ Fail
        \/ at # "loop" /\ \E label \in {"completeTest", "endPlayTest"} : Goto(label)
    BY <1>6 DEF EndReached
  <2> QED
    BY <1>3, <1>4, <2>1 DEF Labels, Tests
<1>7. ASSUME TestCallBack
      PROVE  UiTypeOK'
  <2>1. /\ at # "loop"
        /\ \E label \in {"pausedRef", "loop", "stoppedCall", "resetFlag", "endPlayCall",
                         "completeTest", "completeCall", "playCall", "setFlag"} :
             Goto(label)
    BY <1>7 DEF TestCallBack, Test
  <2> QED
    BY <1>3, <2>1 DEF Labels, Tests, Calls
<1>8. ASSUME ReadRef
      PROVE  UiTypeOK'
  BY <1>1, <1>8 DEF ReadRef, UiTypeOK, Labels, Calls, TypeOK
<1>9. ASSUME Call
      PROVE  UiTypeOK'
  <2>1. \/ Fail
        \/ at # "loop" /\ \E label \in InApp : Goto(label)
    BY <1>9 DEF Call, Called, Calls, InApp
  <2> QED
    BY <1>3, <1>4, <2>1 DEF Labels
<1>10. ASSUME AppReturns \/ SetFlag
      PROVE  UiTypeOK'
  <2>1. /\ at # "loop"
        /\ \E label \in {"setFlag", "completeTest", "resetFlag", "loop",
                         "postRef"} : Goto(label)
    BY <1>10 DEF AppReturns, SetFlag
  <2> QED
    BY <1>3, <2>1 DEF Labels, Tests
<1>11. ASSUME NEW t \in Threads, StopStep(t)
      PROVE  UiTypeOK'
  BY <1>1, <1>11 DEF StopStep, StopSet, StopRemove, StopPurge, StopClear, StopEngine,
                     StopRelease, uiVars, UiTypeOK
<1>12. ASSUME NEW p \in Players,
              \/ Construct(p) \/ CastStep(p) \/ Publish(p)
              \/ \E e \in Events : CastBegin(p, e)
              \/ \E t \in Threads : StopCall(t, p)
      PROVE  UiTypeOK'
  BY <1>1, <1>12 DEF Construct, CastStep, Publish, CastBegin, CastSize, CastGet,
                     CastSend, CastEnd, StopCall, uiVars, UiTypeOK
<1> QED
  BY <1>2, <1>5, <1>6, <1>7, <1>8, <1>9, <1>10, <1>11, <1>12 DEF Next, Handle

\* The variables keep their types.
LEMMA TypeKeeps ==
  ASSUME TypeOK, Registered, Next
  PROVE  TypeOK'
<1>1. UiTypeOK' /\ Registered'
  BY UiTypeKeeps, RegisteredKeeps
<1>2. built' \subseteq Players /\ stopped' \subseteq Players /\ casts' \in 0 .. MaxCasts
  <2>1. ASSUME Handle
        PROVE  UNCHANGED <<built, stopped, casts>>
    BY <2>1 DEF Handle, Dispatch, Position, EndReached, TestCallBack, ReadRef, Call,
                AppReturns, SetFlag, busVars, playerVars
  <2>2. ASSUME NEW t \in Threads, StopStep(t)
        PROVE  UNCHANGED <<built, casts>> /\ stopped' \subseteq Players
    <3>1. CASE StopSet(t)
      <4>1. stopOf[t] \in Players
        BY <3>1 DEF StopSet, TypeOK
      <4> QED
        BY <3>1, <4>1 DEF StopSet, TypeOK, busVars
    <3>2. CASE ~StopSet(t)
      BY <2>2, <3>2 DEF TypeOK, StopStep, StopRemove, StopPurge, StopClear,
                        StopEngine, StopRelease, busVars, playerVars
    <3> QED
      BY <3>1, <3>2
  <2>3. ASSUME NEW p \in Players,
              \/ Construct(p) \/ CastStep(p) \/ Publish(p)
              \/ \E e \in Events : CastBegin(p, e)
              \/ \E t \in Threads : StopCall(t, p)
        PROVE  /\ UNCHANGED stopped /\ built' \subseteq Players
               /\ casts' \in 0 .. MaxCasts
    <3>1. CASE Construct(p)
      BY <3>1 DEF TypeOK, Construct
    <3>2. CASE \E e \in Events : CastBegin(p, e)
      BY <3>2 DEF TypeOK, CastBegin, playerVars
    <3>3. CASE \/ CastStep(p) \/ Publish(p)
               \/ \E t \in Threads : StopCall(t, p)
      BY <3>3 DEF TypeOK, CastStep, Publish, CastSize, CastGet, CastSend, CastEnd,
                  StopCall, busVars, playerVars
    <3> QED
      BY <2>3, <3>1, <3>2, <3>3
  <2> QED
    BY <2>1, <2>2, <2>3 DEF Next, TypeOK
<1>3. /\ callBack' \in [Players -> BOOLEAN] /\ live' \in [Players -> BOOLEAN]
      /\ isOnPlayCallback' \in [Players -> BOOLEAN]
      /\ phase' \in [Players -> {"idle", "running", "complete"}]
  <2>1. ASSUME Call
        PROVE  phase' \in [Players -> {"idle", "running", "complete"}]
    <3>1. \A p \in Players : Told(p, at) \in {"idle", "running", "complete"}
      BY DEF Told, TypeOK
    <3>2. to \in Players
      BY <2>1 DEF Call, Calls, TypeOK
    <3> QED
      BY <2>1, <3>1, <3>2 DEF Call, TypeOK
  <2>2. ASSUME Handle
        PROVE  /\ UNCHANGED <<callBack, live>>
               /\ (phase' = phase \/ Call)
               /\ isOnPlayCallback' \in [Players -> BOOLEAN]
    BY <2>2 DEF TypeOK, Handle, Dispatch, Position, EndReached, TestCallBack,
                ReadRef, Call, AppReturns, SetFlag, playerVars, tellVars
  <2>3. ASSUME NEW t \in Threads, StopStep(t)
        PROVE  /\ UNCHANGED <<isOnPlayCallback, phase>>
               /\ callBack' \in [Players -> BOOLEAN] /\ live' \in [Players -> BOOLEAN]
    BY <2>3 DEF TypeOK, StopStep, StopSet, StopRemove, StopPurge, StopClear,
                StopEngine, StopRelease, playerVars, tellVars
  <2>4. ASSUME NEW p \in Players,
              \/ Construct(p) \/ CastStep(p) \/ Publish(p)
              \/ \E e \in Events : CastBegin(p, e)
              \/ \E t \in Threads : StopCall(t, p)
        PROVE  /\ UNCHANGED <<isOnPlayCallback, phase>>
               /\ callBack' \in [Players -> BOOLEAN] /\ live' \in [Players -> BOOLEAN]
    <3>1. CASE Construct(p) \/ Publish(p)
      BY <3>1 DEF TypeOK, Construct, Publish, tellVars
    <3>2. CASE ~(Construct(p) \/ Publish(p))
      BY <2>4, <3>2 DEF TypeOK, CastStep, CastBegin, CastSize, CastGet, CastSend,
                        CastEnd, StopCall, playerVars, tellVars
    <3> QED
      BY <3>1, <3>2
  <2> QED
    BY <2>1, <2>2, <2>3, <2>4 DEF Next, TypeOK
<1>4. StopTypeOK'
  <2> USE DEF StopTypeOK
  <2>1. CASE UNCHANGED <<stopAt, stopOf>>
    BY <2>1 DEF TypeOK
  <2>2. ASSUME NEW t \in Threads, StopStep(t)
        PROVE  StopTypeOK'
    <3>1. \/ UNCHANGED <<stopAt, stopOf>>
          \/ /\ stopAt[t] # "idle" /\ stopOf' = stopOf
             /\ \E label \in {"remove", "purge", "clear", "engine", "release"} :
                  StopGo(t, label)
          \/ StopGo(t, "idle") /\ stopOf' = [stopOf EXCEPT ![t] = NoPlayer]
      BY <2>2 DEF StopStep, StopSet, StopRemove, StopPurge, StopClear, StopEngine,
                  StopRelease
    <3>2. CASE /\ stopAt[t] # "idle" /\ stopOf' = stopOf
               /\ \E label \in {"remove", "purge", "clear", "engine", "release"} :
                    StopGo(t, label)
      BY <3>2 DEF TypeOK, StopGo
    <3>3. CASE StopGo(t, "idle") /\ stopOf' = [stopOf EXCEPT ![t] = NoPlayer]
      BY <3>3 DEF TypeOK, StopGo
    <3> QED
      BY <3>1, <3>2, <3>3 DEF TypeOK
  <2>3. ASSUME NEW t \in Threads, NEW p \in Players, StopCall(t, p)
        PROVE  StopTypeOK'
    BY <2>3 DEF TypeOK, StopCall, StopGo
  <2> QED
    BY <2>1, <2>2, <2>3
    DEF Next, Construct, CastStep, Publish, CastBegin, CastSize, CastGet, CastSend,
        CastEnd, Handle, Dispatch, Position, EndReached, TestCallBack, ReadRef, Call,
        AppReturns, SetFlag, stopVars
<1>5. handlers' \in Seq(Players) /\ queue' \in Seq([to : Players, event : AllEvents])
  <2>1. Message' \subseteq [to : Players, event : AllEvents]
    BY <1>2 DEF Message
  <2> QED
    BY <1>1, <1>2, <2>1, SeqMonotonic DEF Registered
<1>6. gone' \subseteq Players /\ hidden' \subseteq Players
  BY <1>1, <1>2 DEF Registered
<1> QED
  BY <1>1, <1>2, <1>3, <1>4, <1>5, <1>6 DEF TypeOK, UiTypeOK, StopTypeOK

----------------------------------------------------------------------------
(* What the application was told *)

Resetting(p) == to = p /\ at \in {"inOnStopped", "resetFlag"}

Telling == {"inOnPlay", "setFlag", "inEndPlay", "completeTest", "completeCall"}

\* The flag of the handler and the phase of the application agree, but for the
\* player whose handler is between the callback and the assignment, and for a
\* player that was stopped meanwhile.
FlagAgrees(p) ==
  /\ isOnPlayCallback[p] /\ callBack[p] /\ ~Resetting(p) => phase[p] # "idle"
  /\ phase[p] = "running" /\ callBack[p] /\ live[p]
       => isOnPlayCallback[p] \/ (to = p /\ at \in Telling)

\* The same for the player whose handler runs, at the steps that rely on it.
StepAgrees ==
  /\ at \in Telling \cup {"postRef"} /\ callBack[to] => phase[to] # "idle"
  /\ at = "postCall" /\ ref => phase[to] # "idle"
  /\ at \in {"playTest", "playCall", "endPlayTest", "endPlayCall"} /\ callBack[to]
       => phase[to] # "running"
  /\ at \in {"inOnStopped", "resetFlag"} /\ callBack[to] /\ live[to]
       => phase[to] # "running"

Running == (\A p \in Players : FlagAgrees(p)) /\ StepAgrees

\* Every step keeps the flags, the phases and the steps in agreement.
LEMMA RunningKeeps ==
  ASSUME TypeOK, Registered, Running, Next
  PROVE  Running'
<1> USE DEF Running, FlagAgrees, StepAgrees, Resetting, Telling
<1>1. ASSUME NEW p \in Players, Construct(p)
      PROVE  Running'
  <2>1. /\ p \notin built /\ to # p /\ Unknown(p)
        /\ UNCHANGED <<at, to, ref, phase, isOnPlayCallback>>
        /\ \A q \in Players \ {p} : callBack'[q] = callBack[q] /\ live'[q] = live[q]
    BY <1>1 DEF Construct, Registered, TypeOK, uiVars, tellVars
  <2>2. at # "loop" => to \in Players \ {p}
    BY <2>1 DEF TypeOK
  <2> QED
    BY <2>1, <2>2 DEF Unknown
<1>2. ASSUME UNCHANGED <<at, to, ref, phase, isOnPlayCallback>>,
             \A q \in Players : callBack'[q] => callBack[q],
             \A q \in Players : live'[q] => live[q]
      PROVE  Running'
  <2>1. at # "loop" => to \in Players
    BY DEF TypeOK
  <2> QED
    BY <1>2, <2>1
<1>3. ASSUME NEW t \in Threads, StopStep(t)
      PROVE  Running'
  <2>1. /\ UNCHANGED <<at, to, ref, phase, isOnPlayCallback>>
        /\ \A q \in Players : callBack'[q] => callBack[q]
        /\ \A q \in Players : live'[q] => live[q]
    BY <1>3 DEF TypeOK, StopStep, StopSet, StopRemove, StopPurge, StopClear,
                StopEngine, StopRelease, uiVars, playerVars, tellVars
  <2> QED
    BY <1>2, <2>1
<1>4. ASSUME NEW p \in Players,
             \/ CastStep(p) \/ Publish(p)
             \/ \E e \in Events : CastBegin(p, e)
             \/ \E t \in Threads : StopCall(t, p)
      PROVE  Running'
  <2>1. /\ UNCHANGED <<at, to, ref, phase, isOnPlayCallback>>
        /\ \A q \in Players : callBack'[q] => callBack[q]
        /\ \A q \in Players : live'[q] => live[q]
    BY <1>4 DEF TypeOK, CastStep, Publish, CastBegin, CastSize, CastGet, CastSend,
                CastEnd, StopCall, uiVars, playerVars, tellVars
  <2> QED
    BY <1>2, <2>1
<1>5. ASSUME Dispatch
      PROVE  Running'
  <2>1. /\ UNCHANGED <<ref, callBack, live, phase, isOnPlayCallback>>
        /\ at = "loop"
        /\ \/ at' = at /\ to' = to
           \/ at' \in {"pausedTest", "stoppedTest", "endTest", "position", "errorCall"}
    <3>1. Head(queue) \in Message
      BY <1>5, HeadTailProperties DEF Dispatch, Registered
    <3>2. Head(queue).event \in AllEvents
      BY <3>1 DEF Message
    <3> QED
      BY <1>5, <3>2 DEF Dispatch, FirstStep, AllEvents, playerVars, tellVars
  <2> QED
    BY <2>1
<1>6. ASSUME Position
      PROVE  Running'
  <2>1. /\ UNCHANGED <<callBack, live, phase, isOnPlayCallback>>
        /\ at = "position" /\ to \in Players
    BY <1>6 DEF Position, playerVars, tellVars, TypeOK
  <2>2. CASE Fail
    BY <2>1, <2>2 DEF Fail
  <2>3. CASE live[to] /\ Goto(IF isOnPlayCallback[to] THEN "postRef" ELSE "playTest")
    BY <2>1, <2>3 DEF Goto
  <2> QED
    BY <1>6, <2>2, <2>3 DEF Position
<1>7. ASSUME EndReached
      PROVE  Running'
  <2>1. /\ UNCHANGED <<callBack, live, phase, isOnPlayCallback>>
        /\ at = "endTest" /\ to \in Players
    BY <1>7 DEF EndReached, playerVars, tellVars, TypeOK
  <2>2. CASE Fail
    BY <2>1, <2>2 DEF Fail
  <2>3. CASE isOnPlayCallback[to] /\ Goto("completeTest")
    BY <2>1, <2>3 DEF Goto
  <2>4. CASE ~isOnPlayCallback[to] /\ live[to] /\ Goto("endPlayTest")
    BY <2>1, <2>4 DEF Goto
  <2> QED
    BY <1>7, <2>2, <2>3, <2>4 DEF EndReached
<1>8. ASSUME TestCallBack
      PROVE  Running'
  <2>1. UNCHANGED <<callBack, live, phase, isOnPlayCallback>> /\ to \in Players
    BY <1>8 DEF TestCallBack, Test, playerVars, tellVars, TypeOK
  <2>2. CASE Test("pausedTest", "pausedRef", "loop")
    BY <2>1, <2>2 DEF Test, Goto
  <2>3. CASE Test("stoppedTest", "stoppedCall", "resetFlag")
    BY <2>1, <2>3 DEF Test, Goto, TypeOK
  <2>4. CASE Test("endPlayTest", "endPlayCall", "completeTest")
    BY <2>1, <2>4 DEF Test, Goto
  <2>5. CASE Test("completeTest", "completeCall", "loop")
    BY <2>1, <2>5 DEF Test, Goto
  <2>6. CASE Test("playTest", "playCall", "setFlag")
    BY <2>1, <2>6 DEF Test, Goto
  <2> QED
    BY <1>8, <2>2, <2>3, <2>4, <2>5, <2>6 DEF TestCallBack
<1>9. ASSUME ReadRef
      PROVE  Running'
  BY <1>9 DEF ReadRef, playerVars, tellVars, TypeOK
<1>10. ASSUME Call
       PROVE  Running'
  <2>1. UNCHANGED <<callBack, live, isOnPlayCallback>> /\ to \in Players /\ at \in Calls
    BY <1>10 DEF Call, playerVars, TypeOK, Calls
  <2>2. CASE Fail /\ UNCHANGED phase
    BY <2>1, <2>2 DEF Fail
  <2>3. CASE /\ CallWorks /\ Goto(Called[at])
             /\ phase' = [phase EXCEPT ![to] = Told(to, at)]
    BY <2>1, <2>3 DEF Calls, Called, Told, Goto, TypeOK, CallWorks
  <2> QED
    BY <1>10, <2>2, <2>3 DEF Call
<1>11. ASSUME AppReturns
       PROVE  Running'
  <2>1. UNCHANGED <<callBack, live, phase, isOnPlayCallback>> /\ to \in Players
    BY <1>11 DEF AppReturns, playerVars, tellVars, TypeOK
  <2> QED
    BY <1>11, <2>1 DEF AppReturns, Goto
<1>12. ASSUME SetFlag
       PROVE  Running'
  <2>1. /\ UNCHANGED <<callBack, live, phase>> /\ to \in Players
        /\ isOnPlayCallback'[to] = (at = "setFlag")
        /\ \A p \in Players \ {to} : isOnPlayCallback'[p] = isOnPlayCallback[p]
    BY <1>12 DEF SetFlag, playerVars, TypeOK
  <2>2. CASE at = "setFlag" /\ at' = "postRef" /\ to' = to
    BY <2>1, <2>2
  <2>3. CASE at = "resetFlag" /\ at' = "loop" /\ to' = NoPlayer
    BY <2>1, <2>3
  <2> QED
    BY <1>12, <2>2, <2>3 DEF SetFlag, Goto
<1> QED
  BY <1>1, <1>3, <1>4, <1>5, <1>6, <1>7, <1>8, <1>9, <1>10, <1>11, <1>12 DEF Next, Handle

----------------------------------------------------------------------------
(* What stop() leaves behind *)

\* A player whose stop() has returned is released.
Released == \A p \in gone : ~live[p]

\* Without other threads, stop() runs between messages or inside a callback,
\* so that the rest of a handler sees callBack and the engine both there or
\* both gone.
Stopping ==
  /\ hidden = {}
  /\ stopAt[Ui] \in {"engine", "release"} => ~callBack[stopOf[Ui]]
  /\ stopAt[Ui] # "idle" => at \in InApp \cup {"loop"}
  /\ \A p \in gone : ~callBack[p]
  /\ \A p \in Players :
       live[p] => \/ callBack[p]
                  \/ stopAt[Ui] \in {"engine", "release"} /\ p = stopOf[Ui]
  /\ at = "postCall" /\ live[to] => ref

\* Only Construct makes a player live, and only for the first time.
LEMMA ReleasedKeeps ==
  ASSUME TypeOK, Registered, Released, Next
  PROVE  Released'
<1>1. ASSUME NEW p \in Players, Construct(p)
      PROVE  Released'
  BY <1>1 DEF Released, Construct, Registered, TypeOK, stopVars
<1>2. ASSUME NEW t \in Threads, StopStep(t)
      PROVE  Released'
  <2>1. CASE StopRelease(t)
    <3>1. stopOf[t] \in Players
      BY <2>1 DEF StopRelease, TypeOK
    <3> QED
      BY <2>1, <3>1 DEF Released, StopRelease, TypeOK
  <2>2. CASE ~StopRelease(t)
    BY <1>2, <2>2 DEF Released, StopStep, StopSet, StopRemove, StopPurge, StopClear,
                      StopEngine, playerVars
  <2> QED
    BY <2>1, <2>2
<1>3. ASSUME UNCHANGED <<live, gone>>
      PROVE  Released'
  BY <1>3 DEF Released
<1>4. ASSUME Handle
      PROVE  UNCHANGED <<live, gone>>
  BY <1>4 DEF Handle, Dispatch, Position, EndReached, TestCallBack, ReadRef, Call,
              AppReturns, SetFlag, playerVars, stopVars
<1>5. ASSUME NEW p \in Players,
             \/ CastStep(p) \/ Publish(p)
             \/ \E e \in Events : CastBegin(p, e)
             \/ \E t \in Threads : StopCall(t, p)
      PROVE  UNCHANGED <<live, gone>>
  BY <1>5 DEF CastStep, Publish, CastBegin, CastSize, CastGet, CastSend, CastEnd,
              StopCall, playerVars, stopVars
<1> QED
  BY <1>1, <1>2, <1>3, <1>4, <1>5 DEF Next

\* With stop() confined to the UI thread every step keeps Stopping.
LEMMA StoppingKeeps ==
  ASSUME TypeOK, Registered, Released, Workers = {}, Stopping, Next
  PROVE  Stopping'
<1>1. Threads = {Ui} /\ (at # "loop" => to \in Players)
      /\ (stopAt[Ui] # "idle" => stopOf[Ui] \in Players)
  BY DEF Threads, TypeOK
<1>2. ASSUME NEW p \in Players, Construct(p)
      PROVE  Stopping'
  <2>1. /\ p \notin built /\ to # p /\ stopOf[Ui] # p /\ p \notin gone
    BY <1>1, <1>2 DEF Construct, Registered, TypeOK
  <2> QED
    BY <1>1, <1>2, <2>1 DEF Stopping, Construct, TypeOK, uiVars, stopVars
<1>3. ASSUME NEW t \in Threads, StopStep(t)
      PROVE  Stopping'
  <2>0. t = Ui /\ stopOf[Ui] \in Players /\ stopAt[Ui] # "idle" /\ UNCHANGED <<at, to, ref>>
    BY <1>1, <1>3 DEF StopStep, StopSet, StopRemove, StopPurge, StopClear,
                      StopEngine, StopRelease, uiVars
  <2>1. CASE StopSet(t) \/ StopRemove(t) \/ StopPurge(t)
    BY <1>1, <2>0, <2>1
      DEF Stopping, StopSet, StopRemove, StopPurge, StopGo, TypeOK, playerVars
  <2>2. CASE StopClear(t)
    <3>1. /\ stopAt'[Ui] = "engine" /\ UNCHANGED <<hidden, stopOf, live, gone>>
          /\ callBack' = [callBack EXCEPT ![stopOf[Ui]] = FALSE]
          /\ at \in InApp \cup {"loop"}
      BY <2>0, <2>2 DEF Stopping, StopClear, StopGo, TypeOK, Threads
    <3>2. ~callBack'[stopOf'[Ui]] /\ \A p \in Players : callBack'[p] => callBack[p]
      BY <2>0, <3>1 DEF TypeOK
    <3>3. gone \subseteq Players
      BY DEF TypeOK
    <3> QED
      BY <2>0, <3>1, <3>2, <3>3 DEF Stopping, InApp
  <2>3. CASE StopEngine(t)
    BY <1>1, <2>0, <2>3 DEF Stopping, StopEngine, StopGo, TypeOK, playerVars
  <2>4. CASE StopRelease(t)
    BY <1>1, <2>0, <2>4 DEF Stopping, StopRelease, StopGo, TypeOK
  <2> QED
    BY <1>3, <2>1, <2>2, <2>3, <2>4 DEF StopStep
<1>4. ASSUME NEW p \in Players,
             \/ CastStep(p) \/ \E e \in Events : CastBegin(p, e)
      PROVE  Stopping'
  <2>1. UNCHANGED <<uiVars, playerVars, stopVars>>
    BY <1>4 DEF CastStep, CastBegin, CastSize, CastGet, CastSend, CastEnd
  <2> QED
    BY <2>1 DEF Stopping, uiVars, playerVars, stopVars
<1>5. ASSUME NEW p \in Players, NEW t \in Threads, StopCall(t, p)
      PROVE  Stopping'
  BY <1>1, <1>5 DEF Stopping, StopCall, StopGo, UiFree, TypeOK, uiVars, playerVars
<1>6. ASSUME NEW p \in Players, Publish(p)
      PROVE  FALSE
  BY <1>6 DEF Stopping, Publish
<1>7. ASSUME Handle
      PROVE  Stopping'
  <2>1. UNCHANGED <<hidden, stopAt, stopOf, callBack, live, gone>> /\ stopAt[Ui] = "idle"
    BY <1>7 DEF Handle, Dispatch, Position, EndReached, TestCallBack, ReadRef, Call,
                AppReturns, SetFlag, playerVars, stopVars, UiRuns
  <2>2. at' = "postCall" /\ live'[to'] => ref'
    <3>1. CASE ReadRef
      BY <1>1, <2>1, <3>1 DEF Stopping, ReadRef
    <3>2. CASE ~ReadRef
      <4>1. ASSUME Dispatch
            PROVE  at' # "postCall" \/ UNCHANGED <<at, to, ref>>
        <5>1. Head(queue) \in Message
          BY <4>1, HeadTailProperties DEF Dispatch, Registered
        <5>2. Head(queue).event \in AllEvents
          BY <5>1 DEF Message
        <5> QED
          BY <4>1, <5>2 DEF Dispatch, FirstStep, AllEvents
      <4>2. at' = "postCall" => UNCHANGED <<at, to, ref>>
        BY <1>7, <3>2, <4>1 DEF Handle, Position, EndReached, TestCallBack,
             Test, Call, Calls, Called, AppReturns, SetFlag, Goto, Fail
      <4> QED
        BY <2>1, <4>2 DEF Stopping
    <3> QED
      BY <3>1, <3>2
  <2> QED
    BY <2>1, <2>2 DEF Stopping
<1> QED
  BY <1>2, <1>3, <1>4, <1>5, <1>6, <1>7 DEF Next

\* Without other threads, a player without a callback or an engine is one whose
\* stop() has returned or is returning, no handler waits at a tested call while
\* that changes, and an exception was thrown only where nothing is tested.
Crashing ==
  /\ gone \subseteq stopped
  /\ \A p \in built : live[p] \/ p \in gone
  /\ \A p \in built :
       \/ callBack[p] \/ p \in gone
       \/ stopAt[Ui] \in {"engine", "release"} /\ p = stopOf[Ui]
  /\ stopAt[Ui] # "idle" => live[stopOf[Ui]]
  /\ stopAt[Ui] \notin {"idle", "set"} => stopOf[Ui] \in stopped
  /\ at \in {"stoppedCall", "endPlayCall", "completeCall", "playCall", "pausedRef"}
       => callBack[to]
  /\ at = "pausedCall" => live[to] /\ ref
  /\ crash # "none" =>
       to \in gone /\ crash \in {"position", "endTest", "postCall", "errorCall"}

\* With stop() confined to the UI thread every step keeps Crashing.
LEMMA CrashingKeeps ==
  ASSUME TypeOK, Registered, Workers = {}, Stopping, Crashing, Next
  PROVE  Crashing'
<1>1. /\ Threads = {Ui} /\ crash = "none" /\ NoPlayer \notin built
      /\ at # "loop" => to \in built
      /\ stopAt[Ui] # "idle" => stopOf[Ui] \in built /\ at \in InApp \cup {"loop"}
      /\ built \subseteq Players /\ stopped \subseteq Players
  BY DEF Threads, TypeOK, Registered, Stopping, Next
<1>2. ASSUME NEW p \in Players, Construct(p)
      PROVE  Crashing'
  <2>1. /\ p \notin built /\ built' = built \cup {p}
        /\ live' = [live EXCEPT ![p] = TRUE]
        /\ callBack' = [callBack EXCEPT ![p] = TRUE]
        /\ UNCHANGED <<at, to, ref, crash, stopped, stopAt, stopOf, gone>>
    BY <1>2 DEF Construct, uiVars, stopVars
  <2>2. /\ live'[p] /\ callBack'[p]
        /\ \A q \in Players : (live[q] => live'[q]) /\ (callBack[q] => callBack'[q])
    BY <2>1 DEF TypeOK
  <2> QED
    BY <1>1, <2>1, <2>2 DEF Crashing
<1>3. ASSUME NEW t \in Threads, StopStep(t)
      PROVE  Crashing'
  <2>0. /\ t = Ui /\ stopOf[Ui] \in built /\ stopAt[Ui] # "idle"
        /\ UNCHANGED <<at, to, ref, built>> /\ at \in InApp \cup {"loop"}
        /\ live[stopOf[Ui]]
    BY <1>1, <1>3 DEF StopStep, StopSet, StopRemove, StopPurge, StopClear,
                      StopEngine, StopRelease, uiVars, playerVars, Crashing
  <2>1. CASE StopSet(t)
    BY <1>1, <2>0, <2>1 DEF Crashing, StopSet, StopGo, TypeOK, uiVars
  <2>2. CASE StopRemove(t) \/ StopPurge(t)
    BY <1>1, <2>0, <2>2
      DEF Crashing, StopRemove, StopPurge, StopGo, TypeOK, playerVars, uiVars
  <2>3. CASE StopClear(t)
    <3>1. /\ stopAt[Ui] = "clear" /\ stopAt'[Ui] = "engine" /\ crash' = crash
          /\ UNCHANGED <<stopped, stopOf, live, gone>>
          /\ callBack' = [callBack EXCEPT ![stopOf[Ui]] = FALSE]
      BY <2>0, <2>3 DEF StopClear, StopGo, TypeOK, uiVars
    <3>2. \A p \in built : p # stopOf[Ui] => callBack'[p] = callBack[p]
      BY <1>1, <3>1 DEF TypeOK
    <3> QED
      BY <1>1, <2>0, <3>1, <3>2 DEF Crashing, InApp
  <2>4. CASE StopEngine(t)
    <3>1. /\ stopAt[Ui] = "engine" /\ stopAt'[Ui] = "release" /\ crash' = crash
          /\ UNCHANGED <<stopped, stopOf, live, gone, callBack>>
      BY <2>0, <2>4 DEF StopEngine, StopGo, TypeOK, playerVars
    <3> QED
      BY <1>1, <2>0, <3>1 DEF Crashing
  <2>5. CASE StopRelease(t)
    <3>1. /\ stopAt[Ui] = "release" /\ stopAt'[Ui] = "idle" /\ crash' = crash
          /\ UNCHANGED <<stopped, callBack>>
          /\ gone' = gone \cup {stopOf[Ui]}
          /\ live' = [live EXCEPT ![stopOf[Ui]] = FALSE]
      BY <2>0, <2>5 DEF StopRelease, StopGo, TypeOK, uiVars
    <3>2. \A p \in built : p # stopOf[Ui] => live'[p] = live[p]
      BY <1>1, <3>1 DEF TypeOK
    <3> QED
      BY <1>1, <2>0, <3>1, <3>2 DEF Crashing, InApp
  <2> QED
    BY <1>3, <2>1, <2>2, <2>3, <2>4, <2>5 DEF StopStep
<1>4. ASSUME NEW p \in Players,
             \/ CastStep(p) \/ \E e \in Events : CastBegin(p, e)
      PROVE  Crashing'
  <2>1. UNCHANGED <<uiVars, playerVars, stopVars>>
    BY <1>4 DEF CastStep, CastBegin, CastSize, CastGet, CastSend, CastEnd
  <2> QED
    BY <2>1 DEF Crashing, uiVars, playerVars, stopVars
<1>5. ASSUME NEW p \in Players, NEW t \in Threads, StopCall(t, p)
      PROVE  Crashing'
  <2>1. /\ stopAt[Ui] = "idle" /\ stopAt'[Ui] = "set" /\ stopOf'[Ui] = p
        /\ p \in built \ stopped /\ UNCHANGED <<uiVars, playerVars, gone>>
    BY <1>1, <1>5 DEF StopCall, StopGo, TypeOK
  <2>2. live[p]
    BY <2>1 DEF Crashing
  <2> QED
    BY <2>1, <2>2 DEF Crashing, uiVars, playerVars
<1>6. ASSUME NEW p \in Players, Publish(p)
      PROVE  FALSE
  BY <1>6 DEF Stopping, Publish
<1>7. ASSUME Handle
      PROVE  Crashing'
  <2>1. /\ UNCHANGED <<built, stopped, hidden, stopAt, stopOf, callBack, live, gone>>
        /\ stopAt[Ui] = "idle"
    BY <1>7 DEF Handle, Dispatch, Position, EndReached, TestCallBack, ReadRef, Call,
                AppReturns, SetFlag, playerVars, stopVars, UiRuns
  <2> DEFINE Tested == {"stoppedCall", "endPlayCall", "completeCall", "playCall",
                        "pausedRef", "pausedCall"}
  <2>2. CASE Dispatch
    <3>1. Head(queue) \in Message
      BY <2>2, HeadTailProperties DEF Dispatch, Registered
    <3>2. Head(queue).event \in AllEvents
      BY <3>1 DEF Message
    <3>3. at' \notin Tested /\ crash' = crash
      BY <2>2, <3>2 DEF Dispatch, FirstStep, AllEvents
    <3> QED
      BY <1>1, <2>1, <3>3 DEF Crashing
  <2>3. CASE ReadRef
    <3>1. /\ UNCHANGED <<to, crash>> /\ ref' = callBack[to] /\ at' \notin Tested \ {"pausedCall"}
          /\ at' = "pausedCall" => at = "pausedRef"
      BY <2>3 DEF ReadRef
    <3>2. at = "pausedRef" => callBack[to] /\ live[to]
      BY <1>1 DEF Crashing, Stopping
    <3> QED
      BY <1>1, <2>1, <3>1, <3>2 DEF Crashing
  <2>4. CASE TestCallBack
    <3>1. /\ at # "loop" /\ crash' = crash /\ (at' # "loop" => to' = to)
          /\ at' \in Tested => callBack[to] /\ at' # "pausedCall"
      BY <2>4 DEF TestCallBack, Test, Goto
    <3> QED
      BY <1>1, <2>1, <3>1 DEF Crashing
  <2>5. CASE (Position \/ EndReached \/ Call) /\ Fail
    <3>1. /\ UNCHANGED <<at, to, ref>> /\ crash' = at /\ at # "loop"
          /\ at \in {"position", "endTest"} \cup Calls
      BY <2>5 DEF Fail, Position, EndReached, Call, Calls
    <3>7. at # "none"
      BY <3>1 DEF Calls
    <3>2. at \in {"position", "endTest"} => ~live[to]
      <4>1. crash' # crash
        BY <1>1, <3>1, <3>7
      <4>2. ~\E label \in Labels : Goto(label)
        BY <4>1 DEF Goto
      <4>3. CASE Position
        BY <4>2, <4>3 DEF Position, Labels, Tests
      <4>4. CASE EndReached
        BY <4>2, <4>4 DEF EndReached, Labels, Tests
      <4>5. CASE Call
        BY <4>5 DEF Call, Calls
      <4> QED
        BY <2>5, <4>3, <4>4, <4>5
    <3>3. at \in Calls => ~CallWorks
      <4>1. crash' # crash
        BY <1>1, <3>1, <3>7
      <4>2. ~Goto(Called[at])
        BY <4>1 DEF Goto
      <4> QED
        BY <2>5, <4>2 DEF Position, EndReached, Call, Calls
    <3>4. to \in built
      BY <1>1, <3>1
    <3>5. CASE at \in {"position", "endTest"}
      BY <1>1, <2>1, <3>1, <3>2, <3>4, <3>5 DEF Crashing
    <3>6. CASE at \in Calls
      <4>1. at \in {"postCall", "errorCall"} /\ to \in gone
        BY <2>1, <3>3, <3>4, <3>6 DEF CallWorks, Calls, Crashing, Stopping
      <4> QED
        BY <1>1, <2>1, <3>1, <4>1 DEF Crashing
    <3> QED
      BY <3>1, <3>5, <3>6
  <2>6. CASE (Position \/ EndReached \/ Call \/ AppReturns \/ SetFlag) /\ ~Fail
    <3>1. crash' = crash /\ at' \notin Tested
      BY <2>6 DEF Position, EndReached, Call, Calls, Called, AppReturns, SetFlag, Goto
    <3> QED
      BY <1>1, <2>1, <3>1 DEF Crashing
  <2>7. Fail \/ ~Fail
    OBVIOUS
  <2>8. (AppReturns \/ SetFlag) => ~Fail
    BY DEF AppReturns, SetFlag, Goto, Fail, InApp
  <2> QED
    BY <1>7, <2>2, <2>3, <2>4, <2>5, <2>6, <2>7, <2>8 DEF Handle
<1> QED
  BY <1>2, <1>3, <1>4, <1>5, <1>6, <1>7 DEF Next

----------------------------------------------------------------------------
(* The walk over the handlers *)

\* The walk c has the first Done(c) handlers of the list hs behind it, and has
\* sent the event to Reached(c) or is about to.
Done(c) == IF c.at = "send" THEN c.i + 1 ELSE c.i
Passed(hs, n) == {hs[k] : k \in {m \in 1 .. Len(hs) : m <= n}}
Reached(c) == Range(c.sent) \cup (IF c.at = "send" THEN {c.target} ELSE {})

\* The handlers that it has missed.
Missed(c, hs) ==
  IF c.at = "over" THEN (c.audience \cap Range(hs)) \ Range(c.sent)
  ELSE (c.audience \cap Passed(hs, Done(c))) \ Reached(c)

\* It will not meet again a handler that it has reached, and has missed no more
\* handlers than were removed.
WalkOK(c, hs) ==
  /\ c.at = "idle" => c = NoCast
  /\ IsFiniteSet(c.audience)
  /\ IsInjective(c.sent)
  /\ c.at = "send" => c.target \notin Range(c.sent)
  /\ Reached(c) \cap Range(hs) \subseteq Passed(hs, Done(c))
  /\ Cardinality(Missed(c, hs)) <= c.removed

Walk == IsInjective(handlers) /\ \A p \in Players : WalkOK(cast[p], handlers)

\* An event thread at rest has missed nothing.
LEMMA WalkIdle ==
  ASSUME NEW S, NEW hs \in Seq(S)
  PROVE  WalkOK(NoCast, hs)
<1>1. /\ NoCast.at = "idle" /\ NoCast.sent = <<>> /\ NoCast.audience = {}
      /\ NoCast.removed = 0
  BY DEF NoCast
<1>2. Range(<<>>) = {} /\ IsInjective(<<>>)
  BY DEF Range, IsInjective
<1>3. Missed(NoCast, hs) = {} /\ Reached(NoCast) = {}
  BY <1>1, <1>2 DEF Missed, Reached
<1> QED
  BY <1>1, <1>2, <1>3, FS_EmptySet DEF WalkOK

\* A set is no larger than one that contains it.
LEMMA NoLarger ==
  ASSUME NEW S, NEW T, IsFiniteSet(S), T \subseteq S, NEW n \in Nat, Cardinality(S) <= n
  PROVE  IsFiniteSet(T) /\ Cardinality(T) \in Nat /\ Cardinality(T) <= n
<1>1. IsFiniteSet(T) /\ Cardinality(T) <= Cardinality(S)
  BY FS_Subset
<1>2. Cardinality(S) \in Nat /\ Cardinality(T) \in Nat
  BY <1>1, FS_CardinalityType
<1> QED
  BY <1>1, <1>2

\* The missed handlers are in the audience, a finite set.
LEMMA MissedFinite ==
  ASSUME NEW c, NEW hs, IsFiniteSet(c.audience)
  PROVE  IsFiniteSet(Missed(c, hs))
<1>1. Missed(c, hs) \in SUBSET c.audience
  BY DEF Missed
<1> QED
  BY <1>1, FS_Subset

\* A new handler at the end of the list is nothing to a walk that began before.
LEMMA WalkAppend ==
  ASSUME NEW c \in Cast, CastRegistered(c), NEW hs \in Seq(built), WalkOK(c, hs),
         NEW p, p \notin built
  PROVE  WalkOK(c, Append(hs, p))
<1> DEFINE r == Append(hs, p)
<1>1. /\ Len(r) = Len(hs) + 1 /\ Len(hs) \in Nat /\ r[Len(hs) + 1] = p
      /\ \A k \in 1 .. Len(hs) : r[k] = hs[k]
  OBVIOUS
<1>2. Range(r) = Range(hs) \cup {p}
  <2>1. hs \in Seq(built \cup {p})
    BY SeqMonotonic
  <2> QED
    BY <2>1, AppendRange
<1>3. p \notin Reached(c) /\ p \notin c.audience
  BY DEF CastRegistered, Reached
<1>4. c.i \in Nat
  BY DEF Cast
<1>5. ASSUME NEW n \in Nat
      PROVE  /\ Passed(hs, n) \subseteq Passed(r, n)
             /\ Passed(r, n) \subseteq Passed(hs, n) \cup {p}
  <2>1. ASSUME NEW k \in 1 .. Len(hs), k <= n
        PROVE  hs[k] \in Passed(r, n)
    <3>1. k \in 1 .. Len(r) /\ hs[k] = r[k]
      BY <1>1
    <3> QED
      BY <2>1, <3>1 DEF Passed
  <2>2. ASSUME NEW k \in 1 .. Len(r), k <= n
        PROVE  r[k] \in Passed(hs, n) \cup {p}
    <3>1. CASE k \in 1 .. Len(hs)
      <4>1. r[k] = hs[k]
        BY <1>1, <3>1
      <4> QED
        BY <2>2, <3>1, <4>1 DEF Passed
    <3>2. CASE k \notin 1 .. Len(hs)
      <4>1. k = Len(hs) + 1
        BY <1>1, <3>2
      <4> QED
        BY <1>1, <4>1
    <3> QED
      BY <3>1, <3>2
  <2> QED
    BY <2>1, <2>2 DEF Passed
<1>6. Done(c) \in Nat
  BY <1>4 DEF Done
<1>7. Reached(c) \cap Range(r) \subseteq Passed(r, Done(c))
  BY <1>2, <1>3, <1>5, <1>6 DEF WalkOK
<1>8. Missed(c, r) = Missed(c, hs)
  BY <1>2, <1>3, <1>5, <1>6 DEF Missed
<1> QED
  BY <1>7, <1>8 DEF WalkOK

\* A set with one element more has at most one element more.
LEMMA OneMore ==
  ASSUME NEW S, NEW T, NEW x, IsFiniteSet(S), T \subseteq S \cup {x},
         NEW n \in Nat, Cardinality(S) <= n
  PROVE  Cardinality(T) <= n + 1
<1>1. IsFiniteSet(S \cup {x}) /\ Cardinality(S) \in Nat
  BY FS_AddElement, FS_CardinalityType
<1>2. Cardinality(S \cup {x}) <= n + 1
  <2>1. Cardinality(S \cup {x}) \in {Cardinality(S), Cardinality(S) + 1}
    BY FS_AddElement
  <2> QED
    BY <1>1, <2>1
<1> QED
  BY <1>1, <1>2, NoLarger

\* When a handler is removed, a walk misses at most the one that moves up into
\* the part of the list it has behind it.
LEMMA WalkRemove ==
  ASSUME NEW c \in Cast, c.at # "idle", NEW S, NEW hs \in Seq(S), WalkOK(c, hs),
         IsInjective(hs), NEW r \in Seq(S), NEW x \in 1 .. Len(hs),
         Len(r) = Len(hs) - 1,
         \A k \in 1 .. Len(hs) - 1 : r[k] = IF k < x THEN hs[k] ELSE hs[k + 1]
  PROVE  /\ IsInjective(r)
         /\ WalkOK([c EXCEPT !.removed = c.removed + 1], r)
<1>1. /\ Len(hs) \in Nat /\ DOMAIN hs = 1 .. Len(hs) /\ DOMAIN r = 1 .. Len(r)
      /\ \A j, k \in 1 .. Len(hs) : hs[j] = hs[k] => j = k
  BY DEF IsInjective
<1>2. IsInjective(r)
  BY <1>1 DEF IsInjective
<1>3. Done(c) \in Nat /\ c.removed \in Nat
  BY DEF Done, Cast
<1>4. ASSUME NEW k \in 1 .. Len(r)
      PROVE  \E j \in 1 .. Len(hs) : r[k] = hs[j] /\ j \in {k, k + 1}
  <2>1. k \in 1 .. Len(hs) /\ k + 1 \in 1 .. Len(hs)
    BY <1>1
  <2> QED
    BY <1>1, <2>1
<1>5. Range(r) \subseteq Range(hs)
  <2>1. ASSUME NEW k \in 1 .. Len(r)
        PROVE  r[k] \in Range(hs)
    <3>1. PICK j \in 1 .. Len(hs) : r[k] = hs[j]
      BY <1>4
    <3> QED
      BY <1>1, <3>1 DEF Range
  <2> QED
    BY <1>1, <2>1 DEF Range
<1>6. ASSUME NEW q \in Reached(c), NEW k \in 1 .. Len(r), r[k] = q
      PROVE  k <= Done(c)
  <2>1. PICK j \in 1 .. Len(hs) : r[k] = hs[j] /\ j \in {k, k + 1}
    BY <1>4
  <2>2. q \in Range(hs)
    BY <1>1, <1>6, <2>1 DEF Range
  <2>3. PICK i \in 1 .. Len(hs) : i <= Done(c) /\ hs[i] = q
    BY <2>2 DEF WalkOK, Passed
  <2>4. i = j
    BY <1>1, <1>6, <2>1, <2>3
  <2> QED
    BY <1>3, <2>1, <2>3, <2>4
<1>7. Reached(c) \cap Range(r) \subseteq Passed(r, Done(c))
  <2>1. ASSUME NEW q \in Reached(c) \cap Range(r)
        PROVE  q \in Passed(r, Done(c))
    <3>1. PICK k \in 1 .. Len(r) : r[k] = q
      BY <1>1 DEF Range
    <3>2. k <= Done(c)
      BY <1>6, <3>1
    <3> QED
      BY <3>1, <3>2 DEF Passed
  <2> QED
    BY <2>1
<1>8. Missed(c, r) \subseteq Missed(c, hs) \cup {hs[Done(c) + 1]}
  <2>1. CASE c.at = "over"
    BY <1>5, <2>1 DEF Missed
  <2>2. CASE c.at # "over"
    <3>1. ASSUME NEW k \in 1 .. Len(r), k <= Done(c)
          PROVE  r[k] \in Passed(hs, Done(c)) \cup {hs[Done(c) + 1]}
      <4>1. PICK j \in 1 .. Len(hs) : r[k] = hs[j] /\ j \in {k, k + 1}
        BY <1>4
      <4>2. j <= Done(c) \/ j = Done(c) + 1
        BY <1>3, <3>1, <4>1
      <4> QED
        BY <4>1, <4>2 DEF Passed
    <3>2. Passed(r, Done(c)) \subseteq Passed(hs, Done(c)) \cup {hs[Done(c) + 1]}
      BY <3>1 DEF Passed
    <3> QED
      BY <2>2, <3>2 DEF Missed
  <2> QED
    BY <2>1, <2>2
<1>9. Cardinality(Missed(c, r)) <= c.removed + 1
  BY <1>3, <1>8, MissedFinite, OneMore DEF WalkOK
<1> DEFINE d == [c EXCEPT !.removed = c.removed + 1]
<1>10. /\ d.at = c.at /\ d.sent = c.sent /\ d.audience = c.audience /\ d.i = c.i
       /\ d.target = c.target /\ d.removed = c.removed + 1
  BY DEF Cast
<1> HIDE DEF d
<1>11. Missed(d, r) = Missed(c, r) /\ Reached(d) = Reached(c) /\ Done(d) = Done(c)
  BY <1>10 DEF Missed, Reached, Done
<1>12. WalkOK(d, r)
  BY <1>7, <1>9, <1>10, <1>11 DEF WalkOK
<1> QED
  BY <1>2, <1>12 DEF d

\* A list has finitely many elements.
LEMMA RangeFinite ==
  ASSUME NEW S, NEW s \in Seq(S)
  PROVE  IsFiniteSet(Range(s))
<1>1. Len(s) \in Nat /\ DOMAIN s = 1 .. Len(s)
  OBVIOUS
<1>2. IsFiniteSet(1 .. Len(s))
  BY <1>1, FS_Interval
<1>3. s \in Surjection(1 .. Len(s), Range(s))
  BY <1>1 DEF Surjection, Range
<1> QED
  BY <1>2, <1>3, FS_Surjection

\* A list without repetition has none after a new element is appended.
LEMMA AppendNew ==
  ASSUME NEW S, NEW s \in Seq(S), IsInjective(s), NEW x \in S, x \notin Range(s)
  PROVE  IsInjective(Append(s, x))
<1>1. /\ Len(s) \in Nat /\ DOMAIN s = 1 .. Len(s)
      /\ DOMAIN Append(s, x) = 1 .. Len(s) + 1
      /\ \A i \in 1 .. Len(s) : Append(s, x)[i] = s[i] /\ s[i] # x
      /\ Append(s, x)[Len(s) + 1] = x
  BY DEF Range
<1>2. \A i \in 1 .. Len(s) + 1 : i = Len(s) + 1 \/ i \in 1 .. Len(s)
  BY <1>1
<1> QED
  BY <1>1, <1>2 DEF IsInjective

\* The steps of a walk.
LEMMA WalkSteps ==
  ASSUME TypeOK, Registered, Walk, NEW p \in Players,
         CastStep(p) \/ \E e \in Events : CastBegin(p, e)
  PROVE  WalkOK(cast'[p], handlers)
<1> DEFINE c == cast[p]
           d == cast'[p]
           hs == handlers
<1>1. /\ c \in Cast /\ CastRegistered(c) /\ WalkOK(c, hs) /\ IsInjective(hs)
      /\ hs \in Seq(built) /\ Len(hs) \in Nat /\ DOMAIN hs = 1 .. Len(hs)
      /\ c.i \in Nat /\ c.removed \in Nat /\ c.sent \in Seq(Players) /\ p \in DOMAIN cast
  BY DEF Registered, Walk, Cast
<1>2. ASSUME NEW e \in Events, CastBegin(p, e)
      PROVE  WalkOK(d, hs)
  <2>1. /\ d.at = "size" /\ d.i = 0 /\ d.sent = <<>> /\ d.audience = Range(hs)
        /\ d.removed = 0
    BY <1>1, <1>2 DEF CastBegin, NoCast
  <2>2. Range(<<>>) = {} /\ IsInjective(<<>>) /\ Passed(hs, 0) = {}
    BY DEF Range, IsInjective, Passed
  <2>3. Reached(d) = {} /\ Done(d) = 0
    BY <2>1, <2>2 DEF Reached, Done
  <2>4. Missed(d, hs) = {}
    BY <2>1, <2>2, <2>3 DEF Missed
  <2>5. IsFiniteSet(Range(hs))
    BY <1>1, RangeFinite
  <2> QED
    BY <2>1, <2>2, <2>3, <2>4, <2>5, FS_EmptySet DEF WalkOK
<1>3. ASSUME d = [c EXCEPT !.at = "over"], c.at \in {"size", "get"}, ~(c.i < Len(hs))
      PROVE  WalkOK(d, hs)
  <2>1. /\ d.at = "over" /\ d.i = c.i /\ d.sent = c.sent /\ d.audience = c.audience
        /\ d.removed = c.removed
    BY <1>1, <1>3 DEF Cast
  <2>2. Passed(hs, c.i) = Range(hs)
    BY <1>1, <1>3 DEF Passed, Range
  <2>3. /\ Reached(d) = Reached(c) /\ Done(d) = Done(c) /\ Done(c) = c.i
        /\ Reached(c) = Range(c.sent)
    BY <1>3, <2>1 DEF Reached, Done
  <2>4. Missed(d, hs) = Missed(c, hs)
    BY <1>3, <2>1, <2>2, <2>3 DEF Missed
  <2> QED
    BY <1>1, <2>1, <2>3, <2>4 DEF WalkOK
<1>4. ASSUME CastSize(p)
      PROVE  WalkOK(d, hs)
  <2>1. CASE c.i < Len(hs)
    <3>1. d = [c EXCEPT !.at = "get"] /\ c.at = "size"
      BY <1>1, <1>4, <2>1 DEF CastSize
    <3>2. /\ d.at = "get" /\ d.i = c.i /\ d.sent = c.sent /\ d.audience = c.audience
          /\ d.removed = c.removed
      BY <1>1, <3>1 DEF Cast
    <3>3. Reached(d) = Reached(c) /\ Done(d) = Done(c)
      BY <3>1, <3>2 DEF Reached, Done
    <3>4. Missed(d, hs) = Missed(c, hs)
      BY <3>1, <3>2, <3>3 DEF Missed
    <3> QED
      BY <1>1, <3>2, <3>3, <3>4 DEF WalkOK
  <2>2. CASE ~(c.i < Len(hs))
    <3>1. d = [c EXCEPT !.at = "over"] /\ c.at = "size"
      BY <1>1, <1>4, <2>2 DEF CastSize
    <3> QED
      BY <1>3, <2>2, <3>1
  <2> QED
    BY <2>1, <2>2
<1>5. ASSUME CastGet(p)
      PROVE  WalkOK(d, hs)
  <2>1. CASE c.i < Len(hs)
    <3>1. d = [c EXCEPT !.at = "send", !.target = hs[c.i + 1]] /\ c.at = "get"
      BY <1>1, <1>5, <2>1 DEF CastGet
    <3>2. /\ d.at = "send" /\ d.i = c.i /\ d.sent = c.sent /\ d.audience = c.audience
          /\ d.removed = c.removed /\ d.target = hs[c.i + 1]
      BY <1>1, <3>1 DEF Cast
    <3>3. c.i + 1 \in 1 .. Len(hs) /\ Done(d) = c.i + 1 /\ Done(c) = c.i
          /\ Reached(c) = Range(c.sent) /\ Reached(d) = Range(c.sent) \cup {d.target}
      BY <1>1, <2>1, <3>1, <3>2 DEF Done, Reached
    <3>4. d.target \notin Range(c.sent)
      <4>1. ASSUME d.target \in Range(c.sent)
            PROVE  FALSE
        <5>1. d.target \in Range(hs)
          BY <1>1, <3>2, <3>3 DEF Range
        <5>2. PICK k \in 1 .. Len(hs) : k <= c.i /\ hs[k] = hs[c.i + 1]
          BY <1>1, <3>2, <3>3, <4>1, <5>1 DEF WalkOK, Passed
        <5>3. k = c.i + 1
          BY <1>1, <3>3, <5>2 DEF IsInjective
        <5> QED
          BY <1>1, <5>2, <5>3
      <4> QED
        BY <4>1
    <3>5. Passed(hs, c.i + 1) = Passed(hs, c.i) \cup {d.target}
      BY <1>1, <3>2, <3>3 DEF Passed
    <3>6. Missed(d, hs) \subseteq Missed(c, hs)
      BY <3>1, <3>2, <3>3, <3>5 DEF Missed
    <3>7. Cardinality(Missed(d, hs)) <= c.removed
      BY <1>1, <3>6, MissedFinite, NoLarger DEF WalkOK
    <3> QED
      BY <1>1, <3>2, <3>3, <3>4, <3>5, <3>7 DEF WalkOK
  <2>2. CASE ~(c.i < Len(hs))
    <3>1. d = [c EXCEPT !.at = "over"] /\ c.at = "get"
      BY <1>1, <1>5, <2>2 DEF CastGet
    <3> QED
      BY <1>3, <2>2, <3>1
  <2> QED
    BY <2>1, <2>2
<1>6. ASSUME CastSend(p)
      PROVE  WalkOK(d, hs)
  <2>1. /\ d.at = "size" /\ d.i = c.i + 1 /\ d.sent = Append(c.sent, c.target)
        /\ d.audience = c.audience /\ d.removed = c.removed /\ c.at = "send"
    BY <1>1, <1>6 DEF CastSend, Cast
  <2>2. c.target \in Players /\ c.target \notin Range(c.sent)
    BY <1>1, <2>1 DEF CastRegistered, TypeOK, WalkOK
  <2>3. /\ Range(d.sent) = Range(c.sent) \cup {c.target}
        /\ IsInjective(d.sent)
    BY <1>1, <2>1, <2>2, AppendRange, AppendNew DEF WalkOK
  <2>4. Reached(d) = Reached(c) /\ Done(d) = Done(c)
    BY <2>1, <2>3 DEF Reached, Done
  <2>5. Missed(d, hs) = Missed(c, hs)
    BY <2>1, <2>4 DEF Missed
  <2> QED
    BY <1>1, <2>1, <2>3, <2>4, <2>5 DEF WalkOK
<1>7. ASSUME CastEnd(p)
      PROVE  WalkOK(d, hs)
  BY <1>1, <1>7, WalkIdle DEF CastEnd
<1> QED
  BY <1>2, <1>4, <1>5, <1>6, <1>7 DEF CastStep

\* Every step keeps what is said of the walks.
LEMMA WalkKeeps ==
  ASSUME TypeOK, Registered, Walk, Next
  PROVE  Walk'
<1>1. ASSUME NEW p \in Players, Construct(p)
      PROVE  Walk'
  <2>1. handlers' = Append(handlers, p) /\ cast' = cast /\ p \notin built
    BY <1>1 DEF Construct
  <2>2. \A q \in Players : cast[q] \in Cast /\ CastRegistered(cast[q])
    BY DEF Registered
  <2>3. handlers \in Seq(built) /\ built \subseteq Players
    BY DEF Registered, TypeOK
  <2>4. \A q \in Players : WalkOK(cast[q], Append(handlers, p))
    BY <2>1, <2>2, <2>3, WalkAppend DEF Walk
  <2>5. IsInjective(Append(handlers, p))
    <3>1. p \notin Range(handlers) /\ handlers \in Seq(Players)
      BY <2>1, <2>3 DEF Range, TypeOK
    <3> QED
      BY <3>1, AppendNew DEF Walk
  <2> QED
    BY <2>1, <2>4, <2>5 DEF Walk
<1>2. ASSUME NEW p \in Players, CastStep(p) \/ \E e \in Events : CastBegin(p, e)
      PROVE  Walk'
  <2>1. handlers' = handlers /\ cast' = [cast EXCEPT ![p] = cast'[p]]
    BY <1>2 DEF CastStep, CastBegin, CastSize, CastGet, CastSend, CastEnd, Registered
  <2>2. WalkOK(cast'[p], handlers)
    BY <1>2, WalkSteps
  <2>3. \A q \in Players \ {p} : cast'[q] = cast[q]
    BY <2>1 DEF Registered
  <2> QED
    BY <2>1, <2>2, <2>3 DEF Walk
<1>3. ASSUME NEW t \in Threads, StopRemove(t)
      PROVE  Walk'
  <2> DEFINE p == stopOf[t]
  <2>1. /\ handlers' = RemoveFirst(handlers, p) /\ handlers \in Seq(Players)
        /\ \A c \in Players :
             cast'[c] = IF cast[c].at # "idle" /\ p \in Range(handlers)
                        THEN [cast[c] EXCEPT !.removed = cast[c].removed + 1] ELSE cast[c]
    BY <1>3 DEF StopRemove, TypeOK
  <2>2. \/ p \notin Range(handlers) /\ handlers' = handlers
        \/ \E x \in 1 .. Len(handlers) :
                 /\ handlers[x] = p /\ Len(handlers') = Len(handlers) - 1
                 /\ \A k \in 1 .. Len(handlers) - 1 :
                      handlers'[k] = IF k < x THEN handlers[k] ELSE handlers[k + 1]
    BY <2>1, RemoveFirstShape
  <2>3. CASE p \notin Range(handlers) /\ handlers' = handlers
    BY <2>1, <2>3 DEF Walk
  <2>4. ASSUME NEW x \in 1 .. Len(handlers),
               handlers[x] = p, Len(handlers') = Len(handlers) - 1,
               \A k \in 1 .. Len(handlers) - 1 :
                      handlers'[k] = IF k < x THEN handlers[k] ELSE handlers[k + 1]
        PROVE  Walk'
    <3>1. p \in Range(handlers) /\ handlers' \in Seq(Players)
      BY <2>1, <2>4, RemoveFirstShape DEF Range
    <3>2. IsInjective(handlers')
      <4>1. /\ Len(handlers) \in Nat /\ DOMAIN handlers = 1 .. Len(handlers)
            /\ DOMAIN handlers' = 1 .. Len(handlers) - 1
        BY <2>1, <2>4, <3>1
      <4> QED
        BY <2>4, <4>1 DEF Walk, IsInjective
    <3>3. ASSUME NEW c \in Players
          PROVE  WalkOK(cast'[c], handlers')
      <4>1. cast[c] \in Cast /\ WalkOK(cast[c], handlers)
        BY DEF Registered, Walk
      <4>2. CASE cast[c].at = "idle"
        BY <2>1, <3>1, <4>1, <4>2, WalkIdle DEF WalkOK
      <4>3. CASE cast[c].at # "idle"
        <5>1. cast'[c] = [cast[c] EXCEPT !.removed = cast[c].removed + 1]
          BY <2>1, <3>1, <4>3
        <5>2. WalkOK([cast[c] EXCEPT !.removed = cast[c].removed + 1], handlers')
          BY <2>1, <2>4, <3>1, <4>1, <4>3, WalkRemove DEF Walk
        <5> QED
          BY <5>1, <5>2
      <4> QED
        BY <4>2, <4>3
    <3> QED
      BY <3>2, <3>3 DEF Walk
  <2> QED
    BY <2>2, <2>3, <2>4
<1>4. ASSUME UNCHANGED <<handlers, cast>>
      PROVE  Walk'
  BY <1>4 DEF Walk
<1>5. ASSUME NEW t \in Threads, StopStep(t), ~StopRemove(t)
      PROVE  UNCHANGED <<handlers, cast>>
  BY <1>5 DEF StopStep, StopSet, StopPurge, StopClear, StopEngine, StopRelease, busVars
<1>6. ASSUME Handle
      PROVE  UNCHANGED <<handlers, cast>>
  BY <1>6 DEF Handle, Dispatch, Position, EndReached, TestCallBack, ReadRef, Call,
              AppReturns, SetFlag, busVars
<1>7. ASSUME NEW p \in Players, Publish(p) \/ \E t \in Threads : StopCall(t, p)
      PROVE  UNCHANGED <<handlers, cast>>
  BY <1>7 DEF Publish, StopCall, busVars
<1> QED
  BY <1>1, <1>2, <1>3, <1>4, <1>5, <1>6, <1>7 DEF Next

----------------------------------------------------------------------------
(* The theorems *)

IInv == TypeOK /\ Registered /\ Running /\ Released /\ Walk

\* Nothing was constructed yet.
LEMMA InitIInv == Init => IInv /\ (Workers = {} => Stopping /\ Crashing)
<1> SUFFICES ASSUME Init
             PROVE  IInv /\ (Workers = {} => Stopping /\ Crashing)
  OBVIOUS
<1> USE DEF Init
<1>1. TypeOK
  <2>1. <<>> \in Seq(Players) /\ <<>> \in Seq([to : Players, event : AllEvents])
    OBVIOUS
  <2>2. UiTypeOK /\ StopTypeOK
    BY DEF UiTypeOK, StopTypeOK, Labels
  <2>3. /\ casts \in 0 .. MaxCasts
        /\ callBack \in [Players -> BOOLEAN] /\ live \in [Players -> BOOLEAN]
        /\ isOnPlayCallback \in [Players -> BOOLEAN]
        /\ phase \in [Players -> {"idle", "running", "complete"}]
    OBVIOUS
  <2>4. \A s \in {built, stopped, hidden, gone} : s \subseteq Players
    OBVIOUS
  <2> HIDE DEF Init
  <2> QED
    BY <2>1, <2>2, <2>3, <2>4 DEF TypeOK, UiTypeOK, StopTypeOK, Init
<1>2. Registered
  BY NoCastType DEF Registered, Unknown
<1>3. Running
  BY DEF Running, FlagAgrees, StepAgrees, Telling
<1>4. Released
  BY DEF Released
<1>5. Walk
  <2>1. IsInjective(handlers) /\ handlers \in Seq(Players)
    BY DEF IsInjective
  <2> QED
    BY <2>1, WalkIdle DEF Walk
<1>6. Workers = {} => Stopping /\ Crashing
  BY DEF Stopping, Crashing, Threads
<1> QED
  BY <1>1, <1>2, <1>3, <1>4, <1>5, <1>6 DEF IInv

\* The invariant, whoever stops the players.
LEMMA Inductive == SafeSpec => []IInv
<1>1. IInv /\ [Next]_vars => IInv'
  <2> SUFFICES ASSUME IInv, [Next]_vars
               PROVE  IInv'
    OBVIOUS
  <2>1. CASE Next
    BY <2>1, TypeKeeps, RegisteredKeeps, RunningKeeps, ReleasedKeeps, WalkKeeps DEF IInv
  <2>2. CASE UNCHANGED vars
    BY <2>2 DEF IInv, vars, busVars, uiVars, playerVars, stopVars, tellVars, TypeOK,
         Registered, Message, CastRegistered, Unknown, Running, FlagAgrees,
         StepAgrees, Resetting, Released, Walk
  <2> QED
    BY <2>1, <2>2
<1> QED
  BY InitIInv, <1>1, PTL DEF SafeSpec

\* The invariant when only the UI thread does.
LEMMA InductiveUi ==
  (Workers = {}) => (SafeSpec => [](IInv /\ Stopping /\ Crashing))
<1> SUFFICES ASSUME Workers = {}
             PROVE  SafeSpec => [](IInv /\ Stopping /\ Crashing)
  OBVIOUS
<1>1. Init => Stopping /\ Crashing
  BY InitIInv
<1>2. Stopping /\ Crashing /\ IInv /\ [Next]_vars => Stopping' /\ Crashing'
  <2> SUFFICES ASSUME Stopping, Crashing, IInv, [Next]_vars
               PROVE  Stopping' /\ Crashing'
    OBVIOUS
  <2>1. CASE Next
    BY <2>1, StoppingKeeps, CrashingKeeps DEF IInv
  <2>2. CASE UNCHANGED vars
    BY <2>2 DEF vars, uiVars, playerVars, stopVars, Stopping, Crashing
  <2> QED
    BY <2>1, <2>2
<1> QED
  BY <1>1, <1>2, Inductive, PTL DEF SafeSpec

\* The types, in every state.
THEOREM TypeCorrect == SafeSpec => []TypeOK
<1>1. IInv => TypeOK
  BY DEF IInv
<1> QED
  BY <1>1, Inductive, PTL

\* onPostPosition and onComplete reach no application that was not told onPlay,
\* whatever the engines send to whom and whoever stops the player meanwhile.
THEOREM PlayComesFirst == SafeSpec => []OnPlayFirst
<1>1. IInv => OnPlayFirst
  BY DEF IInv, Running, StepAgrees, Telling, OnPlayFirst, CallWorks
<1> QED
  BY <1>1, Inductive, PTL

\* onPlay is not repeated within one run.
THEOREM PlayComesOnce == SafeSpec => []OnPlayOncePerRun
<1>1. IInv => OnPlayOncePerRun
  BY DEF IInv, Running, StepAgrees, OnPlayOncePerRun, CallWorks
<1> QED
  BY <1>1, Inductive, PTL

\* A walk over the handlers repeats none and misses no more than were removed.
THEOREM WalkReachesAll == SafeSpec => []WalkReaches
<1>1. IInv => WalkReaches
  BY DEF IInv, Walk, WalkOK, Missed, WalkReaches
<1> QED
  BY <1>1, Inductive, PTL

\* With stop() confined to the UI thread, nothing is told after it returned.
THEOREM NothingIsToldAfterStop == SafeSpec => []NothingAfterStop
<1>1. CASE Workers = {}
  <2>1. IInv /\ Stopping => NothingAfterStop
    BY DEF IInv, Released, Stopping, NothingAfterStop, CallWorks
  <2> QED
    BY <1>1, <2>1, InductiveUi, PTL
<1>2. CASE Workers # {}
  <2>1. NothingAfterStop
    BY <1>2 DEF NothingAfterStop
  <2> QED
    BY <2>1, PTL
<1> QED
  BY <1>1, <1>2

\* With stop() confined to the UI thread, an exception leaves the handler only
\* for a player that was stopped, at a step that tests nothing.
THEOREM CrashesOnlyAfterStop == SafeSpec => []CrashOnlyAfterStop
<1>1. CASE Workers = {}
  <2>1. IInv /\ Stopping /\ Crashing => CrashOnlyAfterStop
    BY DEF Crashing, CrashOnlyAfterStop
  <2> QED
    BY <1>1, <2>1, InductiveUi, PTL
<1>2. CASE Workers # {}
  <2>1. CrashOnlyAfterStop
    BY <1>2 DEF CrashOnlyAfterStop
  <2> QED
    BY <2>1, PTL
<1> QED
  BY <1>1, <1>2

\* With stop() confined to the UI thread, the call that the code marks "may
\* produce NPE" finds its callback whenever the player is not released.
THEOREM PostPositionIsSafe ==
  (Workers = {}) => (SafeSpec => []PostPositionHasTarget)
<1> SUFFICES ASSUME Workers = {}
             PROVE  SafeSpec => []PostPositionHasTarget
  OBVIOUS
<1>1. IInv /\ Stopping => PostPositionHasTarget
  BY DEF Stopping, PostPositionHasTarget
<1> QED
  BY <1>1, InductiveUi, PTL
=============================================================================
