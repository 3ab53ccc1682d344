------------------------ MODULE X264Encoder_proofs ------------------------
(***************************************************************************)
(* Proofs about X264Encoder, for any parameters and number of frames:      *)
(*   TypeCorrect         the variables have their types;                   *)
(*   ShiftsHaveRoom      a group or the rest of ifbuf always fits;         *)
(*   DelayIsBounded      what the encoder reports as its delay is a bound; *)
(*   FlushLosesNothing   a flush that ends has delivered every frame;      *)
(*   KeepsOrder          the order of ReorderService and FrameService.     *)
(*                                                                         *)
(* The invariant follows the frames by number.  Every frame handed in is   *)
(* in one list, and where a list begins says which frames it has: in line  *)
(* before a group is decided, after it group by group in coded order.      *)
(* Those started and not received are in the frame threads, and a frame    *)
(* thread has the frame that was started Age calls ago.                    *)
(***************************************************************************)
EXTENDS X264Encoder, FiniteSetTheorems, SequenceTheorems, TLAPS

----------------------------------------------------------------------------
(* The lists of frames *)

\* Where the numbers of the lists begin: the frames before ofbuf, next, ifbuf.
Taken == coded + Len(current)
Offered == Taken + Len(ofbuf)
Seen == Offered + Len(next)

Pushing == encoder \in {"pushing", "pushSleep"}

\* A list holds the frames after b in the order they were handed in.
Lined(s, b) == \A k \in 1 .. Len(s) : s[k] = b + k

\* In a list of the frames after b, those from x to y hold each other's places.
Permutes(s, b, x, y) ==
  /\ \A f \in x .. y : s[f - b] \in x .. y
  /\ \A h \in x .. y : \E f \in x .. y : s[f - b] = h
  /\ \A f, h \in x .. y : s[f - b] = s[h - b] => f = h

\* ... and they are a group in coded order.
IsGroup(s, b, x, y) == x <= y /\ s[x - b] = y /\ Permutes(s, b, x, y)

\* Lists of the frames after b and after c have the same ones from x to y.
Alike(s, b, u, c, x, y) == \A f \in x .. y : u[f - c] = s[f - b]

\* A list is made of groups, which begin where heads says and have the sizes
\* their first frames say.
Begin(s, b, sizes, heads) ==
  /\ heads \subseteq b + 1 .. b + Len(s) + 1 /\ b + 1 \in heads
  /\ \A x \in heads :
       x <= b + Len(s) => /\ x + sizes[s[x - b]] + 1 \in heads
                          /\ IsGroup(s, b, x, x + sizes[s[x - b]])

Grouped(s, b, sizes) ==
  Permutes(s, b, b + 1, b + Len(s)) /\ \E heads : Begin(s, b, sizes, heads)

\* A list begins with a group of size g, and the others are in line.
Behind(s, b, g) == \A k \in 1 .. Len(s) : k > g => s[k] = b + k

Decided(s, b, g) ==
  s # <<>> /\ g <= Len(s) /\ IsGroup(s, b, b + 1, b + g) /\ Behind(s, b, g)

\* A list holds the rest of a group whose anchor is f.
RestOf(s, f) ==
  /\ \A k \in 1 .. Len(s) : s[k] \in 1 .. f - 1
  /\ \A i, j \in 1 .. Len(s) : s[i] = s[j] => i = j

Held == looker \in {"decided", "full"}

\* next begins with a group in coded order once it is decided.
NextOK ==
  IF Held THEN Decided(next, Offered, GroupSize(next)) ELSE Lined(next, Offered)

\* current is a group, or the rest of one whose anchor has been started.
CurrentOK ==
  \/ /\ anchor = coded
     /\ current = <<>> \/ IsGroup(current, coded, coded + 1, Taken)
     /\ Len(current) <= param.bframes + 1
  \/ anchor = Taken /\ RestOf(current, anchor)

\* Every frame handed in is in one place.
Conserved == Seen + Len(ifbuf) + (IF Pushing THEN 1 ELSE 0) = i_input

Lists ==
  /\ Conserved /\ Lined(ifbuf, Seen) /\ NextOK /\ Grouped(ofbuf, Taken, i_bframes)
  /\ CurrentOK

----------------------------------------------------------------------------
(* The caller and the lookahead *)

Entered == encoder \in {"pushing", "pushSleep", "getting", "getSleep", "taking"}

\* What the steps of the two say of the flags and the lists.
Steps ==
  /\ Threaded <=> looker # "none"
  /\ ~Threaded => ifbuf = <<>> /\ ofbuf = <<>>
  /\ ~b_thread_active => looker \in {"none", "ended"}
  /\ looker = "ended" => next = <<>>
  /\ leaving \/ looker = "leave" => b_exit_thread
  /\ leaving => ifbuf = <<>>
  /\ looker \in {"emptying", "ended"} => leaving
  /\ looker \in {"top", "shifting", "sleeping", "leave"} => ~leaving
  /\ b_exit_thread => ~Pushing
  /\ encoder \in {"getting", "getSleep"} => current = <<>>
  /\ encoder = "getSleep" => Threaded
  /\ encoder = "getting" /\ ~Threaded /\ ~b_exit_thread => next # <<>>
  /\ encoder = "taking" /\ current = <<>> =>
       /\ b_exit_thread /\ looker \in {"none", "ended"}
       /\ next = <<>> /\ ofbuf = <<>> /\ ifbuf = <<>>
  /\ encoder = "counting" \/ drained => b_exit_thread

\* Frames are taken as soon as there are more than Fill.
Bounded ==
  i_input - coded <= Fill + (IF Entered /\ ~b_exit_thread THEN 1 ELSE 0)

Filling ==
  ~b_exit_thread /\ i_input <= Fill =>
    coded = 0 /\ encoder \in {"idle", "pushing", "pushSleep"}

----------------------------------------------------------------------------
(* The frame threads *)

\* The frame threads that have a frame, and how many calls ago it was started.
Live == active \cup written
Age(t) == IF t <= i_thread_phase THEN i_thread_phase - t
          ELSE i_thread_phase - t + param.threads

\* One frame is started per call, but for the last calls of the flush.
Aged(lag) ==
  /\ \A t \in Live : job[t] = coded + lag - Age(t)
  /\ Entered => lag >= 1
  /\ coded < i_input \/ ~b_exit_thread => lag = (IF Entered THEN 1 ELSE 0)

\* The frames that were started and not received are in the frame threads.
Ring ==
  /\ \A t \in Live : job[t] \in received + 1 .. coded
  /\ \A k \in received + 1 .. coded : \E t \in Live : job[t] = k
  /\ \E lag \in Nat : Aged(lag)
  /\ encoder \in {"idle", "counting"} => Oldest \notin Live

Writing == {w \in Threads : worker[w] = "writing"}

\* A frame thread without output has one job, in the queue or in a worker.
Pool ==
  /\ param.threads = 1 =>
       active = {} /\ run = <<>> /\ \A w \in Threads : worker[w] = "ended"
  /\ param.threads > 1 => written \subseteq active
  /\ \A i \in 1 .. Len(run) : run[i] \in active \ written
  /\ \A i, j \in 1 .. Len(run) : run[i] = run[j] => i = j
  /\ \A w \in Writing :
       /\ task[w] \in active \ written
       /\ \A i \in 1 .. Len(run) : run[i] # task[w]
       /\ \A v \in Writing : task[v] = task[w] => v = w

Drained ==
  drained => /\ received = i_input /\ coded = i_input
             /\ encoder \in {"idle", "closing", "joining", "closed"}

IInv ==
  /\ TypeOK /\ Lists /\ Steps /\ Bounded /\ Filling /\ Ring /\ Pool /\ Drained

----------------------------------------------------------------------------
(* Lists of any kind *)

\* The parts of a list.
LEMMA Split ==
  ASSUME NEW S, NEW s \in Seq(S), NEW n \in 0 .. Len(s)
  PROVE  /\ First(s, n) \in Seq(S) /\ Len(First(s, n)) = n
         /\ \A k \in 1 .. n : First(s, n)[k] = s[k]
         /\ Rest(s, n) \in Seq(S) /\ Len(Rest(s, n)) = Len(s) - n
         /\ \A k \in 1 .. Len(s) - n : Rest(s, n)[k] = s[n + k]
<1>1. /\ SubSeq(s, 1, n) \in Seq(S) /\ Len(SubSeq(s, 1, n)) = n
      /\ \A k \in 1 .. n : SubSeq(s, 1, n)[k] = s[k]
  OBVIOUS
<1>2. /\ SubSeq(s, n + 1, Len(s)) \in Seq(S)
      /\ Len(SubSeq(s, n + 1, Len(s))) = Len(s) - n
      /\ \A k \in 1 .. Len(s) - n : SubSeq(s, n + 1, Len(s))[k] = s[n + k]
  OBVIOUS
<1> QED
  BY <1>1, <1>2 DEF First, Rest

\* Two lists, one behind the other.
LEMMA Join ==
  ASSUME NEW S, NEW s \in Seq(S), NEW u \in Seq(S)
  PROVE  /\ s \o u \in Seq(S) /\ Len(s \o u) = Len(s) + Len(u)
         /\ \A k \in 1 .. Len(s) : (s \o u)[k] = s[k]
         /\ \A k \in 1 .. Len(u) : (s \o u)[Len(s) + k] = u[k]
<1>1. /\ s \o u \in Seq(S) /\ Len(s \o u) = Len(s) + Len(u)
      /\ \A k \in 1 .. Len(s) + Len(u) :
           (s \o u)[k] = IF k <= Len(s) THEN s[k] ELSE u[k - Len(s)]
  BY ConcatProperties
<1>2. Len(s) \in Nat /\ Len(u) \in Nat
  OBVIOUS
<1> QED
  BY <1>1, <1>2

\* A list with another element.
LEMMA Appended ==
  ASSUME NEW S, NEW s \in Seq(S), NEW x \in S
  PROVE  /\ Append(s, x) \in Seq(S) /\ Len(Append(s, x)) = Len(s) + 1
         /\ \A k \in 1 .. Len(s) : Append(s, x)[k] = s[k]
         /\ Append(s, x)[Len(s) + 1] = x
OBVIOUS

\* A list without its first element.
LEMMA Behead ==
  ASSUME NEW S, NEW s \in Seq(S), s # <<>>
  PROVE  /\ Head(s) \in S /\ Head(s) = s[1] /\ Len(s) \in Nat /\ Len(s) > 0
         /\ Tail(s) \in Seq(S) /\ Len(Tail(s)) = Len(s) - 1
         /\ \A k \in 1 .. Len(s) - 1 : Tail(s)[k] = s[k + 1]
<1>1. Len(s) \in Nat /\ Len(s) > 0
  BY EmptySeq
<1>2. /\ Tail(s) \in Seq(S) /\ Len(Tail(s)) = Len(s) - 1
      /\ \A k \in 1 .. Len(s) - 1 : Tail(s)[k] = s[k + 1]
  BY <1>1
<1> QED
  BY <1>1, <1>2

\* An order in which a group is encoded is a permutation.
LEMMA OrderIsOnto ==
  ASSUME NEW n \in Nat, NEW p \in CodedOrders(n)
  PROVE  /\ \A i \in 1 .. n + 1 : p[i] \in 1 .. n + 1
         /\ \A v \in 1 .. n + 1 : \E i \in 1 .. n + 1 : p[i] = v
         /\ \A i, j \in 1 .. n + 1 : p[i] = p[j] => i = j
         /\ p[1] = n + 1
<1>1. /\ p \in [1 .. n + 1 -> 1 .. n + 1] /\ p[1] = n + 1
      /\ \A i, j \in 1 .. n + 1 : p[i] = p[j] => i = j
  BY DEF CodedOrders
<1>2. p \in Injection(1 .. n + 1, 1 .. n + 1)
  BY <1>1 DEF Injection, IsInjective
<1>3. IsFiniteSet(1 .. n + 1)
  BY FS_Interval
<1>4. p \in Surjection(1 .. n + 1, 1 .. n + 1)
  BY <1>2, <1>3, FS_Injection
<1> QED
  BY <1>1, <1>4 DEF Surjection

----------------------------------------------------------------------------
(* Groups *)

\* The same frames in another list.
LEMMA SamePlaces ==
  ASSUME NEW s, NEW u, NEW b \in Int, NEW c \in Int, NEW x \in Int, NEW y \in Int,
         Alike(s, b, u, c, x, y)
  PROVE  /\ Permutes(s, b, x, y) => Permutes(u, c, x, y)
         /\ IsGroup(s, b, x, y) => IsGroup(u, c, x, y)
<1>1. ASSUME Permutes(s, b, x, y)
      PROVE  Permutes(u, c, x, y)
  <2>1. \A f \in x .. y : u[f - c] \in x .. y
    BY <1>1 DEF Permutes, Alike
  <2>2. \A h \in x .. y : \E f \in x .. y : u[f - c] = h
    BY <1>1 DEF Permutes, Alike
  <2>3. \A f, h \in x .. y : u[f - c] = u[h - c] => f = h
    BY <1>1 DEF Permutes, Alike
  <2> QED
    BY <2>1, <2>2, <2>3 DEF Permutes
<1>2. ASSUME IsGroup(s, b, x, y)
      PROVE  IsGroup(u, c, x, y)
  <2>1. x <= y /\ s[x - b] = y /\ Permutes(s, b, x, y)
    BY <1>2 DEF IsGroup
  <2>2. x \in x .. y
    BY <2>1
  <2> QED
    BY <1>1, <2>1, <2>2 DEF IsGroup, Alike
<1> QED
  BY <1>1, <1>2

\* What is behind the first frames.
LEMMA PermutesCut ==
  ASSUME NEW s, NEW b \in Int, NEW x \in Int, NEW y \in Int, NEW z \in Int,
         x <= y + 1, y <= z, Permutes(s, b, x, z), Permutes(s, b, x, y)
  PROVE  Permutes(s, b, y + 1, z)
<1>1. ASSUME NEW f \in y + 1 .. z
      PROVE  s[f - b] \in y + 1 .. z
  <2>1. f \in x .. z /\ s[f - b] \in x .. z
    BY DEF Permutes
  <2>2. ASSUME s[f - b] \in x .. y
        PROVE  FALSE
    <3>1. PICK h \in x .. y : s[h - b] = s[f - b]
      BY <2>2 DEF Permutes
    <3>2. h \in x .. z /\ h # f
      BY <3>1
    <3> QED
      BY <2>1, <3>1, <3>2 DEF Permutes
  <2> QED
    BY <2>1, <2>2
<1>2. ASSUME NEW h \in y + 1 .. z
      PROVE  \E f \in y + 1 .. z : s[f - b] = h
  <2>1. h \in x .. z
    OBVIOUS
  <2>2. PICK f \in x .. z : s[f - b] = h
    BY <2>1 DEF Permutes
  <2>3. ~(f \in x .. y)
    BY <2>2 DEF Permutes
  <2>4. f \in y + 1 .. z
    BY <2>3
  <2> QED
    BY <2>2, <2>4
<1>3. \A f, h \in y + 1 .. z : s[f - b] = s[h - b] => f = h
  <2>1. \A f \in y + 1 .. z : f \in x .. z
    OBVIOUS
  <2> QED
    BY <2>1 DEF Permutes
<1> QED
  BY <1>1, <1>2, <1>3 DEF Permutes

\* The two together.
LEMMA PermutesJoined ==
  ASSUME NEW s, NEW b \in Int, NEW x \in Int, NEW y \in Int, NEW z \in Int,
         x <= y + 1, y <= z, Permutes(s, b, x, y), Permutes(s, b, y + 1, z)
  PROVE  Permutes(s, b, x, z)
<1>1. \A f \in x .. z : f \in x .. y \/ f \in y + 1 .. z
  OBVIOUS
<1>2. /\ \A f \in x .. y : s[f - b] \in x .. y /\ f \in x .. z
      /\ \A f \in y + 1 .. z : s[f - b] \in y + 1 .. z /\ f \in x .. z
  BY DEF Permutes
<1>3. \A f \in x .. z : s[f - b] \in x .. z
  BY <1>1, <1>2
<1>4. ASSUME NEW h \in x .. z
      PROVE  \E f \in x .. z : s[f - b] = h
  BY <1>1, <1>2 DEF Permutes
<1>5. ASSUME NEW f \in x .. z, NEW h \in x .. z, s[f - b] = s[h - b]
      PROVE  f = h
  <2>1. ~(f \in x .. y /\ h \in y + 1 .. z) /\ ~(h \in x .. y /\ f \in y + 1 .. z)
    BY <1>2, <1>5
  <2> QED
    BY <1>1, <1>5, <2>1 DEF Permutes
<1> QED
  BY <1>3, <1>4, <1>5 DEF Permutes

\* Where the frames of a list are.
LEMMA Listed ==
  ASSUME NEW s, NEW b \in Int, NEW n \in Nat, Permutes(s, b, b + 1, b + n)
  PROVE  /\ \A k \in 1 .. n : s[k] \in b + 1 .. b + n
         /\ \A j, k \in 1 .. n : s[j] = s[k] => j = k
<1>1. \A k \in 1 .. n : b + k \in b + 1 .. b + n /\ (b + k) - b = k
  OBVIOUS
<1>2. \A k \in 1 .. n : s[k] \in b + 1 .. b + n
  BY <1>1 DEF Permutes
<1>3. ASSUME NEW j \in 1 .. n, NEW k \in 1 .. n, s[j] = s[k]
      PROVE  j = k
  <2>1. b + j = b + k
    BY <1>1, <1>3 DEF Permutes
  <2> QED
    BY <2>1
<1> QED
  BY <1>2, <1>3

\* Where the groups of a list begin: the frames of a group are in the list, and
\* the next one begins behind them.
LEMMA GroupInside ==
  ASSUME NEW S, NEW s \in Seq(S), NEW b \in Int, NEW sizes, NEW heads,
         Begin(s, b, sizes, heads), NEW x \in heads, x <= b + Len(s),
         sizes[s[x - b]] \in Nat
  PROVE  /\ x \in Int /\ b + 1 <= x
         /\ x + sizes[s[x - b]] \in x .. b + Len(s)
         /\ x + sizes[s[x - b]] + 1 \in heads
         /\ IsGroup(s, b, x, x + sizes[s[x - b]])
<1>1. Len(s) \in Nat
  OBVIOUS
<1>2. \A h \in heads : h \in b + 1 .. b + Len(s) + 1
  BY DEF Begin
<1>3. /\ x + sizes[s[x - b]] + 1 \in heads
      /\ IsGroup(s, b, x, x + sizes[s[x - b]])
  BY DEF Begin
<1>4. x \in Int /\ b + 1 <= x
  BY <1>1, <1>2
<1>5. x + sizes[s[x - b]] + 1 \in b + 1 .. b + Len(s) + 1
  BY <1>2, <1>3
<1> QED
  BY <1>1, <1>3, <1>4, <1>5

\* The first group of a list has its frames.
LEMMA FirstGroup ==
  ASSUME NEW S, NEW s \in Seq(S), NEW b \in Int, NEW sizes \in [S -> Nat],
         Grouped(s, b, sizes), s # <<>>
  PROVE  /\ s[1] \in S /\ sizes[s[1]] + 1 \in 1 .. Len(s)
         /\ IsGroup(s, b, b + 1, b + (sizes[s[1]] + 1))
<1>1. PICK heads : Begin(s, b, sizes, heads)
  BY DEF Grouped
<1>2. /\ Len(s) \in Nat /\ 1 <= Len(s) /\ s[1] \in S /\ sizes[s[1]] \in Nat
      /\ (b + 1) - b = 1 /\ b + 1 \in heads /\ b + 1 <= b + Len(s)
  BY <1>1, Behead DEF Begin
<1>3. /\ (b + 1) + sizes[s[1]] \in b + 1 .. b + Len(s)
      /\ IsGroup(s, b, b + 1, (b + 1) + sizes[s[1]])
  BY <1>1, <1>2, GroupInside
<1>4. (b + 1) + sizes[s[1]] = b + (sizes[s[1]] + 1)
  BY <1>2
<1>5. sizes[s[1]] + 1 \in 1 .. Len(s)
  BY <1>2, <1>3
<1> QED
  BY <1>2, <1>3, <1>4, <1>5

\* Only the sizes of the frames in the list matter.
LEMMA OtherSizes ==
  ASSUME NEW S, NEW s \in Seq(S), NEW b \in Int, NEW sizes, NEW others,
         Grouped(s, b, sizes), \A k \in 1 .. Len(s) : others[s[k]] = sizes[s[k]]
  PROVE  Grouped(s, b, others)
<1>1. PICK heads : Begin(s, b, sizes, heads)
  BY DEF Grouped
<1>2. \A x \in heads : x <= b + Len(s) => x - b \in 1 .. Len(s)
  BY <1>1 DEF Begin
<1>3. Begin(s, b, others, heads)
  BY <1>1, <1>2 DEF Begin
<1> QED
  BY <1>3 DEF Grouped

\* The list without its first group.
LEMMA RestGrouped ==
  ASSUME NEW S, NEW s \in Seq(S), NEW b \in Int, NEW sizes \in [S -> Nat],
         Grouped(s, b, sizes), s # <<>>
  PROVE  Grouped(Rest(s, sizes[s[1]] + 1), b + (sizes[s[1]] + 1), sizes)
<1> DEFINE g == sizes[s[1]] + 1
           u == Rest(s, g)
           n == Len(s)
<1>1. PICK heads : Begin(s, b, sizes, heads)
  BY DEF Grouped
<1>2. /\ n \in Nat /\ s[1] \in S /\ \A k \in 1 .. n : s[k] \in S
      /\ g \in 1 .. n /\ g \in Nat /\ IsGroup(s, b, b + 1, b + g)
      /\ sizes[s[1]] \in Nat
  BY FirstGroup
<1> HIDE DEF g, n
<1>3. Len(u) = n - g /\ \A k \in 1 .. n - g : u[k] = s[g + k]
  <2>1. g \in 0 .. Len(s)
    BY <1>2 DEF n
  <2> QED
    BY <2>1, Split DEF n
<1> HIDE DEF u
<1>4. \A f \in b + g + 1 .. b + n : u[f - (b + g)] = s[f - b]
  <2>1. \A f \in b + g + 1 .. b + n :
          f - (b + g) \in 1 .. n - g /\ g + (f - (b + g)) = f - b
    BY <1>2
  <2> QED
    BY <1>3, <2>1
<1>5. b + g \in Int /\ (b + g) + Len(u) = b + n
  BY <1>2, <1>3
<1>6. Permutes(u, b + g, (b + g) + 1, (b + g) + Len(u))
  <2>1. Permutes(s, b, b + 1, b + n) /\ Permutes(s, b, b + 1, b + g)
    BY <1>2 DEF Grouped, IsGroup, n
  <2>2. Permutes(s, b, b + g + 1, b + n)
    BY <1>2, <2>1, PermutesCut
  <2>3. b + g + 1 \in Int /\ b + n \in Int
    BY <1>2
  <2>4. Alike(s, b, u, b + g, b + g + 1, b + n)
    BY <1>4 DEF Alike
  <2>5. Permutes(u, b + g, b + g + 1, b + n)
    BY <1>5, <2>2, <2>3, <2>4, SamePlaces
  <2> QED
    BY <1>5, <2>5
<1> DEFINE later == {x \in heads : x > b + g}
<1>7. later \subseteq (b + g) + 1 .. (b + g) + Len(u) + 1 /\ (b + g) + 1 \in later
  <2>1. /\ \A x \in heads : x \in b + 1 .. b + n + 1
        /\ b + 1 \in heads /\ (b + 1) - b = 1 /\ b + 1 <= b + n
        /\ b + 1 + sizes[s[1]] + 1 \in heads
    <3>1. (b + 1) - b = 1 /\ b + 1 <= b + n
      BY <1>2
    <3> QED
      BY <1>1, <3>1 DEF Begin, n
  <2>2. b + 1 + sizes[s[1]] + 1 = (b + g) + 1
    BY <1>2, SMTT(30) DEF g
  <2>3. (b + g) + 1 \in later
    BY <1>2, <2>1, <2>2
  <2>4. \A x \in heads :
          x > b + g => x \in (b + g) + 1 .. (b + g) + Len(u) + 1
    BY <1>2, <1>5, <2>1, SMTT(30)
  <2> QED
    BY <2>3, <2>4
<1>8. ASSUME NEW x \in later, x <= (b + g) + Len(u)
      PROVE  /\ x + sizes[u[x - (b + g)]] + 1 \in later
             /\ IsGroup(u, b + g, x, x + sizes[u[x - (b + g)]])
  <2> DEFINE y == x + sizes[s[x - b]]
  <2>1. x \in heads /\ x \in Int /\ x \in b + g + 1 .. b + n
    BY <1>1, <1>2, <1>5, <1>7, <1>8
  <2>2. u[x - (b + g)] = s[x - b] /\ sizes[s[x - b]] \in Nat
    <3>1. x - b \in 1 .. n
      BY <1>2, <2>1
    <3> QED
      BY <1>2, <1>4, <2>1, <3>1
  <2>3. y \in x .. b + n /\ y + 1 \in heads /\ IsGroup(s, b, x, y)
    <3>1. x <= b + Len(s)
      BY <1>2, <2>1 DEF n
    <3>2. /\ x + sizes[s[x - b]] \in x .. b + Len(s)
          /\ x + sizes[s[x - b]] + 1 \in heads
          /\ IsGroup(s, b, x, x + sizes[s[x - b]])
      BY <1>1, <2>1, <2>2, <3>1, GroupInside
    <3> QED
      BY <3>2 DEF n
  <2> HIDE DEF y
  <2>4. y \in Int /\ \A f \in x .. y : f \in b + g + 1 .. b + n
    BY <1>2, <2>1, <2>3
  <2>5. Alike(s, b, u, b + g, x, y)
    BY <1>4, <2>4 DEF Alike
  <2>6. IsGroup(u, b + g, x, y)
    BY <1>5, <2>1, <2>3, <2>4, <2>5, SamePlaces
  <2>7. y + 1 \in later
    BY <1>5, <2>1, <2>3, <2>4
  <2> QED
    BY <2>2, <2>6, <2>7 DEF y
<1>9. Begin(u, b + g, sizes, later)
  BY <1>7, <1>8 DEF Begin
<1> QED
  BY <1>6, <1>9 DEF Grouped, u, g

\* The list with another group behind it.
LEMMA GroupAdded ==
  ASSUME NEW S, NEW s \in Seq(S), NEW u \in Seq(S), NEW b \in Int,
         NEW sizes \in [S -> Nat], Grouped(s, b, sizes),
         NEW g \in 1 .. Len(u), sizes[u[1]] = g - 1,
         IsGroup(u, b + Len(s), b + Len(s) + 1, b + Len(s) + g)
  PROVE  Grouped(s \o First(u, g), b, sizes)
<1> DEFINE n == Len(s)
           v == s \o First(u, g)
<1>1. PICK heads : Begin(s, b, sizes, heads)
  BY DEF Grouped
<1>2. /\ n \in Nat /\ (\A k \in 1 .. n : s[k] \in S)
      /\ g \in Nat /\ g > 0 /\ b + n \in Int /\ b + n + g \in Int
  OBVIOUS
<1>3. /\ Len(v) = n + g /\ \A k \in 1 .. n : v[k] = s[k]
      /\ \A k \in 1 .. g : v[n + k] = u[k]
  <2>1. /\ First(u, g) \in Seq(S) /\ Len(First(u, g)) = g
        /\ \A k \in 1 .. g : First(u, g)[k] = u[k]
    <3>1. g \in 0 .. Len(u)
      OBVIOUS
    <3> QED
      BY <3>1, Split
  <2> DEFINE w == First(u, g)
  <2>2. w \in Seq(S)
    BY <2>1
  <2> HIDE DEF w
  <2>3. /\ Len(s \o w) = n + Len(w) /\ \A k \in 1 .. n : (s \o w)[k] = s[k]
        /\ \A k \in 1 .. Len(w) : (s \o w)[n + k] = w[k]
    BY <2>2, Join
  <2> QED
    BY <2>1, <2>3 DEF w
<1>4. /\ Permutes(s, b, b + 1, b + n)
      /\ IsGroup(u, b + n, b + n + 1, b + n + g)
      /\ \A x \in heads : x \in b + 1 .. b + n + 1
      /\ b + 1 \in heads
  BY <1>1 DEF Grouped, Begin
<1> HIDE DEF n, v
<1>5. \A f \in b + 1 .. b + n : v[f - b] = s[f - b]
  <2>1. \A f \in b + 1 .. b + n : f - b \in 1 .. n
    BY <1>2
  <2> QED
    BY <1>3, <2>1
<1>6. IsGroup(v, b, b + n + 1, b + n + g)
  <2>1. \A f \in b + n + 1 .. b + n + g :
          f - (b + n) \in 1 .. g /\ n + (f - (b + n)) = f - b
    BY <1>2
  <2>2. Alike(u, b + n, v, b, b + n + 1, b + n + g)
    BY <1>3, <2>1 DEF Alike
  <2>3. b + n + 1 \in Int
    BY <1>2
  <2> QED
    BY <1>2, <1>4, <2>2, <2>3, SamePlaces
<1>7. Permutes(v, b, b + 1, b + Len(v))
  <2>1. Alike(s, b, v, b, b + 1, b + n) /\ b + 1 \in Int
    BY <1>5, SMTT(30) DEF Alike
  <2>2. Permutes(v, b, b + 1, b + n)
    BY <1>2, <1>4, <2>1, SamePlaces
  <2>3. Permutes(v, b, b + n + 1, b + n + g)
    BY <1>6 DEF IsGroup
  <2>4. b + 1 <= (b + n) + 1 /\ b + n <= b + n + g /\ b + Len(v) = b + n + g
    BY <1>2, <1>3
  <2> QED
    BY <1>2, <2>1, <2>2, <2>3, <2>4, PermutesJoined
<1> DEFINE more == heads \cup {b + n + 1, b + n + g + 1}
<1>8. more \subseteq b + 1 .. b + Len(v) + 1 /\ b + 1 \in more
  <2>1. b + Len(v) + 1 = b + n + g + 1
    BY <1>2, <1>3
  <2>2. \A x \in b + 1 .. b + n + 1 : x \in b + 1 .. b + n + g + 1
    BY <1>2
  <2>3. /\ b + n + 1 \in b + 1 .. b + n + g + 1
        /\ b + n + g + 1 \in b + 1 .. b + n + g + 1
    BY <1>2
  <2> QED
    BY <1>4, <2>1, <2>2, <2>3
<1>9. ASSUME NEW x \in more, x <= b + Len(v)
      PROVE  /\ x + sizes[v[x - b]] + 1 \in more
             /\ IsGroup(v, b, x, x + sizes[v[x - b]])
  <2>1. CASE x = b + n + 1
    <3>1. v[x - b] = u[1]
      <4>1. x - b = n + 1 /\ 1 \in 1 .. g
        BY <1>2, <2>1
      <4> QED
        BY <1>3, <4>1
    <3>2. x + (g - 1) = b + n + g
      BY <1>2, <2>1
    <3> QED
      BY <1>6, <2>1, <3>1, <3>2
  <2>2. CASE x # b + n + 1
    <3>1. x \in heads /\ x \in b + 1 .. b + n
      <4>1. x # b + n + g + 1
        BY <1>2, <1>3, <1>9
      <4>2. x \in heads
        BY <2>2, <4>1
      <4>3. x \in b + 1 .. b + n + 1
        BY <1>4, <4>2
      <4> QED
        BY <1>2, <2>2, <4>2, <4>3, SMTT(30)
    <3> DEFINE y == x + sizes[s[x - b]]
    <3>2. v[x - b] = s[x - b] /\ sizes[s[x - b]] \in Nat
      <4>1. x - b \in 1 .. n
        <5>1. n \in Nat
          BY <1>2
        <5> QED
          BY <3>1, <5>1
      <4> QED
        BY <1>2, <1>5, <3>1, <4>1
    <3>3. y \in x .. b + n /\ y + 1 \in heads /\ IsGroup(s, b, x, y)
      <4>1. x <= b + Len(s)
        BY <1>2, <3>1 DEF n
      <4>2. /\ x + sizes[s[x - b]] \in x .. b + Len(s)
            /\ x + sizes[s[x - b]] + 1 \in heads
            /\ IsGroup(s, b, x, x + sizes[s[x - b]])
        BY <1>1, <3>1, <3>2, <4>1, GroupInside
      <4> QED
        BY <4>2 DEF n
    <3> HIDE DEF y
    <3>4. y \in Int /\ x \in Int /\ \A f \in x .. y : f \in b + 1 .. b + n
      <4>1. n \in Nat /\ x \in b + 1 .. b + n /\ y \in x .. b + n
        BY <1>2, <3>1, <3>3
      <4> QED
        BY <4>1
    <3>5. Alike(s, b, v, b, x, y)
      BY <1>5, <3>4 DEF Alike
    <3>6. IsGroup(v, b, x, y)
      BY <3>3, <3>4, <3>5, SamePlaces
    <3> QED
      BY <3>2, <3>3, <3>6 DEF y
  <2> QED
    BY <2>1, <2>2
<1>10. Begin(v, b, sizes, more)
  BY <1>8, <1>9 DEF Begin
<1> QED
  BY <1>7, <1>10 DEF Grouped, v

\* Frames in line, cut in two.
LEMMA LinedParts ==
  ASSUME NEW S, NEW s \in Seq(S), NEW b \in Int, NEW n \in 0 .. Len(s),
         Behind(s, b, n)
  PROVE  Lined(Rest(s, n), b + n)
<1>1. /\ Len(Rest(s, n)) = Len(s) - n
      /\ \A k \in 1 .. Len(s) - n : Rest(s, n)[k] = s[n + k]
  BY Split
<1>2. Len(s) \in Nat /\ n \in Nat
  OBVIOUS
<1>3. \A k \in 1 .. Len(s) - n : n + k \in 1 .. Len(s) /\ n + k > n
  BY <1>2
<1>4. \A k \in 1 .. Len(s) - n : Rest(s, n)[k] = b + n + k
  BY <1>1, <1>2, <1>3 DEF Behind
<1> QED
  BY <1>1, <1>4 DEF Lined

\* ... and joined.
LEMMA LinedJoined ==
  ASSUME NEW S, NEW s \in Seq(S), NEW w \in Seq(S), NEW b \in Int,
         NEW n \in 0 .. Len(w), Lined(s, b), Lined(w, b + Len(s))
  PROVE  /\ Lined(s \o First(w, n), b) /\ Len(s \o First(w, n)) = Len(s) + n
         /\ Lined(s \o w, b) /\ Len(s \o w) = Len(s) + Len(w)
<1>1. ASSUME NEW v \in Seq(S), Lined(v, b + Len(s))
      PROVE  Lined(s \o v, b) /\ Len(s \o v) = Len(s) + Len(v)
  <2>1. /\ Len(s \o v) = Len(s) + Len(v)
        /\ \A k \in 1 .. Len(s) : (s \o v)[k] = s[k]
        /\ \A k \in 1 .. Len(v) : (s \o v)[Len(s) + k] = v[k]
    BY Join
  <2>2. Len(s) \in Nat /\ Len(v) \in Nat
    OBVIOUS
  <2>3. ASSUME NEW k \in 1 .. Len(s) + Len(v)
        PROVE  (s \o v)[k] = b + k
    <3>1. CASE k \in 1 .. Len(s)
      BY <2>1, <3>1 DEF Lined
    <3>2. CASE k \notin 1 .. Len(s)
      <4>1. k - Len(s) \in 1 .. Len(v) /\ Len(s) + (k - Len(s)) = k
        BY <2>2, <3>2
      <4>2. (s \o v)[k] = b + Len(s) + (k - Len(s))
        BY <1>1, <2>1, <4>1 DEF Lined
      <4> QED
        BY <2>2, <4>2
    <3> QED
      BY <3>1, <3>2
  <2> QED
    BY <2>1, <2>3 DEF Lined
<1>2. /\ First(w, n) \in Seq(S) /\ Len(First(w, n)) = n
      /\ \A k \in 1 .. n : First(w, n)[k] = w[k]
  BY Split
<1>3. Lined(First(w, n), b + Len(s))
  <2>1. \A k \in 1 .. n : k \in 1 .. Len(w)
    OBVIOUS
  <2> QED
    BY <1>2, <2>1 DEF Lined
<1>4. Lined(s \o First(w, n), b) /\ Len(s \o First(w, n)) = Len(s) + n
  BY <1>1, <1>2, <1>3
<1> QED
  BY <1>1, <1>4

\* Frames in line, put into an order in which a group is encoded.
LEMMA GroupOrdered ==
  ASSUME NEW n \in Nat, NEW p \in CodedOrders(n), NEW b \in Int, NEW u,
         \A i \in 1 .. n + 1 : u[i] = b + p[i]
  PROVE  IsGroup(u, b, b + 1, b + (n + 1))
<1>1. /\ \A i \in 1 .. n + 1 : p[i] \in 1 .. n + 1
      /\ \A v \in 1 .. n + 1 : \E i \in 1 .. n + 1 : p[i] = v
      /\ \A i, j \in 1 .. n + 1 : p[i] = p[j] => i = j
      /\ p[1] = n + 1
  BY OrderIsOnto
<1>2. \A f \in b + 1 .. b + (n + 1) :
        f - b \in 1 .. n + 1 /\ u[f - b] = b + p[f - b] /\ p[f - b] \in Int
  <2>1. \A f \in b + 1 .. b + (n + 1) : f - b \in 1 .. n + 1
    OBVIOUS
  <2> QED
    BY <1>1, <2>1
<1>3. ASSUME NEW f \in b + 1 .. b + (n + 1)
      PROVE  u[f - b] \in b + 1 .. b + (n + 1)
  <2> DEFINE v == p[f - b]
  <2>1. v \in 1 .. n + 1 /\ u[f - b] = b + v
    BY <1>1, <1>2
  <2> HIDE DEF v
  <2>2. b + v \in b + 1 .. b + (n + 1)
    BY <2>1
  <2> QED
    BY <2>1, <2>2
<1>4. ASSUME NEW h \in b + 1 .. b + (n + 1)
      PROVE  \E f \in b + 1 .. b + (n + 1) : u[f - b] = h
  <2>1. h - b \in 1 .. n + 1
    OBVIOUS
  <2>2. PICK i \in 1 .. n + 1 : p[i] = h - b
    BY <1>1, <2>1
  <2>3. b + i \in b + 1 .. b + (n + 1) /\ (b + i) - b = i /\ b + (h - b) = h
    OBVIOUS
  <2> QED
    BY <2>2, <2>3
<1>5. ASSUME NEW f \in b + 1 .. b + (n + 1), NEW h \in b + 1 .. b + (n + 1),
             u[f - b] = u[h - b]
      PROVE  f = h
  <2> DEFINE v == p[f - b]
             w == p[h - b]
  <2>1. u[f - b] = b + v /\ u[h - b] = b + w /\ v \in Int /\ w \in Int
    BY <1>2
  <2> HIDE DEF v, w
  <2>2. b + v = b + w
    BY <1>5, <2>1
  <2>3. v = w
    BY <2>1, <2>2
  <2>4. p[f - b] = p[h - b]
    BY <2>3 DEF v, w
  <2>5. f - b = h - b
    BY <1>1, <1>2, <2>4
  <2> QED
    BY <2>5
<1>6. b + 1 <= b + (n + 1) /\ (b + 1) - b = 1 /\ 1 \in 1 .. n + 1
  OBVIOUS
<1>7. u[(b + 1) - b] = b + (n + 1)
  BY <1>1, <1>6
<1> QED
  BY <1>3, <1>4, <1>5, <1>6, <1>7 DEF IsGroup, Permutes

----------------------------------------------------------------------------
(* Steps that move frames *)

\* The numbers the invariant speaks of.
LEMMA Numbers ==
  ASSUME TypeOK
  PROVE  /\ param \in Params /\ param.bframes \in Nat
         /\ param.slicetype_length \in Nat /\ param.sync \in Nat
         /\ param.vfr \in 0 .. 1 /\ param.threads \in Nat /\ param.threads > 0
         /\ param.bframes <= param.slicetype_length
         /\ param.threads = 1 => param.sync = 0
         /\ MaxFrames \in Nat /\ i_input \in Nat /\ coded \in Nat
         /\ coded <= i_input /\ received \in Nat /\ received <= coded
         /\ anchor \in Nat /\ i_thread_phase \in Nat
         /\ Len(current) \in Nat /\ Len(ifbuf) \in Nat /\ Len(next) \in Nat
         /\ Len(ofbuf) \in Nat
<1>1. /\ param \in Params /\ param \in Param
      /\ param.slicetype_length >= param.bframes /\ param.threads > 0
      /\ param.threads = 1 => param.sync = 0
      /\ MaxFrames \in Nat
  BY ParamsAssumption DEF TypeOK
<1>2. /\ param.bframes \in Nat /\ param.slicetype_length \in Nat
      /\ param.sync \in Nat /\ param.vfr \in 0 .. 1 /\ param.threads \in Nat
  BY <1>1 DEF Param
<1>3. /\ i_input \in Nat /\ coded \in Nat
      /\ coded <= i_input /\ received \in Nat /\ received <= coded
      /\ anchor \in Nat
  BY <1>1 DEF TypeOK
<1>4. i_thread_phase \in Nat
  BY <1>2 DEF TypeOK, Threads
<1>5. /\ Len(current) \in Nat /\ Len(ifbuf) \in Nat /\ Len(next) \in Nat
      /\ Len(ofbuf) \in Nat
  BY DEF TypeOK
<1> QED
  BY <1>1, <1>2, <1>3, <1>4, <1>5

Positions == <<Taken, Offered, Seen>>

\* The positions are numbers.
LEMMA PositionTypes ==
  ASSUME TypeOK
  PROVE  /\ Taken \in Nat /\ Offered \in Nat /\ Seen \in Nat
         /\ coded <= Taken /\ Taken <= Offered /\ Offered <= Seen
<1>1. /\ coded \in Nat /\ Len(current) \in Nat /\ Len(ofbuf) \in Nat
      /\ Len(next) \in Nat
  BY Numbers
<1> QED
  BY <1>1 DEF Taken, Offered, Seen

\* Steps that move no frame but may hand one in.
LEMMA ListsStay ==
  ASSUME TypeOK, Lists, Held' = Held,
         UNCHANGED <<param, ifbuf, next, ofbuf, i_bframes, current, coded,
                     anchor>>,
         \/ i_input' = i_input /\ Pushing' = Pushing
         \/ i_input' = i_input + 1 /\ ~Pushing /\ Pushing'
  PROVE  Lists'
<1>1. UNCHANGED Positions
  BY DEF Positions, Taken, Offered, Seen
<1>2. Conserved'
  <2>1. Seen \in Nat /\ Len(ifbuf) \in Nat /\ i_input \in Nat
    BY Numbers, PositionTypes
  <2>2. Seen' = Seen /\ ifbuf' = ifbuf
    BY <1>1 DEF Positions
  <2> QED
    BY <2>1, <2>2 DEF Lists, Conserved
<1>3. Lined(ifbuf, Seen)' /\ Grouped(ofbuf, Taken, i_bframes)'
  BY <1>1 DEF Lists, Positions
<1>4. NextOK'
  BY <1>1 DEF Lists, Positions, NextOK, GroupSize
<1>5. CurrentOK'
  BY <1>1 DEF Lists, Positions, CurrentOK
<1> QED
  BY <1>2, <1>3, <1>4, <1>5 DEF Lists

\* A frame is put into ifbuf or next.
LEMMA PutLists ==
  ASSUME TypeOK, Lists, Steps, PutFrame
  PROVE  Lists' /\ i_input \in Frames
<1>1. /\ UNCHANGED <<param, ofbuf, i_bframes, current, coded, anchor, i_input>>
      /\ encoder = "pushing" /\ ~Pushing'
      /\ Held' = Held /\ UNCHANGED <<Taken, Offered>>
  BY DEF PutFrame, frames, IfbufFilled, Held, Pushing, Taken, Offered
<1>2. Seen + Len(ifbuf) + 1 = i_input /\ i_input \in Frames
  <2>1. Seen + Len(ifbuf) + 1 = i_input
    BY <1>1 DEF Lists, Conserved, Pushing
  <2>2. i_input \in 1 .. MaxFrames
    BY <2>1, Numbers, PositionTypes DEF TypeOK
  <2> QED
    BY <2>1, <2>2 DEF Frames
<1>3. Grouped(ofbuf, Taken, i_bframes)' /\ CurrentOK'
  BY <1>1 DEF Lists, CurrentOK
<1>4. CASE Threaded
  <2>1. ifbuf' = Append(ifbuf, i_input) /\ next' = next /\ ifbuf \in Seq(Frames)
    BY <1>4 DEF PutFrame, TypeOK
  <2>2. /\ Len(ifbuf') = Len(ifbuf) + 1
        /\ \A k \in 1 .. Len(ifbuf) : ifbuf'[k] = ifbuf[k]
        /\ ifbuf'[Len(ifbuf) + 1] = i_input
    BY <2>1, <1>2, Appended
  <2>3. Seen' = Seen
    BY <1>1, <2>1 DEF Seen
  <2>4. Conserved'
    BY <1>1, <1>2, <2>2, <2>3, Numbers, PositionTypes DEF Conserved
  <2>5. Lined(ifbuf, Seen)'
    <3>1. Lined(ifbuf, Seen) /\ Len(ifbuf) \in Nat /\ Seen \in Nat
      BY Numbers, PositionTypes DEF Lists
    <3>2. \A k \in 1 .. Len(ifbuf') : ifbuf'[k] = Seen + k
      BY <1>2, <2>2, <3>1 DEF Lined
    <3> QED
      BY <2>3, <3>2 DEF Lined
  <2>6. NextOK'
    BY <1>1, <2>1 DEF Lists, NextOK, GroupSize
  <2> QED
    BY <1>2, <1>3, <2>4, <2>5, <2>6 DEF Lists
<1>5. CASE ~Threaded
  <2>1. /\ next' = Append(next, i_input) /\ ifbuf' = <<>> /\ ifbuf = <<>>
        /\ ~Held /\ next \in Seq(Frames)
    BY <1>5 DEF PutFrame, TypeOK, Steps, Held
  <2>2. /\ Len(next') = Len(next) + 1
        /\ \A k \in 1 .. Len(next) : next'[k] = next[k]
        /\ next'[Len(next) + 1] = i_input
    BY <2>1, <1>2, Appended
  <2>3. Seen' = Seen + 1 /\ Len(<<>>) = 0
    BY <1>1, <2>2, Numbers, PositionTypes DEF Seen
  <2>4. Conserved'
    BY <1>1, <1>2, <2>1, <2>3, Numbers, PositionTypes DEF Conserved
  <2>5. Lined(ifbuf, Seen)'
    BY <2>1, <2>3 DEF Lined
  <2>6. NextOK'
    <3>1. Lined(next, Offered) /\ Len(next) \in Nat /\ Offered \in Nat
      BY <2>1, Numbers, PositionTypes DEF Lists, NextOK
    <3>2. i_input = Offered + Len(next) + 1
      BY <1>2, <2>1, <2>3, <3>1, Numbers DEF Seen
    <3>3. \A k \in 1 .. Len(next') : next'[k] = Offered + k
      BY <2>2, <3>1, <3>2 DEF Lined
    <3> QED
      BY <1>1, <2>1, <3>3 DEF NextOK, Lined
  <2> QED
    BY <1>2, <1>3, <2>4, <2>5, <2>6 DEF Lists
<1> QED
  BY <1>2, <1>4, <1>5

\* A group is taken from ofbuf.
LEMMA GetLists ==
  ASSUME TypeOK, Lists, Steps, GetFrames
  PROVE  Lists' /\ current' \in Seq(Frames) /\ ofbuf' \in Seq(Frames)
<1>1. /\ UNCHANGED <<param, i_input, next, ifbuf, coded, anchor>>
      /\ encoder = "getting" /\ encoder' = "taking" /\ current = <<>>
      /\ ~Pushing /\ ~Pushing'
  BY DEF GetFrames, Steps, Pushing
<1>2. CASE ofbuf = <<>>
  <2>1. UNCHANGED <<current, ofbuf, i_bframes, looker>>
    BY <1>2 DEF GetFrames
  <2>2. Held' = Held
    BY <2>1 DEF Held
  <2>3. Pushing' = Pushing
    BY <1>1 DEF Pushing
  <2>4. UNCHANGED <<param, ifbuf, next, ofbuf, i_bframes, current, coded, anchor>>
    BY <1>1, <2>1
  <2> QED
    BY <1>1, <2>1, <2>2, <2>3, <2>4, ListsStay DEF TypeOK
<1>3. CASE ofbuf # <<>>
  <2> DEFINE g == i_bframes[ofbuf[1]] + 1
             n == Len(ofbuf)
  <2>1. /\ current' = First(ofbuf, g) /\ ofbuf' = Rest(ofbuf, g)
        /\ i_bframes' = [i_bframes EXCEPT ![ofbuf[1]] = 0]
        /\ Held' = Held
    <3>1. Head(ofbuf) = ofbuf[1]
      BY <1>3, Behead DEF TypeOK
    <3> QED
      BY <1>3, <3>1 DEF GetFrames, GroupSize, Held, OfbufEmptied
  <2>2. /\ ofbuf \in Seq(Frames) /\ i_bframes \in [Frames -> Nat]
        /\ \A f \in Frames : i_bframes[f] <= param.bframes
        /\ param.bframes \in Nat
        /\ coded \in Nat /\ Taken = coded /\ Len(<<>>) = 0
    <3>1. \A f \in Frames : i_bframes[f] \in 0 .. param.bframes
      BY DEF TypeOK
    <3>2. param.bframes \in Nat /\ coded \in Nat
      BY Numbers
    <3>3. \A f \in Frames : i_bframes[f] \in Nat
      BY <3>1, <3>2
    <3> QED
      BY <1>1, <3>1, <3>2, <3>3 DEF Taken, TypeOK
  <2>3. /\ Grouped(ofbuf, coded, i_bframes)
        /\ Permutes(ofbuf, coded, coded + 1, coded + Len(ofbuf))
    BY <2>2 DEF Lists, Grouped
  <2>4. /\ ofbuf[1] \in Frames /\ g \in 1 .. n
        /\ IsGroup(ofbuf, coded, coded + 1, coded + g)
        /\ g <= param.bframes + 1
    BY <1>3, <2>2, <2>3, FirstGroup
  <2>5. Grouped(Rest(ofbuf, g), coded + g, i_bframes)
    BY <1>3, <2>2, <2>3, RestGrouped
  <2>6. n \in Nat /\ g \in Nat /\ coded + g \in Int
    BY <2>2, <2>4
  <2> HIDE DEF g
  <2>7. /\ current' \in Seq(Frames) /\ Len(current') = g
        /\ \A k \in 1 .. g : current'[k] = ofbuf[k]
        /\ ofbuf' \in Seq(Frames) /\ Len(ofbuf') = n - g
        /\ \A k \in 1 .. n - g : ofbuf'[k] = ofbuf[g + k]
    <3>1. g \in 0 .. Len(ofbuf)
      BY <2>4
    <3> QED
      BY <2>1, <2>2, <3>1, Split, ZenonT(40)
  <2>8. Taken' = coded + g /\ Offered' = Offered /\ Seen' = Seen
    <3>1. Taken' = coded + g
      BY <1>1, <2>7 DEF Taken
    <3>2. Offered' = Offered /\ Offered \in Nat
      BY <2>2, <2>6, <2>7, <3>1 DEF Offered
    <3> QED
      BY <1>1, <3>1, <3>2 DEF Seen
  <2>9. /\ \A k \in 1 .. n : ofbuf[k] \in coded + 1 .. coded + n
        /\ \A j, k \in 1 .. n : ofbuf[j] = ofbuf[k] => j = k
    BY <2>2, <2>3, <2>6, Listed
  <2>10. Grouped(ofbuf', Taken', i_bframes')
    <3>1. ASSUME NEW k \in 1 .. n - g
          PROVE  i_bframes'[ofbuf'[k]] = i_bframes[ofbuf'[k]]
      <4>1. g + k \in 1 .. n /\ 1 \in 1 .. n /\ g + k # 1
        BY <2>4, <2>6
      <4>2. ofbuf[g + k] # ofbuf[1] /\ ofbuf[g + k] \in Frames
        BY <2>2, <2>9, <4>1
      <4>3. ofbuf'[k] = ofbuf[g + k]
        BY <2>7
      <4> QED
        BY <2>1, <2>2, <4>2, <4>3
    <3>2. Grouped(ofbuf', coded + g, i_bframes)
      BY <2>1, <2>5
    <3>3. Grouped(ofbuf', coded + g, i_bframes')
      BY <2>6, <2>7, <3>1, <3>2, OtherSizes
    <3> QED
      BY <2>8, <3>3
  <2>11. NextOK'
    <3>1. CASE Held
      <4>1. /\ Decided(next, Offered, GroupSize(next)) /\ next \in Seq(Frames)
            /\ Offered \in Nat /\ Offered = coded + n
        BY <2>2, <3>1, PositionTypes DEF Lists, NextOK, TypeOK, Offered
      <4>2. Head(next) \in Frames /\ Head(next) = next[1]
        BY <4>1, Behead DEF Decided
      <4>3. next[1] = Offered + GroupSize(next) /\ GroupSize(next) \in Nat
            /\ GroupSize(next) > 0
        <5>1. next[(Offered + 1) - Offered] = Offered + GroupSize(next)
          BY <4>1 DEF Decided, IsGroup
        <5>2. (Offered + 1) - Offered = 1
          BY <4>1
        <5>3. i_bframes[Head(next)] \in Nat
          BY <2>2, <4>2
        <5> QED
          BY <5>1, <5>2, <5>3 DEF GroupSize
      <4>4. ofbuf[1] \in coded + 1 .. coded + n
        BY <2>4, <2>6, <2>9
      <4>5. Head(next) # ofbuf[1]
        BY <2>2, <2>6, <4>1, <4>2, <4>3, <4>4
      <4>6. GroupSize(next)' = GroupSize(next)
        BY <1>1, <2>1, <2>2, <4>2, <4>5 DEF GroupSize
      <4> QED
        BY <1>1, <2>1, <2>8, <3>1, <4>1, <4>6 DEF NextOK
    <3>2. CASE ~Held
      BY <1>1, <2>1, <2>8, <3>2 DEF NextOK, Lists
    <3> QED
      BY <3>1, <3>2
  <2>12. CurrentOK'
    <3>1. anchor = coded
      BY <2>2 DEF Lists, CurrentOK
    <3>2. Alike(ofbuf, coded, current', coded, coded + 1, coded + g)
      <4>1. \A f \in coded + 1 .. coded + g : f - coded \in 1 .. g
        BY <2>2, <2>6
      <4> QED
        BY <2>7, <4>1 DEF Alike
    <3>3. IsGroup(current', coded, coded + 1, coded + g)
      BY <2>2, <2>4, <2>6, <3>2, SamePlaces
    <3> QED
      BY <1>1, <2>4, <2>7, <2>8, <3>1, <3>3 DEF CurrentOK
  <2>13. Conserved' /\ Lined(ifbuf, Seen)'
    BY <1>1, <2>8 DEF Lists, Conserved
  <2> QED
    BY <2>7, <2>10, <2>11, <2>12, <2>13 DEF Lists
<1> QED
  BY <1>2, <1>3

\* How many frames the lists hold, and how many fit.
LEMMA Room ==
  ASSUME TypeOK, Lists, Bounded
  PROVE  /\ Len(current) + Len(ofbuf) + Len(next) + Len(ifbuf) <= i_input - coded
         /\ i_input - coded <= Fill + 1
         /\ Fill \in Nat /\ Fill = i_delay + 1 - param.threads
         /\ i_delay \in Nat /\ NextMax = i_delay + 3 /\ OfbufMax = i_delay + 3
<1>1. /\ i_input \in Nat /\ coded \in Nat /\ Len(current) \in Nat
      /\ Len(ofbuf) \in Nat /\ Len(next) \in Nat /\ Len(ifbuf) \in Nat
  BY Numbers
<1>2. Seen + Len(ifbuf) <= i_input
  <2>1. Seen + Len(ifbuf) + (IF Pushing THEN 1 ELSE 0) = i_input /\ Seen \in Nat
    BY PositionTypes DEF Lists, Conserved
  <2> QED
    BY <1>1, <2>1
<1>3. Len(current) + Len(ofbuf) + Len(next) + Len(ifbuf) <= i_input - coded
  BY <1>1, <1>2 DEF Seen, Offered, Taken
<1>4. /\ i_delay \in Nat /\ Fill \in Nat /\ Fill = i_delay + 1 - param.threads
      /\ NextMax = i_delay + 3 /\ OfbufMax = i_delay + 3
  <2>1. /\ param.slicetype_length \in Nat /\ param.threads \in Nat
        /\ param.threads > 0 /\ param.sync \in Nat /\ param.vfr \in 0 .. 1
    BY Numbers
  <2> QED
    BY <2>1 DEF i_delay, Fill, NextMax, OfbufMax
<1>5. i_input - coded <= Fill + 1
  BY <1>1, <1>4 DEF Bounded
<1> QED
  BY <1>3, <1>4, <1>5

\* A group is decided and taken without the lookahead thread.
LEMMA DecideFramesLists ==
  ASSUME TypeOK, Lists, Steps, DecideFrames
  PROVE  Lists' /\ current' \in Seq(Frames)
<1>1. /\ UNCHANGED <<param, i_input, ifbuf, ofbuf, i_bframes, coded, anchor>>
      /\ encoder = "getting" /\ encoder' = "taking" /\ current = <<>>
      /\ Pushing' = Pushing /\ Held' = Held /\ ~Held
  BY DEF DecideFrames, Steps, Pushing, Held
<1>2. ofbuf = <<>> /\ ifbuf = <<>>
  BY DEF DecideFrames, Steps
<1>3. CASE next = <<>>
  <2>1. UNCHANGED <<current, next>>
    BY <1>3 DEF DecideFrames
  <2>2. UNCHANGED <<param, ifbuf, next, ofbuf, i_bframes, current, coded, anchor>>
    BY <1>1, <2>1
  <2> QED
    BY <1>1, <2>1, <2>2, ListsStay DEF TypeOK
<1>4. CASE next # <<>>
  <2>13. PICK n \in 0 .. param.bframes : \E p \in CodedOrders(n) :
           /\ Decidable(n, p)
           /\ current' = Group(n, p) /\ next' = Rest(next, n + 1)
    BY <1>4 DEF DecideFrames
  <2>1. PICK p \in CodedOrders(n) :
          /\ Decidable(n, p)
          /\ current' = Group(n, p) /\ next' = Rest(next, n + 1)
    BY <2>13
  <2>2. n \in Nat /\ n <= param.bframes /\ n + 1 \in 0 .. Len(next) /\ n + 1 \in Nat
    BY <2>1, Numbers DEF Decidable
  <2>3. /\ next \in Seq(Frames) /\ Lined(next, coded)
        /\ coded \in Nat /\ Taken = coded /\ Offered = coded
        /\ Len(next) \in Nat
    <3>1. Len(<<>>) = 0
      OBVIOUS
    <3> QED
      BY <1>1, <1>2, <3>1, Numbers DEF Lists, NextOK, TypeOK, Taken, Offered
  <2>4. \A i \in 1 .. n + 1 : p[i] \in 1 .. n + 1
    BY <2>1, <2>2, OrderIsOnto
  <2>5. \A i \in 1 .. n + 1 : next[p[i]] = coded + p[i] /\ next[p[i]] \in Frames
    <3>1. \A j \in 1 .. n + 1 : j \in 1 .. Len(next)
      BY <2>2
    <3> QED
      BY <2>3, <2>4, <3>1 DEF Lined
  <2>6. current' \in Seq(Frames) /\ Len(current') = n + 1
    BY <2>1, <2>2, <2>5 DEF Group
  <2>7. \A i \in 1 .. n + 1 : current'[i] = coded + p[i]
    BY <2>1, <2>5 DEF Group
  <2>8. Taken' = coded + (n + 1) /\ Offered' = coded + (n + 1) /\ Seen' = Seen
    <3>1. Len(next') = Len(next) - (n + 1)
      BY <2>1, <2>2, <2>3, Split
    <3>2. Taken' = coded + (n + 1) /\ Offered' = coded + (n + 1) /\ Len(<<>>) = 0
      BY <1>1, <1>2, <2>2, <2>3, <2>6 DEF Taken, Offered
    <3> QED
      BY <2>2, <2>3, <3>1, <3>2 DEF Seen
  <2>9. Lined(next', Offered')
    <3>1. Behind(next, coded, n + 1)
      BY <2>3 DEF Lined, Behind
    <3>2. Lined(Rest(next, n + 1), coded + (n + 1))
      BY <2>2, <2>3, <3>1, LinedParts
    <3> QED
      BY <2>1, <2>8, <3>2
  <2>10. Grouped(ofbuf', Taken', i_bframes')
    <3> DEFINE b == coded + (n + 1)
    <3>1. b \in Int /\ Len(<<>>) = 0 /\ b + 0 = b
      BY <2>2, <2>3
    <3> HIDE DEF b
    <3>2. Permutes(<<>>, b, b + 1, b + 0)
      BY <3>1 DEF Permutes
    <3>3. Begin(<<>>, b, i_bframes, {b + 1})
      BY <3>1 DEF Begin
    <3>4. Grouped(<<>>, b, i_bframes)
      BY <3>1, <3>2, <3>3 DEF Grouped
    <3> QED
      BY <1>1, <1>2, <2>8, <3>4 DEF b
  <2>11. CurrentOK'
    <3>1. anchor = coded
      BY <2>3 DEF Lists, CurrentOK
    <3>2. IsGroup(current', coded, coded + 1, coded + (n + 1))
      BY <2>1, <2>2, <2>3, <2>7, GroupOrdered
    <3>3. IsGroup(current', coded', coded' + 1, Taken')
      BY <1>1, <2>8, <3>2
    <3>4. Len(current') <= param'.bframes + 1
      BY <1>1, <2>2, <2>6, Numbers
    <3> QED
      BY <1>1, <3>1, <3>3, <3>4 DEF CurrentOK
  <2>12. Conserved' /\ Lined(ifbuf, Seen)' /\ NextOK'
    BY <1>1, <2>8, <2>9 DEF Lists, Conserved, NextOK
  <2> QED
    BY <2>6, <2>10, <2>11, <2>12 DEF Lists
<1> QED
  BY <1>3, <1>4

\* The first frame of current is started.
LEMMA TakeLists ==
  ASSUME TypeOK, Lists, TakeFrame
  PROVE  Lists' /\ Taken' = Taken /\ Head(current) \in 1 .. Taken
<1>1. /\ UNCHANGED <<param, i_input, ifbuf, next, ofbuf, i_bframes, looker>>
      /\ coded' = coded + 1 /\ current' = Tail(current) /\ current # <<>>
      /\ anchor' = (IF Head(current) > anchor THEN Head(current) ELSE anchor)
      /\ ~Pushing /\ ~Pushing'
  BY DEF TakeFrame, Pushing, lookahead, lists
<1>2. /\ Head(current) \in Frames /\ Head(current) = current[1]
      /\ Len(current) \in Nat /\ Len(current) > 0
      /\ Len(current') = Len(current) - 1
      /\ \A k \in 1 .. Len(current) - 1 : current'[k] = current[k + 1]
  BY <1>1, Behead DEF TypeOK
<1>3. coded \in Nat /\ anchor \in Nat /\ Taken = coded + Len(current) /\ Taken \in Nat
  BY Numbers, PositionTypes DEF Taken
<1>4. Taken' = Taken
  BY <1>1, <1>2, <1>3 DEF Taken
<1>5. Offered' = Offered /\ Seen' = Seen
  BY <1>1, <1>4 DEF Offered, Seen
<1> DEFINE n == Len(current)
<1>6. ASSUME \A j, k \in 1 .. n : current[j] = current[k] => j = k
      PROVE  /\ \A j, k \in 1 .. n - 1 : current'[j] = current'[k] => j = k
             /\ \A k \in 1 .. n - 1 : current'[k] # current[1]
  <2>1. \A k \in 1 .. n - 1 : k + 1 \in 1 .. n /\ k + 1 # 1 /\ 1 \in 1 .. n
    BY <1>2
  <2>2. \A j, k \in 1 .. n - 1 : j + 1 = k + 1 => j = k
    OBVIOUS
  <2> QED
    BY <1>2, <1>6, <2>1, <2>2
<1>7. ASSUME NEW f \in Nat, \A k \in 1 .. n : current[k] \in 1 .. f,
             \A j, k \in 1 .. n : current[j] = current[k] => j = k,
             f = current[1] \/ \A k \in 1 .. n : current[k] # f
      PROVE  RestOf(current', f)
  <2>1. \A k \in 1 .. n - 1 : k + 1 \in 1 .. n
    BY <1>2
  <2>2. \A k \in 1 .. n - 1 : current'[k] \in 1 .. f /\ current'[k] # f
    BY <1>2, <1>6, <1>7, <2>1
  <2>3. \A k \in 1 .. n - 1 : current'[k] \in 1 .. f - 1
    BY <1>7, <2>2
  <2> QED
    BY <1>2, <1>6, <1>7, <2>3 DEF RestOf
<1>8. CurrentOK' /\ Head(current) \in 1 .. Taken
  <2>1. CASE anchor = coded /\ IsGroup(current, coded, coded + 1, Taken)
    <3>1. current[(coded + 1) - coded] = Taken /\ (coded + 1) - coded = 1
      BY <1>3, <2>1 DEF IsGroup
    <3>2. Permutes(current, coded, coded + 1, coded + n)
      BY <1>3, <2>1 DEF IsGroup
    <3>3. /\ \A k \in 1 .. n : current[k] \in coded + 1 .. coded + n
          /\ \A j, k \in 1 .. n : current[j] = current[k] => j = k
      BY <1>2, <1>3, <3>2, Listed, SMTT(30)
    <3>4. anchor' = Taken
      BY <1>1, <1>2, <1>3, <2>1, <3>1
    <3>5. \A k \in 1 .. n : current[k] \in 1 .. Taken
      BY <1>2, <1>3, <3>3
    <3>6. RestOf(current', Taken)
      BY <1>3, <1>7, <3>1, <3>3, <3>5
    <3>7. Head(current) \in 1 .. Taken
      BY <1>2, <1>3, <3>1
    <3> QED
      BY <1>4, <3>4, <3>6, <3>7 DEF CurrentOK
  <2>2. CASE anchor = Taken /\ RestOf(current, anchor)
    <3>1. /\ \A k \in 1 .. n : current[k] \in 1 .. Taken - 1
          /\ \A j, k \in 1 .. n : current[j] = current[k] => j = k
      BY <2>2 DEF RestOf
    <3>2. \A k \in 1 .. n : current[k] \in 1 .. Taken /\ current[k] # Taken
      BY <1>3, <3>1
    <3>3. RestOf(current', Taken)
      BY <1>3, <1>7, <3>1, <3>2
    <3>4. Head(current) \in 1 .. Taken - 1
      BY <1>2, <3>1
    <3>5. anchor' = Taken
      BY <1>1, <1>3, <2>2, <3>4
    <3> QED
      BY <1>3, <1>4, <3>3, <3>4, <3>5 DEF CurrentOK
  <2> QED
    BY <1>1, <2>1, <2>2 DEF Lists, CurrentOK
<1>9. /\ Conserved' /\ Lined(ifbuf, Seen)' /\ NextOK'
      /\ Grouped(ofbuf, Taken, i_bframes)'
  BY <1>1, <1>4, <1>5 DEF Lists, Conserved, NextOK, GroupSize, Held
<1> QED
  BY <1>4, <1>8, <1>9 DEF Lists

\* The lookahead thread moves what fits from ifbuf to next.
LEMMA ShiftLists ==
  ASSUME TypeOK, Lists, Bounded, LookShift
  PROVE  Lists' /\ next' \in Seq(Frames) /\ ifbuf' \in Seq(Frames)
<1>1. /\ UNCHANGED <<param, i_input, ofbuf, i_bframes, current, coded, anchor>>
      /\ ~Held /\ ~Held' /\ Pushing' = Pushing
  BY DEF LookShift, Held, Pushing, frames, IfbufEmptied
<1>2. PICK n \in Int :
        /\ n = (IF NextMax - Len(next) < Len(ifbuf) THEN NextMax - Len(next)
                ELSE Len(ifbuf))
        /\ next' = next \o First(ifbuf, n) /\ ifbuf' = Rest(ifbuf, n)
  <2>1. NextMax - Len(next) \in Int /\ Len(ifbuf) \in Int
    BY Room, Numbers, SMTT(30)
  <2> QED
    BY <2>1 DEF LookShift
<1>3. n \in 0 .. Len(ifbuf) /\ n \in Nat
  <2>1. /\ Len(next) \in Nat /\ Len(ifbuf) \in Nat /\ NextMax \in Nat
        /\ Len(next) <= NextMax
    <3>1. /\ Len(next) \in Nat /\ Len(ifbuf) \in Nat /\ Len(ofbuf) \in Nat
          /\ Len(current) \in Nat /\ i_input \in Nat /\ coded \in Nat
          /\ param.threads \in Nat /\ param.threads > 0
      BY Numbers
    <3> QED
      BY <3>1, Room, SMTT(30)
  <2> QED
    BY <1>2, <2>1
<1>4. /\ next \in Seq(Frames) /\ ifbuf \in Seq(Frames)
      /\ Lined(next, Offered) /\ Lined(ifbuf, Offered + Len(next))
      /\ Offered \in Nat /\ Seen = Offered + Len(next)
      /\ Len(next) \in Nat /\ Len(ifbuf) \in Nat
  BY <1>1, Numbers, PositionTypes DEF TypeOK, Lists, NextOK, Seen
<1>5. Taken' = Taken /\ Offered' = Offered
  BY <1>1 DEF Taken, Offered
<1>6. Lined(next', Offered) /\ Len(next') = Len(next) + n
  <2>1. Offered \in Int
    BY <1>4
  <2>2. /\ Lined(next \o First(ifbuf, n), Offered)
        /\ Len(next \o First(ifbuf, n)) = Len(next) + n
    BY <1>3, <1>4, <2>1, LinedJoined
  <2> QED
    BY <1>2, <2>2
<1>7. /\ Lined(ifbuf', Seen + n) /\ ifbuf' \in Seq(Frames)
      /\ Len(ifbuf') = Len(ifbuf) - n /\ First(ifbuf, n) \in Seq(Frames)
  <2>1. Behind(ifbuf, Seen, n)
    BY <1>4 DEF Lined, Behind
  <2>2. Seen \in Int
    BY PositionTypes
  <2> QED
    BY <1>2, <1>3, <1>4, <2>1, <2>2, LinedParts, Split
<1>8. Seen' = Seen + n
  BY <1>3, <1>4, <1>5, <1>6 DEF Seen
<1>9. Conserved'
  <2>1. Seen' + Len(ifbuf') = Seen + Len(ifbuf)
    BY <1>3, <1>4, <1>7, <1>8
  <2> QED
    BY <1>1, <2>1 DEF Lists, Conserved
<1>10. NextOK' /\ Lined(ifbuf, Seen)' /\ Grouped(ofbuf, Taken, i_bframes)'
  BY <1>1, <1>5, <1>6, <1>7, <1>8 DEF Lists, NextOK
<1>11. CurrentOK'
  BY <1>1, <1>5 DEF Lists, CurrentOK
<1>12. next' \in Seq(Frames)
  BY <1>2, <1>4, <1>7, Join
<1> QED
  BY <1>7, <1>9, <1>10, <1>11, <1>12 DEF Lists

\* The lookahead thread moves everything to next.
LEMMA LeaveLists ==
  ASSUME TypeOK, Lists, LookLeave
  PROVE  Lists' /\ next' \in Seq(Frames)
<1>1. /\ UNCHANGED <<param, i_input, ofbuf, i_bframes, current, coded, anchor>>
      /\ next' = next \o ifbuf /\ ifbuf' = <<>>
      /\ ~Held /\ ~Held' /\ Pushing' = Pushing
  BY DEF LookLeave, Held, Pushing, frames
<1>2. /\ next \in Seq(Frames) /\ ifbuf \in Seq(Frames)
      /\ Lined(next, Offered) /\ Lined(ifbuf, Offered + Len(next))
      /\ Offered \in Int /\ Seen = Offered + Len(next)
      /\ Len(next) \in Nat /\ Len(ifbuf) \in Nat /\ Len(ifbuf) \in 0 .. Len(ifbuf)
  BY <1>1, Numbers, PositionTypes, SMTT(30) DEF TypeOK, Lists, NextOK, Seen
<1>3. Taken' = Taken /\ Offered' = Offered
  BY <1>1 DEF Taken, Offered
<1>4. Lined(next \o ifbuf, Offered) /\ Len(next \o ifbuf) = Len(next) + Len(ifbuf)
  BY <1>2, LinedJoined
<1>5. Seen' = Seen + Len(ifbuf) /\ Len(<<>>) = 0
  BY <1>1, <1>2, <1>3, <1>4 DEF Seen
<1>6. Conserved'
  <2>1. Seen' + Len(ifbuf') = Seen + Len(ifbuf)
    BY <1>1, <1>2, <1>5
  <2> QED
    BY <1>1, <2>1 DEF Lists, Conserved
<1>7. NextOK' /\ Lined(ifbuf, Seen)' /\ Grouped(ofbuf, Taken, i_bframes)'
  BY <1>1, <1>3, <1>4, <1>5 DEF Lists, NextOK, Lined
<1>8. CurrentOK'
  BY <1>1, <1>3 DEF Lists, CurrentOK
<1>9. next' \in Seq(Frames)
  BY <1>1, <1>2, Join
<1> QED
  BY <1>6, <1>7, <1>8, <1>9 DEF Lists

\* The lookahead thread decides the first group of next.
LEMMA LookDecideLists ==
  ASSUME TypeOK, Lists, LookDecide
  PROVE  /\ Lists' /\ next' \in Seq(Frames)
         /\ i_bframes' \in [Frames -> 0 .. param.bframes]
<1>1. /\ UNCHANGED <<param, i_input, ifbuf, ofbuf, current, coded, anchor>>
      /\ ~Held /\ Held' /\ Pushing' = Pushing
  BY DEF LookDecide, Held, Pushing, frames
<1>2. PICK n \in 0 .. param.bframes : \E p \in CodedOrders(n) :
        /\ Decidable(n, p)
        /\ next' = Group(n, p) \o Rest(next, n + 1)
        /\ i_bframes' = [i_bframes EXCEPT ![next[n + 1]] = n]
  BY DEF LookDecide
<1>3. PICK p \in CodedOrders(n) :
        /\ Decidable(n, p)
        /\ next' = Group(n, p) \o Rest(next, n + 1)
        /\ i_bframes' = [i_bframes EXCEPT ![next[n + 1]] = n]
  BY <1>2
<1>4. /\ next \in Seq(Frames) /\ Lined(next, Offered) /\ ofbuf \in Seq(Frames)
      /\ Offered \in Nat /\ Taken \in Nat /\ Offered = Taken + Len(ofbuf)
      /\ Len(next) \in Nat /\ Len(ofbuf) \in Nat
      /\ i_bframes \in [Frames -> 0 .. param.bframes]
  BY <1>1, Numbers, PositionTypes DEF TypeOK, Lists, NextOK, Offered
<1>5. n \in Nat /\ n + 1 \in 0 .. Len(next) /\ n + 1 \in 1 .. Len(next)
  BY <1>3, Numbers DEF Decidable
<1>6. next[n + 1] = Offered + (n + 1) /\ next[n + 1] \in Frames
  BY <1>4, <1>5 DEF Lined
<1>7. \A i \in 1 .. n + 1 : p[i] \in 1 .. n + 1
  BY <1>3, <1>5, OrderIsOnto
<1>8. \A i \in 1 .. n + 1 : next[p[i]] = Offered + p[i] /\ next[p[i]] \in Frames
  <2>1. \A j \in 1 .. n + 1 : j \in 1 .. Len(next)
    BY <1>5
  <2>2. \A j \in 1 .. n + 1 : next[j] = Offered + j /\ next[j] \in Frames
    BY <1>4, <2>1 DEF Lined
  <2> QED
    BY <1>7, <2>2
<1>9. /\ Group(n, p) \in Seq(Frames) /\ Len(Group(n, p)) = n + 1
      /\ \A i \in 1 .. n + 1 : Group(n, p)[i] = Offered + p[i]
  BY <1>5, <1>8 DEF Group
<1>10. /\ Rest(next, n + 1) \in Seq(Frames)
       /\ Len(Rest(next, n + 1)) = Len(next) - (n + 1)
       /\ \A k \in 1 .. Len(next) - (n + 1) :
            Rest(next, n + 1)[k] = next[(n + 1) + k]
  BY <1>4, <1>5, Split, SMTT(30)
<1>11. /\ next' \in Seq(Frames) /\ Len(next') = Len(next)
       /\ \A i \in 1 .. n + 1 : next'[i] = Offered + p[i]
       /\ \A k \in 1 .. Len(next) - (n + 1) :
            next'[(n + 1) + k] = next[(n + 1) + k]
  <2> DEFINE s == Group(n, p)
             u == Rest(next, n + 1)
  <2>1. s \in Seq(Frames) /\ u \in Seq(Frames)
    BY <1>9, <1>10
  <2> HIDE DEF s, u
  <2>2. /\ s \o u \in Seq(Frames) /\ Len(s \o u) = Len(s) + Len(u)
        /\ \A k \in 1 .. Len(s) : (s \o u)[k] = s[k]
        /\ \A k \in 1 .. Len(u) : (s \o u)[Len(s) + k] = u[k]
    BY <2>1, Join
  <2>3. Len(s) = n + 1 /\ Len(u) = Len(next) - (n + 1) /\ next' = s \o u
    BY <1>3, <1>9, <1>10 DEF s, u
  <2>4. Len(s \o u) = Len(next)
    BY <1>4, <1>5, <2>2, <2>3
  <2>5. \A i \in 1 .. n + 1 : (s \o u)[i] = Offered + p[i]
    BY <1>9, <2>2, <2>3 DEF s
  <2>6. \A k \in 1 .. Len(next) - (n + 1) : (s \o u)[(n + 1) + k] = next[(n + 1) + k]
    BY <1>10, <2>2, <2>3 DEF u
  <2> QED
    BY <2>2, <2>3, <2>4, <2>5, <2>6
<1>12. Taken' = Taken /\ Offered' = Offered /\ Seen' = Seen
  BY <1>1, <1>11 DEF Taken, Offered, Seen
<1>13. GroupSize(next)' = n + 1 /\ next' # <<>>
  <2>1. next' # <<>>
    BY <1>5, <1>11
  <2>2. Head(next') = next'[1]
    BY <1>11, <2>1, Behead
  <2>3. next'[1] = Offered + (n + 1)
    <3>1. p[1] = n + 1 /\ 1 \in 1 .. n + 1
      BY <1>3, <1>5, OrderIsOnto
    <3> QED
      BY <1>11, <3>1
  <2>4. i_bframes'[Head(next')] = n
    BY <1>3, <1>4, <1>6, <2>2, <2>3
  <2> QED
    BY <2>1, <2>4 DEF GroupSize
<1>14. Decided(next', Offered, n + 1)
  <2>1. IsGroup(next', Offered, Offered + 1, Offered + (n + 1))
    <3>1. \A i \in 1 .. n + 1 : next'[i] = Offered + p[i]
      BY <1>11
    <3>2. Offered \in Int /\ n \in Nat
      BY <1>4, <1>5
    <3> QED
      BY <3>1, <3>2, GroupOrdered
  <2>2. Behind(next', Offered, n + 1)
    <3>1. ASSUME NEW k \in 1 .. Len(next), k > n + 1
          PROVE  next'[k] = Offered + k
      <4>1. k - (n + 1) \in 1 .. Len(next) - (n + 1) /\ (n + 1) + (k - (n + 1)) = k
        BY <1>4, <1>5, <3>1
      <4>2. next'[k] = next[k]
        BY <1>11, <4>1
      <4> QED
        BY <1>4, <4>2 DEF Lined
    <3> QED
      BY <1>11, <3>1 DEF Behind
  <2> QED
    BY <1>5, <1>11, <1>13, <2>1, <2>2 DEF Decided
<1>15. NextOK'
  BY <1>1, <1>12, <1>13, <1>14 DEF NextOK
<1>16. Grouped(ofbuf', Taken', i_bframes')
  <2>1. Grouped(ofbuf, Taken, i_bframes)
    BY DEF Lists
  <2>2. \A k \in 1 .. Len(ofbuf) : ofbuf[k] \in Taken + 1 .. Taken + Len(ofbuf)
    <3>1. Permutes(ofbuf, Taken, Taken + 1, Taken + Len(ofbuf))
      BY <2>1 DEF Grouped
    <3>2. Taken \in Int /\ Len(ofbuf) \in Nat
      BY <1>4
    <3> QED
      BY <3>1, <3>2, Listed
  <2>3. \A k \in 1 .. Len(ofbuf) : i_bframes'[ofbuf[k]] = i_bframes[ofbuf[k]]
    <3>1. ASSUME NEW k \in 1 .. Len(ofbuf)
          PROVE  i_bframes'[ofbuf[k]] = i_bframes[ofbuf[k]]
      <4>1. ofbuf[k] \in Frames /\ ofbuf[k] <= Offered /\ ofbuf[k] \in Int
        BY <1>4, <2>2
      <4>2. ofbuf[k] # next[n + 1]
        BY <1>4, <1>5, <1>6, <4>1
      <4> QED
        BY <1>3, <1>4, <4>1, <4>2
    <3> QED
      BY <3>1
  <2>4. Grouped(ofbuf, Taken, i_bframes')
    BY <1>4, <2>1, <2>3, OtherSizes
  <2> QED
    BY <1>1, <1>12, <2>4
<1>17. Conserved' /\ Lined(ifbuf, Seen)' /\ CurrentOK'
  BY <1>1, <1>12 DEF Lists, Conserved, CurrentOK
<1>18. i_bframes' \in [Frames -> 0 .. param.bframes]
  BY <1>2, <1>4
<1> QED
  BY <1>11, <1>15, <1>16, <1>17, <1>18 DEF Lists

\* The group decided moves to ofbuf.
LEMMA OfferLists ==
  ASSUME TypeOK, Lists, LookOffer
  PROVE  /\ Lists' /\ next' \in Seq(Frames) /\ ofbuf' \in Seq(Frames)
         /\ GroupSize(next) \in 1 .. Len(next)
<1>1. /\ UNCHANGED <<param, i_input, ifbuf, i_bframes, current, coded, anchor>>
      /\ looker = "decided" /\ Held
  BY DEF LookOffer, Held, frames
<1> DEFINE g == GroupSize(next)
<1>2. /\ next \in Seq(Frames) /\ ofbuf \in Seq(Frames)
      /\ i_bframes \in [Frames -> Nat]
      /\ Decided(next, Offered, g) /\ Grouped(ofbuf, Taken, i_bframes)
      /\ Offered \in Int /\ Taken \in Int /\ Offered = Taken + Len(ofbuf)
      /\ Len(next) \in Nat /\ Len(ofbuf) \in Nat
  <2>1. \A f \in Frames : i_bframes[f] \in Nat
    BY Numbers DEF TypeOK
  <2> QED
    BY <1>1, <2>1, Numbers, PositionTypes, SMTT(30) DEF TypeOK, Lists, NextOK, Offered
<1>3. i_bframes[next[1]] = g - 1 /\ g \in 1 .. Len(next)
  <2>1. Head(next) \in Frames /\ Head(next) = next[1] /\ g <= Len(next)
    BY <1>2, Behead DEF Decided
  <2>2. i_bframes[Head(next)] \in Nat /\ g = i_bframes[Head(next)] + 1
    BY <1>2, <2>1 DEF GroupSize
  <2> QED
    BY <1>2, <2>1, <2>2
<1> HIDE DEF g
<1>4. g \in Nat /\ g \in 1 .. Len(next) /\ g \in 0 .. Len(next)
  BY <1>2, <1>3
<1>5. CASE Len(ofbuf) = OfbufMax
  <2>1. UNCHANGED <<next, ofbuf, encoder>> /\ Held'
    BY <1>5 DEF LookOffer, Held
  <2>2. Held' = Held /\ Pushing' = Pushing
    BY <1>1, <2>1 DEF Held, Pushing
  <2>3. UNCHANGED <<param, ifbuf, next, ofbuf, i_bframes, current, coded, anchor>>
    BY <1>1, <2>1
  <2>4. Lists'
    BY <1>1, <2>2, <2>3, ListsStay
  <2> QED
    BY <1>2, <1>4, <2>1, <2>4 DEF g
<1>6. CASE Len(ofbuf) # OfbufMax
  <2>1. /\ ofbuf' = ofbuf \o First(next, g) /\ next' = Rest(next, g)
        /\ ~Held' /\ Pushing' = Pushing
    BY <1>6 DEF LookOffer, Held, Pushing, OfbufFilled, g
  <2>2. /\ First(next, g) \in Seq(Frames) /\ Len(First(next, g)) = g
        /\ next' \in Seq(Frames) /\ Len(next') = Len(next) - g
    BY <1>2, <1>4, <2>1, Split
  <2>3. ofbuf' \in Seq(Frames) /\ Len(ofbuf') = Len(ofbuf) + g
    BY <1>2, <2>1, <2>2, Join
  <2>4. Taken' = Taken /\ Offered' = Offered + g /\ Seen' = Seen
    <3>1. Taken' = Taken
      BY <1>1 DEF Taken
    <3>2. Offered' = Offered + g
      BY <1>2, <1>4, <2>3, <3>1 DEF Offered
    <3>3. Offered' + Len(next') = Offered + Len(next)
      BY <1>2, <1>4, <2>2, <3>2
    <3> QED
      BY <3>1, <3>2, <3>3 DEF Seen
  <2>5. Grouped(ofbuf', Taken', i_bframes')
    <3>1. IsGroup(next, Taken + Len(ofbuf), Taken + Len(ofbuf) + 1,
                  Taken + Len(ofbuf) + g)
      BY <1>2 DEF Decided
    <3>2. Grouped(ofbuf \o First(next, g), Taken, i_bframes)
      BY <1>2, <1>3, <3>1, GroupAdded
    <3> QED
      BY <1>1, <2>1, <2>4, <3>2
  <2>6. NextOK'
    <3>1. Behind(next, Offered, g)
      BY <1>2 DEF Decided
    <3>2. Lined(Rest(next, g), Offered + g)
      BY <1>2, <1>4, <3>1, LinedParts
    <3> QED
      BY <2>1, <2>4, <3>2 DEF NextOK
  <2>7. Conserved' /\ Lined(ifbuf, Seen)' /\ CurrentOK'
    BY <1>1, <2>1, <2>4 DEF Lists, Conserved, CurrentOK
  <2> QED
    BY <1>4, <2>2, <2>3, <2>5, <2>6, <2>7 DEF Lists, g
<1> QED
  BY <1>5, <1>6

\* No step loses a frame or takes one out of its group.
LEMMA ListsKeep ==
  ASSUME TypeOK, Lists, Steps, Bounded, Next
  PROVE  Lists'
<1> USE DEF Held, Pushing, lookahead, pool, frames, lists, flags
<1>1. CASE Encode \/ Flush \/ Close
  <2>1. /\ UNCHANGED <<param, ifbuf, next, ofbuf, i_bframes, current, coded, anchor>>
        /\ Held' = Held
    BY <1>1 DEF Encode, Flush, Close, IfbufFilled
  <2>2. \/ i_input' = i_input /\ Pushing' = Pushing
        \/ i_input' = i_input + 1 /\ ~Pushing /\ Pushing'
    BY <1>1 DEF Encode, Flush, Close
  <2> QED
    BY <2>1, <2>2, ListsStay
<1>2. CASE PutFrame \/ GetFrames \/ DecideFrames \/ TakeFrame
  BY <1>2, PutLists, GetLists, DecideFramesLists, TakeLists
<1>3. CASE LookShift \/ LookLeave \/ LookDecide \/ LookOffer
  BY <1>3, ShiftLists, LeaveLists, LookDecideLists, OfferLists
<1>4. CASE \/ PutWaits \/ GetWaits \/ NothingToTake \/ EndFrame \/ EndWaits
           \/ EndEmpty \/ CountDelayed \/ JoinLookahead \/ JoinPool
           \/ LookTop \/ LookEmptying \/ \E w \in Threads : WorkerStep(w)
  <2>1. UNCHANGED <<param, ifbuf, next, ofbuf, i_bframes, current, coded, anchor,
                    i_input>>
    BY <1>4 DEF PutWaits, GetWaits, NothingToTake, EndFrame, EndWaits, EndEmpty,
                CountDelayed, JoinLookahead, JoinPool, LookTop, LookEmptying,
                WorkerStep, WorkerTop, WorkerTakes, WorkerWaits, WorkerWrites
  <2>2. Held' = Held /\ Pushing' = Pushing
    BY <1>4 DEF PutWaits, GetWaits, NothingToTake, EndFrame, EndWaits, EndEmpty,
                CountDelayed, JoinLookahead, JoinPool, LookTop, LookEmptying,
                WorkerStep, WorkerTop, WorkerTakes, WorkerWaits, WorkerWrites,
                OfbufFilled
  <2> QED
    BY <2>1, <2>2, ListsStay
<1> QED
  BY <1>1, <1>2, <1>3, <1>4 DEF Next, EncoderStep, LookerStep

----------------------------------------------------------------------------
(* The types *)

\* The next frame thread is a frame thread.
LEMMA NextPhaseType ==
  ASSUME TypeOK
  PROVE  /\ NextPhase \in Threads
         /\ NextPhase = IF i_thread_phase + 1 = param.threads THEN 0
                        ELSE i_thread_phase + 1
         /\ Oldest = NextPhase
<1>1. /\ param.threads \in Nat /\ param.threads > 0
      /\ i_thread_phase \in 0 .. param.threads - 1
  BY Numbers DEF TypeOK, Threads
<1>2. ASSUME NEW p \in Nat, NEW n \in Nat, n > 0, p < n
      PROVE  (p + 1) % n = IF p + 1 = n THEN 0 ELSE p + 1
  <2>1. CASE p + 1 = n
    <3>1. n % n = 0
      BY <1>2
    <3> QED
      BY <2>1, <3>1
  <2>2. CASE p + 1 < n
    <3> DEFINE m == p + 1
    <3>1. m \in 0 .. n - 1
      BY <1>2, <2>2
    <3> HIDE DEF m
    <3>2. m % n = m
      BY <1>2, <3>1
    <3> QED
      BY <1>2, <2>2, <3>2 DEF m
  <2> QED
    BY <1>2, <2>1, <2>2
<1>3. NextPhase = IF i_thread_phase + 1 = param.threads THEN 0
                  ELSE i_thread_phase + 1
  BY <1>1, <1>2 DEF NextPhase
<1>4. NextPhase \in 0 .. param.threads - 1
  BY <1>1, <1>3
<1> QED
  BY <1>3, <1>4 DEF Threads, NextPhase, Oldest

\* TypeOK in parts.
CallTypes ==
  /\ encoder \in {"idle", "pushing", "pushSleep", "getting", "getSleep",
                  "taking", "ending", "endSleep", "counting", "closing",
                  "joining", "closed"}
  /\ i_thread_phase \in Threads /\ i_input \in 0 .. MaxFrames
  /\ drained \in BOOLEAN
  /\ coded \in 0 .. i_input /\ received \in 0 .. coded /\ anchor \in 0 .. i_input

ListTypes ==
  /\ ifbuf \in Seq(Frames) /\ next \in Seq(Frames) /\ ofbuf \in Seq(Frames)
  /\ current \in Seq(Frames)
  /\ b_exit_thread \in BOOLEAN /\ b_thread_active \in BOOLEAN
  /\ i_bframes \in [Frames -> 0 .. param.bframes]
  /\ looker \in {"none", "top", "shifting", "sleeping", "leave", "emptying",
                 "deciding", "decided", "full", "ended"}
  /\ leaving \in BOOLEAN

ThreadTypes ==
  /\ active \subseteq Threads /\ written \subseteq Threads
  /\ job \in [Threads -> 0 .. MaxFrames]
  /\ run \in Seq(Threads)
  /\ worker \in [Threads -> {"top", "asking", "sleeping", "writing", "ended"}]
  /\ task \in [Threads -> Threads \cup {None}]
  /\ exit \in BOOLEAN

\* The parts are the whole, before and after a step.
LEMMA TypeParts ==
  /\ TypeOK => param \in Params /\ CallTypes /\ ListTypes /\ ThreadTypes
  /\ param' \in Params /\ CallTypes' /\ ListTypes' /\ ThreadTypes' => TypeOK'
<1>1. TypeOK => param \in Params /\ CallTypes /\ ListTypes /\ ThreadTypes
  BY DEF TypeOK, CallTypes, ListTypes, ThreadTypes
<1>2. param' \in Params /\ CallTypes' /\ ListTypes' /\ ThreadTypes' => TypeOK'
  BY DEF TypeOK, CallTypes, ListTypes, ThreadTypes
<1> QED
  BY <1>1, <1>2

\* What the caller knows of the frames when it takes one.
LEMMA TakeNumbers ==
  ASSUME TypeOK, Lists, TakeFrame
  PROVE  /\ coded < i_input /\ Head(current) \in 1 .. i_input
         /\ Tail(current) \in Seq(Frames)
<1>1. /\ Seen + Len(ifbuf) + (IF Pushing THEN 1 ELSE 0) = i_input
      /\ Taken \in Nat /\ Offered \in Nat /\ Seen \in Nat
      /\ Taken <= Offered /\ Offered <= Seen
      /\ Len(ifbuf) \in Nat /\ i_input \in Nat /\ coded \in Nat
  BY Numbers, PositionTypes DEF Lists, Conserved
<1>2. Taken <= i_input
  BY <1>1
<1>3. Head(current) \in 1 .. Taken
  BY TakeLists
<1>4. Len(current) \in Nat /\ Len(current) > 0 /\ Tail(current) \in Seq(Frames)
  BY Behead DEF TypeOK, TakeFrame
<1>5. coded < Taken
  BY <1>1, <1>4 DEF Taken
<1> QED
  BY <1>1, <1>2, <1>3, <1>4, <1>5

\* The parameters are fixed when the encoder is opened.
LEMMA ParamStays ==
  ASSUME Next
  PROVE  UNCHANGED <<param, Threads>>
<1>1. param' = param
  BY DEF Next, EncoderStep, LookerStep, WorkerStep, Encode, Flush, Close, PutFrame,
         PutWaits, GetFrames, GetWaits, DecideFrames, TakeFrame, NothingToTake,
         EndFrame, EndWaits, EndEmpty, CountDelayed, JoinLookahead, JoinPool,
         LookTop, LookShift, LookLeave, LookEmptying, LookDecide, LookOffer,
         WorkerTop, WorkerTakes, WorkerWaits, WorkerWrites
<1> QED
  BY <1>1 DEF Threads

\* The caller's own variables.
LEMMA CallTypesKeep ==
  ASSUME TypeOK, Lists, Ring, Next
  PROVE  CallTypes'
<1> USE DEF lookahead, pool, frames, threads
<1>1. CallTypes /\ UNCHANGED <<param, Threads>>
  BY TypeParts, ParamStays
<1>2. /\ i_input \in Nat /\ coded \in Nat /\ coded <= i_input /\ MaxFrames \in Nat
      /\ received \in Nat /\ received <= coded /\ anchor \in Nat
      /\ NextPhase \in Threads
  BY Numbers, NextPhaseType
<1>3. CASE Encode
  <2>1. i_input' = i_input + 1 /\ i_input < MaxFrames
    BY <1>3 DEF Encode
  <2>2. i_input' \in 0 .. MaxFrames /\ coded \in 0 .. i_input' /\ anchor \in 0 .. i_input'
    BY <1>1, <1>2, <2>1 DEF CallTypes
  <2> QED
    BY <1>1, <1>2, <1>3, <2>2 DEF Encode, CallTypes
<1>4. CASE TakeFrame
  <2>1. coded' = coded + 1 /\ coded < i_input /\ Head(current) \in 1 .. i_input
    BY <1>4, TakeNumbers DEF TakeFrame
  <2>2. coded' \in 0 .. i_input /\ received \in 0 .. coded'
    BY <1>2, <2>1
  <2>3. anchor' \in 0 .. i_input
    BY <1>1, <1>2, <1>4, <2>1 DEF TakeFrame, CallTypes
  <2> QED
    BY <1>1, <1>4, <2>2, <2>3 DEF TakeFrame, CallTypes
<1>5. CASE EndFrame
  <2>1. received' \in received + 1 .. coded
    BY <1>5 DEF EndFrame, Ring, Live
  <2>2. received' \in 0 .. coded
    BY <1>2, <2>1
  <2> QED
    BY <1>1, <1>5, <2>2 DEF EndFrame, CallTypes
<1>6. CASE Flush \/ Close \/ CountDelayed
  BY <1>1, <1>2, <1>6 DEF Flush, Close, CountDelayed, CallTypes
<1>7. CASE \/ PutFrame \/ PutWaits \/ GetFrames \/ GetWaits \/ DecideFrames
           \/ NothingToTake \/ EndWaits \/ EndEmpty \/ JoinLookahead \/ JoinPool
  BY <1>1, <1>7 DEF PutFrame, PutWaits, GetFrames, GetWaits, DecideFrames,
     NothingToTake, EndWaits, EndEmpty, JoinLookahead, JoinPool, CallTypes
<1>8. CASE LookerStep \/ \E w \in Threads : WorkerStep(w)
  BY <1>1, <1>8 DEF LookerStep, WorkerStep, LookTop, LookShift, LookLeave,
     LookEmptying, LookDecide, LookOffer, WorkerTop, WorkerTakes, WorkerWaits,
     WorkerWrites, IfbufEmptied, OfbufFilled, CallTypes
<1> QED
  BY <1>3, <1>4, <1>5, <1>6, <1>7, <1>8 DEF Next, EncoderStep

\* The lists and the lookahead.
LEMMA ListTypesKeep ==
  ASSUME TypeOK, Lists, Steps, Bounded, Next
  PROVE  ListTypes'
<1> USE DEF lookahead, pool, frames, threads, lists, flags
<1>1. ListTypes /\ param' = param
  BY TypeParts, ParamStays
<1>2. CASE PutFrame
  <2>1. i_input \in Frames
    BY <1>2, PutLists
  <2>2. ifbuf' \in Seq(Frames) /\ next' \in Seq(Frames)
    <3>1. Append(ifbuf, i_input) \in Seq(Frames) /\ Append(next, i_input) \in Seq(Frames)
      BY <1>1, <2>1, Appended DEF ListTypes
    <3> QED
      BY <1>1, <1>2, <3>1 DEF PutFrame, ListTypes
  <2>3. looker' = looker \/ looker' = "top"
    BY <1>2 DEF PutFrame, IfbufFilled
  <2>4. UNCHANGED <<flags, ofbuf, i_bframes, leaving, current>>
    BY <1>2 DEF PutFrame
  <2> QED
    BY <1>1, <2>2, <2>3, <2>4 DEF ListTypes
<1>3. CASE GetFrames
  <2>1. current' \in Seq(Frames) /\ ofbuf' \in Seq(Frames)
    BY <1>3, GetLists
  <2>2. i_bframes' \in [Frames -> 0 .. param.bframes]
    <3>1. 0 \in 0 .. param.bframes
      BY Numbers
    <3> QED
      BY <1>1, <1>3, <3>1 DEF GetFrames, ListTypes
  <2> QED
    BY <1>1, <1>3, <2>1, <2>2 DEF GetFrames, OfbufEmptied, ListTypes
<1>4. CASE DecideFrames
  <2>1. current' \in Seq(Frames)
    BY <1>4, DecideFramesLists
  <2>2. next' \in Seq(Frames)
    <3>1. CASE next = <<>>
      BY <1>1, <1>4, <3>1 DEF DecideFrames, ListTypes
    <3>2. CASE next # <<>>
      <4>1. PICK n \in 0 .. param.bframes :
              n + 1 <= Len(next) /\ next' = Rest(next, n + 1)
        BY <1>4, <3>2 DEF DecideFrames, Decidable
      <4>2. n + 1 \in 0 .. Len(next)
        BY <4>1, Numbers
      <4> QED
        BY <1>1, <4>1, <4>2, Split DEF ListTypes
    <3> QED
      BY <3>1, <3>2
  <2> QED
    BY <1>1, <1>4, <2>1, <2>2 DEF DecideFrames, ListTypes
<1>5. CASE TakeFrame
  BY <1>1, <1>5, TakeNumbers DEF TakeFrame, ListTypes
<1>6. CASE LookShift
  <2>1. next' \in Seq(Frames) /\ ifbuf' \in Seq(Frames)
    BY <1>6, ShiftLists
  <2> QED
    BY <1>1, <1>6, <2>1 DEF LookShift, ListTypes
<1>7. CASE LookLeave
  BY <1>1, <1>7, LeaveLists DEF LookLeave, ListTypes
<1>8. CASE LookDecide
  BY <1>1, <1>8, LookDecideLists DEF LookDecide, ListTypes
<1>9. CASE LookOffer
  BY <1>1, <1>9, OfferLists DEF LookOffer, ListTypes
<1>10. CASE Encode \/ Flush \/ Close
  BY <1>1, <1>10 DEF Encode, Flush, Close, IfbufFilled, ListTypes
<1>11. CASE \/ PutWaits \/ GetWaits \/ NothingToTake \/ EndFrame \/ EndWaits
            \/ EndEmpty \/ CountDelayed \/ JoinLookahead \/ JoinPool
            \/ LookTop \/ LookEmptying
  BY <1>1, <1>11, ZenonT(40) DEF PutWaits, GetWaits, NothingToTake, EndFrame, EndWaits,
     EndEmpty, CountDelayed, JoinLookahead, JoinPool, LookTop, LookEmptying,
     ListTypes
<1>12. CASE \E w \in Threads : WorkerStep(w)
  BY <1>1, <1>12 DEF WorkerStep, WorkerTop, WorkerTakes, WorkerWaits, WorkerWrites,
     ListTypes
<1> QED
  BY <1>2, <1>3, <1>4, <1>5, <1>6, <1>7, <1>8, <1>9, <1>10, <1>11, <1>12
  DEF Next, EncoderStep, LookerStep

\* The frame threads and the pool.
LEMMA ThreadTypesKeep ==
  ASSUME TypeOK, Lists, Pool, Next
  PROVE  ThreadTypes'
<1> USE DEF lookahead, pool, frames, threads
<1>1. ThreadTypes /\ UNCHANGED <<param, Threads>>
  BY TypeParts, ParamStays
<1> DEFINE Places == {"top", "asking", "sleeping", "writing", "ended"}
<1>2. CASE TakeFrame
  <2>1. coded + 1 \in 0 .. MaxFrames
    <3>1. coded < i_input /\ coded \in Nat /\ i_input \in 0 .. MaxFrames
      BY <1>2, TakeNumbers, TypeParts, Numbers DEF CallTypes
    <3> QED
      BY <3>1, Numbers
  <2>2. i_thread_phase \in Threads
    BY TypeParts DEF CallTypes
  <2>3. job' \in [Threads -> 0 .. MaxFrames]
    BY <1>1, <1>2, <2>1 DEF TakeFrame, ThreadTypes
  <2>4. active' \subseteq Threads /\ written' \subseteq Threads
    BY <1>1, <1>2, <2>2 DEF TakeFrame, ThreadTypes
  <2>5. run' \in Seq(Threads)
    <3>1. Append(run, i_thread_phase) \in Seq(Threads) /\ run \in Seq(Threads)
      BY <1>1, <2>2, Appended DEF ThreadTypes
    <3> QED
      BY <1>2, <3>1 DEF TakeFrame
  <2>6. worker' \in [Threads -> Places]
    BY <1>1, <1>2 DEF TakeFrame, AllAwake, ThreadTypes
  <2>7. UNCHANGED <<task, exit>>
    BY <1>2 DEF TakeFrame
  <2> QED
    BY <1>1, <2>3, <2>4, <2>5, <2>6, <2>7 DEF ThreadTypes
<1>3. CASE EndFrame
  BY <1>1, <1>3 DEF EndFrame, ThreadTypes
<1>4. CASE JoinLookahead
  BY <1>1, <1>4 DEF JoinLookahead, AllAwake, ThreadTypes
<1>5. ASSUME NEW w \in Threads, WorkerTop(w) \/ WorkerWaits(w)
      PROVE  ThreadTypes'
  BY <1>1, <1>5 DEF WorkerTop, WorkerWaits, ThreadTypes
<1>6. ASSUME NEW w \in Threads, WorkerTakes(w)
      PROVE  ThreadTypes'
  <2>1. Head(run) \in Threads /\ Tail(run) \in Seq(Threads)
    BY <1>1, <1>6, Behead DEF WorkerTakes, ThreadTypes
  <2>2. task' \in [Threads -> Threads \cup {None}] /\ worker' \in [Threads -> Places]
    BY <1>1, <1>6, <2>1 DEF WorkerTakes, ThreadTypes
  <2> QED
    BY <1>1, <1>6, <2>1, <2>2 DEF WorkerTakes, ThreadTypes
<1>7. ASSUME NEW w \in Threads, WorkerWrites(w)
      PROVE  ThreadTypes'
  <2>1. task[w] \in Threads
    BY <1>1, <1>7 DEF WorkerWrites, Pool, Writing, ThreadTypes
  <2>2. task' \in [Threads -> Threads \cup {None}] /\ worker' \in [Threads -> Places]
    BY <1>1, <1>7 DEF WorkerWrites, ThreadTypes
  <2> QED
    BY <1>1, <1>7, <2>1, <2>2 DEF WorkerWrites, ThreadTypes
<1>8. CASE LookerStep
  BY <1>1, <1>8 DEF LookerStep, LookTop, LookShift, LookLeave, LookEmptying,
     LookDecide, LookOffer, ThreadTypes
<1>9. CASE \/ Encode \/ Flush \/ Close \/ PutFrame \/ PutWaits \/ GetFrames
           \/ GetWaits \/ DecideFrames \/ NothingToTake \/ EndWaits \/ EndEmpty
           \/ CountDelayed \/ JoinPool
  BY <1>1, <1>9 DEF Encode, Flush, Close, PutFrame, PutWaits, GetFrames, GetWaits,
     DecideFrames, NothingToTake, EndWaits, EndEmpty, CountDelayed, JoinPool,
     ThreadTypes
<1> QED
  BY <1>2, <1>3, <1>4, <1>5, <1>6, <1>7, <1>8, <1>9 DEF Next, EncoderStep, WorkerStep

\* Every step keeps the types.
LEMMA TypesKeep ==
  ASSUME TypeOK, Lists, Steps, Bounded, Ring, Pool, Next
  PROVE  TypeOK'
BY CallTypesKeep, ListTypesKeep, ThreadTypesKeep, ParamStays, TypeParts

----------------------------------------------------------------------------
(* The caller and the lookahead *)

\* What a thread of the pool changes outside the pool.
LEMMA WorkerLeaves ==
  ASSUME NEW w \in Threads, WorkerStep(w)
  PROVE  /\ encoder' = encoder \/ (encoder = "endSleep" /\ encoder' = "ending")
         /\ UNCHANGED <<lookahead, frames, drained, received, param, i_thread_phase,
                        active, job, exit>>
<1>1. CASE WorkerTop(w)
  BY <1>1 DEF WorkerTop, threads
<1>2. CASE WorkerTakes(w)
  BY <1>2 DEF WorkerTakes, threads
<1>3. CASE WorkerWaits(w)
  BY <1>3 DEF WorkerWaits, threads
<1>4. CASE WorkerWrites(w)
  <2>1. encoder' = encoder \/ (encoder = "endSleep" /\ encoder' = "ending")
    BY <1>4 DEF WorkerWrites
  <2>2. UNCHANGED <<lookahead, frames, drained, received, param, i_thread_phase,
                    active, job, exit>>
    BY <1>4 DEF WorkerWrites
  <2> QED
    BY <2>1, <2>2
<1> QED
  BY <1>1, <1>2, <1>3, <1>4 DEF WorkerStep

\* The steps of the caller.
LEMMA CallerSteps ==
  ASSUME TypeOK, Lists, Steps, Encode \/ Flush \/ Close \/ EncoderStep
  PROVE  Steps'
<1> USE DEF lookahead, pool, frames, threads, lists, flags
<1>1. UNCHANGED Threaded
  BY ParamStays DEF Threaded, Next
<1>2. CASE Encode \/ Flush \/ Close
  BY <1>1, <1>2 DEF Encode, Flush, Close, IfbufFilled, Steps, Pushing
<1>3. CASE PutFrame
  <2>1. ~Threaded => next' # <<>> /\ ifbuf' = ifbuf
    <3>1. i_input \in Frames /\ next \in Seq(Frames)
      BY <1>3, PutLists DEF TypeOK
    <3>2. Append(next, i_input) # <<>>
      <4>1. Len(Append(next, i_input)) = Len(next) + 1 /\ Len(next) \in Nat
        BY <3>1, Appended
      <4>2. Len(<<>>) = 0
        OBVIOUS
      <4> QED
        BY <4>1, <4>2
    <3> QED
      BY <1>3, <3>2 DEF PutFrame
  <2>2. Threaded => next' = next
    BY <1>3 DEF PutFrame
  <2>3. /\ ~b_exit_thread /\ encoder = "pushing" /\ ~leaving
        /\ ~Threaded => looker = "none" /\ looker' = looker
        /\ looker' \in {looker, IfbufFilled}
        /\ UNCHANGED <<b_exit_thread, b_thread_active, ofbuf, leaving, drained, current>>
        /\ \/ encoder' = "idle"
           \/ encoder' = "taking" /\ current # <<>>
           \/ encoder' = "getting" /\ current = <<>>
    BY <1>3 DEF PutFrame, Steps, Pushing
  <2> QED
    BY <1>1, <2>1, <2>2, <2>3 DEF Steps, Pushing, IfbufFilled
<1>4. CASE GetFrames
  <2>1. CASE ofbuf = <<>>
    BY <1>1, <1>4, <2>1 DEF GetFrames, Steps, Pushing
  <2>2. CASE ofbuf # <<>>
    <3>1. current' # <<>>
      <4>1. Grouped(ofbuf, Taken, i_bframes) /\ ofbuf \in Seq(Frames)
        BY DEF Lists, TypeOK
      <4>2. i_bframes \in [Frames -> Nat] /\ Taken \in Int
        <5>1. \A f \in Frames : i_bframes[f] \in Nat
          BY Numbers DEF TypeOK
        <5> QED
          BY <5>1, PositionTypes DEF TypeOK
      <4> DEFINE g == GroupSize(ofbuf)
      <4>3. g \in 1 .. Len(ofbuf)
        <5>1. i_bframes[ofbuf[1]] + 1 \in 1 .. Len(ofbuf)
          BY <2>2, <4>1, <4>2, FirstGroup
        <5>2. Head(ofbuf) = ofbuf[1]
          BY <2>2, <4>1, Behead
        <5> QED
          BY <5>1, <5>2 DEF GroupSize
      <4>4. current' = First(ofbuf, g)
        BY <1>4, <2>2 DEF GetFrames
      <4> HIDE DEF g
      <4>5. g \in 0 .. Len(ofbuf) /\ g # 0
        BY <4>1, <4>3
      <4>6. Len(First(ofbuf, g)) = g
        BY <4>1, <4>5, Split
      <4>7. Len(<<>>) = 0
        OBVIOUS
      <4> QED
        BY <4>4, <4>5, <4>6, <4>7
    <3>2. /\ UNCHANGED <<b_exit_thread, b_thread_active, ifbuf, next, leaving, drained>>
          /\ looker' = OfbufEmptied /\ encoder' = "taking" /\ Threaded
      BY <1>4, <2>2 DEF GetFrames
    <3> QED
      BY <1>1, <3>1, <3>2 DEF OfbufEmptied, Steps, Pushing
  <2> QED
    BY <2>1, <2>2
<1>5. CASE DecideFrames
  <2>1. CASE next = <<>>
    BY <1>1, <1>5, <2>1 DEF DecideFrames, Steps, Pushing
  <2>2. CASE next # <<>>
    <3>1. PICK n \in 0 .. param.bframes : \E p \in CodedOrders(n) : current' = Group(n, p)
      BY <1>5, <2>2 DEF DecideFrames
    <3>2. n \in Nat /\ current' \in Seq(Frames)
      BY <1>5, <3>1, Numbers, DecideFramesLists
    <3>3. current' # <<>>
      <4>1. DOMAIN current' = 1 .. n + 1
        BY <3>1 DEF Group
      <4>2. 1 \in 1 .. n + 1 /\ DOMAIN <<>> = {}
        BY <3>2
      <4> QED
        BY <4>1, <4>2
    <3>4. /\ UNCHANGED <<b_exit_thread, b_thread_active, ifbuf, ofbuf, leaving, drained, looker>>
          /\ encoder' = "taking" /\ ~Threaded /\ looker = "none"
      BY <1>5 DEF DecideFrames, Steps
    <3> QED
      BY <1>1, <3>3, <3>4 DEF Steps, Pushing
  <2> QED
    BY <2>1, <2>2
<1>6. CASE TakeFrame \/ NothingToTake \/ EndFrame \/ EndWaits \/ EndEmpty
  BY <1>1, <1>6 DEF TakeFrame, NothingToTake, EndFrame, EndWaits, EndEmpty, Steps, Pushing
<1>7. CASE CountDelayed \/ PutWaits \/ GetWaits \/ JoinLookahead \/ JoinPool
  BY <1>1, <1>7 DEF CountDelayed, PutWaits, GetWaits, JoinLookahead, JoinPool, Steps, Pushing
<1> QED
  BY <1>2, <1>3, <1>4, <1>5, <1>6, <1>7 DEF EncoderStep

\* The steps of the lookahead thread and of the pool.
LEMMA OtherSteps ==
  ASSUME TypeOK, Lists, Bounded, Steps, LookerStep \/ \E w \in Threads : WorkerStep(w)
  PROVE  Steps'
<1> USE DEF lookahead, pool, frames, threads, lists, flags
<1>1. UNCHANGED Threaded
  BY ParamStays DEF Threaded, Next
<1>2. CASE LookTop
  BY <1>1, <1>2 DEF LookTop, Steps, Pushing
<1>3. CASE LookShift
  <2>1. looker = "shifting" /\ Threaded /\ ~leaving
    BY <1>3 DEF LookShift, Steps
  <2>2. looker' \in {"deciding", "sleeping", "top"}
    BY <1>3, Zenon DEF LookShift
  <2>3. encoder' = encoder \/ (encoder = "pushSleep" /\ encoder' = "pushing")
    BY <1>3 DEF LookShift, IfbufEmptied
  <2>4. UNCHANGED <<b_exit_thread, b_thread_active, ofbuf, leaving, drained, current>>
    BY <1>3 DEF LookShift
  <2> QED
    BY <1>1, <2>1, <2>2, <2>3, <2>4 DEF Steps, Pushing
<1>4. CASE LookLeave
  BY <1>1, <1>4 DEF LookLeave, Steps, Pushing
<1>5. CASE LookEmptying
  BY <1>1, <1>5 DEF LookEmptying, OfbufFilled, Steps, Pushing
<1>6. CASE LookDecide
  <2>1. /\ looker = "deciding" /\ looker' = "decided" /\ Threaded
        /\ UNCHANGED <<encoder, b_exit_thread, b_thread_active, ifbuf, ofbuf, leaving, drained, current>>
    BY <1>6 DEF LookDecide, Steps
  <2> QED
    BY <1>1, <2>1 DEF Steps, Pushing
<1>7. CASE LookOffer
  <2>1. /\ looker = "decided" /\ Threaded
        /\ looker' = "full" \/ looker' = (IF leaving THEN "emptying" ELSE "top")
        /\ encoder' \in {encoder, OfbufFilled}
        /\ UNCHANGED <<b_exit_thread, b_thread_active, ifbuf, leaving, drained, current>>
    BY <1>7 DEF LookOffer, Steps
  <2> QED
    BY <1>1, <2>1 DEF Steps, Pushing, OfbufFilled
<1>8. ASSUME NEW w \in Threads, WorkerStep(w)
      PROVE  Steps'
  <2>1. /\ encoder' = encoder \/ (encoder = "endSleep" /\ encoder' = "ending")
        /\ UNCHANGED <<lookahead, frames, drained>>
    BY <1>8, WorkerLeaves
  <2> QED
    BY <1>1, <2>1 DEF Steps, Pushing
<1> QED
  BY <1>2, <1>3, <1>4, <1>5, <1>6, <1>7, <1>8 DEF LookerStep

\* What the lookahead thread changes of the caller.
LEMMA LookerLeaves ==
  ASSUME LookerStep
  PROVE  /\ \/ encoder' = encoder
            \/ encoder = "pushSleep" /\ encoder' = "pushing"
            \/ encoder = "getSleep" /\ encoder' = "getting"
         /\ UNCHANGED <<frames, b_exit_thread, drained, received, param, threads, pool>>
<1> DEFINE Woken ==
             \/ encoder' = encoder
             \/ encoder = "pushSleep" /\ encoder' = "pushing"
             \/ encoder = "getSleep" /\ encoder' = "getting"
           Kept ==
             UNCHANGED <<frames, b_exit_thread, drained, received, param, threads, pool>>
<1>1. CASE LookTop
  BY <1>1 DEF LookTop, flags
<1>2. CASE LookShift
  <2>1. Woken
    BY <1>2 DEF LookShift, IfbufEmptied
  <2>2. Kept
    BY <1>2 DEF LookShift, flags
  <2> QED
    BY <2>1, <2>2
<1>3. CASE LookLeave
  BY <1>3 DEF LookLeave, flags
<1>4. CASE LookEmptying
  BY <1>4 DEF LookEmptying, OfbufFilled, flags
<1>5. CASE LookDecide
  BY <1>5 DEF LookDecide, flags
<1>6. CASE LookOffer
  BY <1>6 DEF LookOffer, OfbufFilled, flags
<1> QED
  BY <1>1, <1>2, <1>3, <1>4, <1>5, <1>6 DEF LookerStep

\* The caller takes frames as soon as there are more than Fill, and not before.
LEMMA CountsKeep ==
  ASSUME TypeOK, Lists, Steps, Bounded, Filling, Next
  PROVE  Bounded' /\ Filling'
<1> USE DEF Entered, frames
<1>1. Fill \in Nat /\ Fill' = Fill
  <2>1. Fill' = Fill
    BY ParamStays DEF Fill, i_delay
  <2> QED
    BY <2>1, Room
<1>2. i_input \in Nat /\ coded \in Nat /\ coded <= i_input
  BY Numbers
<1>3. CASE Encode
  <2>1. /\ encoder = "idle" /\ encoder' = "pushing" /\ i_input' = i_input + 1
        /\ coded' = coded /\ b_exit_thread' = b_exit_thread /\ ~b_exit_thread
    BY <1>3 DEF Encode, lookahead, flags
  <2>2. i_input' - coded' <= Fill + 1
    BY <1>1, <1>2, <2>1 DEF Bounded
  <2>3. i_input' <= Fill => i_input <= Fill
    BY <1>1, <1>2, <2>1
  <2> QED
    BY <1>1, <2>1, <2>2, <2>3 DEF Bounded, Filling
<1>4. CASE PutFrame
  <2>1. /\ encoder = "pushing" /\ UNCHANGED <<i_input, coded, b_exit_thread>>
        /\ \/ encoder' = "idle" /\ i_input <= Fill
           \/ encoder' \in {"taking", "getting"} /\ ~(i_input <= Fill)
    BY <1>4 DEF PutFrame, flags
  <2>2. i_input <= Fill => i_input - coded <= Fill
    BY <1>1, <1>2
  <2> QED
    BY <1>1, <1>2, <2>1, <2>2 DEF Bounded, Filling
<1>5. CASE Flush \/ Close
  <2>1. /\ encoder = "idle" /\ UNCHANGED <<i_input, coded>> /\ b_exit_thread'
    BY <1>5 DEF Flush, Close
  <2> QED
    BY <1>1, <2>1 DEF Bounded, Filling
<1>6. CASE TakeFrame
  <2>1. /\ encoder = "taking" /\ encoder' = "ending" /\ coded' = coded + 1
        /\ UNCHANGED <<i_input, b_exit_thread>>
    BY <1>6 DEF TakeFrame, lookahead, flags
  <2>2. i_input' - coded' <= Fill
    BY <1>1, <1>2, <2>1 DEF Bounded
  <2> QED
    BY <1>1, <2>1, <2>2 DEF Bounded, Filling
<1>7. CASE NothingToTake
  <2>1. /\ encoder = "taking" /\ encoder' = "ending" /\ b_exit_thread
        /\ UNCHANGED <<i_input, coded, b_exit_thread>>
    BY <1>7 DEF NothingToTake, Steps, lookahead, flags
  <2> QED
    BY <1>1, <2>1 DEF Bounded, Filling
<1>8. CASE PutWaits \/ GetFrames \/ GetWaits \/ DecideFrames
  <2>1. /\ encoder \in {"pushing", "getting"}
        /\ encoder = "pushing" => encoder' = "pushSleep"
        /\ encoder = "getting" => encoder' \in {"taking", "getSleep"}
        /\ UNCHANGED <<i_input, coded, b_exit_thread>>
    BY <1>8 DEF PutWaits, GetFrames, GetWaits, DecideFrames, lookahead, flags
  <2> QED
    BY <1>1, <2>1 DEF Bounded, Filling
<1>9. CASE EndFrame \/ EndWaits \/ EndEmpty \/ JoinLookahead \/ JoinPool
  <2>1. /\ encoder \in {"ending", "closing", "joining"}
        /\ encoder' \in {"idle", "endSleep", "counting", "joining", "closed"}
        /\ UNCHANGED <<i_input, coded, b_exit_thread>>
    BY <1>9 DEF EndFrame, EndWaits, EndEmpty, JoinLookahead, JoinPool, lookahead, flags
  <2> QED
    BY <1>1, <2>1 DEF Bounded, Filling
<1>10. CASE CountDelayed
  <2>1. /\ encoder = "counting" /\ b_exit_thread
        /\ UNCHANGED <<i_input, coded, b_exit_thread>>
    BY <1>10 DEF CountDelayed, Steps, lookahead, flags
  <2> QED
    BY <1>1, <2>1 DEF Bounded, Filling
<1>11. CASE LookerStep
  <2>1. UNCHANGED <<i_input, coded, b_exit_thread>>
    BY <1>11, LookerLeaves
  <2> QED
    BY <1>1, <1>11, <2>1, LookerLeaves DEF Bounded, Filling
<1>12. ASSUME NEW w \in Threads, WorkerStep(w)
       PROVE  Bounded' /\ Filling'
  <2>1. UNCHANGED <<i_input, coded, b_exit_thread>>
    BY <1>12, WorkerLeaves DEF lookahead, flags
  <2> QED
    BY <1>1, <1>12, <2>1, WorkerLeaves DEF Bounded, Filling
<1> QED
  BY <1>3, <1>4, <1>5, <1>6, <1>7, <1>8, <1>9, <1>10, <1>11, <1>12 DEF Next, EncoderStep

----------------------------------------------------------------------------
(* The frame threads *)

\* How many calls ago a frame thread was given its frame.
LEMMA Ages ==
  ASSUME TypeOK
  PROVE  /\ \A t \in Threads : Age(t) \in Nat /\ Age(t) <= param.threads - 1
         /\ \A t \in Threads : Age(t) = 0 <=> t = i_thread_phase
         /\ Age(Oldest) = param.threads - 1 /\ Oldest \in Threads
         /\ \A t \in Threads : t # Oldest => Age(t) < param.threads - 1
<1>1. /\ param.threads \in Nat /\ param.threads > 0
      /\ i_thread_phase \in 0 .. param.threads - 1
  BY Numbers DEF TypeOK, Threads
<1>2. /\ Oldest \in Threads
      /\ Oldest = IF i_thread_phase + 1 = param.threads THEN 0 ELSE i_thread_phase + 1
  BY NextPhaseType
<1> QED
  BY <1>1, <1>2 DEF Age, Threads

\* A call later.
LEMMA AgesGrow ==
  ASSUME TypeOK, param' = param, i_thread_phase' = NextPhase
  PROVE  \A t \in Threads : t # Oldest => Age(t)' = Age(t) + 1
<1>1. /\ param.threads \in Nat /\ param.threads > 0
      /\ i_thread_phase \in 0 .. param.threads - 1
  BY Numbers DEF TypeOK, Threads
<1>2. /\ NextPhase = IF i_thread_phase + 1 = param.threads THEN 0 ELSE i_thread_phase + 1
      /\ Oldest = NextPhase
  BY NextPhaseType
<1>3. i_thread_phase' \in 0 .. param.threads - 1
  BY <1>1, <1>2
<1> QED
  BY <1>1, <1>2, <1>3 DEF Age, Threads

\* The types that count here.
LEMMA RingTypes ==
  ASSUME TypeOK
  PROVE  /\ Live \subseteq Threads /\ job \in [Threads -> Nat]
         /\ coded \in Nat /\ received \in Nat /\ received <= coded
         /\ i_input \in Nat /\ coded <= i_input
<1>1. \A n \in 0 .. MaxFrames : n \in Nat
  BY ParamsAssumption
<1>2. Live \subseteq Threads /\ job \in [Threads -> Nat]
  BY <1>1 DEF TypeOK, Live
<1> QED
  BY <1>2, Numbers

\* A step that starts no frame, receives none and makes no call.
LEMMA RingStays ==
  ASSUME TypeOK, Ring, Live' = Live, Entered' = Entered,
         UNCHANGED <<param, i_thread_phase, job, received, coded, i_input>>,
         b_exit_thread => b_exit_thread',
         encoder' \in {"idle", "counting"} => Oldest \notin Live
  PROVE  Ring'
<1>1. \A t : Age(t)' = Age(t)
  BY DEF Age
<1>2. Oldest' = Oldest
  BY DEF Oldest
<1>3. /\ \A t \in Live' : job'[t] \in received' + 1 .. coded'
      /\ \A k \in received' + 1 .. coded' : \E t \in Live' : job'[t] = k
  BY DEF Ring
<1>4. PICK lag \in Nat : Aged(lag)
  BY DEF Ring
<1>5. Aged(lag)'
  BY <1>1, <1>4 DEF Aged
<1> QED
  BY <1>2, <1>3, <1>4, <1>5 DEF Ring

\* A call: every frame is a call older.
LEMMA RingCalls ==
  ASSUME TypeOK, Ring, encoder \in {"idle", "counting"}, Live' = Live, Entered',
         UNCHANGED <<param, job, received, coded>>, i_thread_phase' = NextPhase,
         \/ i_input' = i_input /\ b_exit_thread'
         \/ ~b_exit_thread
  PROVE  Ring'
<1>1. \A t \in Live : Age(t)' = Age(t) + 1 /\ Age(t) \in Nat
  BY AgesGrow, Ages, RingTypes DEF Ring
<1>2. /\ \A t \in Live' : job'[t] \in received' + 1 .. coded'
      /\ \A k \in received' + 1 .. coded' : \E t \in Live' : job'[t] = k
  BY DEF Ring
<1>3. PICK lag \in Nat : Aged(lag)
  BY DEF Ring
<1>4. lag + 1 \in Nat /\ lag + 1 >= 1
  OBVIOUS
<1>5. \A t \in Live' : job'[t] = coded' + (lag + 1) - Age(t)'
  <2>1. \A t \in Live : job[t] = coded + lag - Age(t)
    BY <1>3 DEF Aged
  <2>2. coded \in Nat
    BY RingTypes
  <2> QED
    BY <1>1, <2>1, <2>2
<1>6. ~Entered
  BY DEF Entered
<1>7. coded' < i_input' \/ ~b_exit_thread' => lag + 1 = 1
  BY <1>3, <1>6 DEF Aged
<1>8. Aged(lag + 1)'
  BY <1>4, <1>5, <1>7 DEF Aged
<1>9. ~(encoder' \in {"idle", "counting"})
  BY DEF Entered
<1> QED
  BY <1>2, <1>4, <1>8, <1>9 DEF Ring

\* The frame thread that is next has no frame when one is started.
LEMMA FreeThread ==
  ASSUME TypeOK, Ring, Entered, coded < i_input
  PROVE  /\ i_thread_phase \notin Live
         /\ \A t \in Live : job[t] = coded + 1 - Age(t)
<1>1. PICK lag \in Nat : Aged(lag)
  BY DEF Ring
<1>2. lag = 1
  BY <1>1 DEF Aged
<1>3. \A t \in Live : job[t] = coded + 1 - Age(t)
  BY <1>1, <1>2 DEF Aged
<1>4. ASSUME i_thread_phase \in Live
      PROVE  FALSE
  <2>1. i_thread_phase \in Threads /\ coded \in Nat /\ received \in Nat
    BY <1>4, RingTypes
  <2>2. Age(i_thread_phase) = 0
    BY <2>1, Ages
  <2>3. job[i_thread_phase] = coded + 1 - Age(i_thread_phase)
    BY <1>3, <1>4
  <2>4. job[i_thread_phase] \in received + 1 .. coded
    BY <1>4 DEF Ring
  <2> QED
    BY <2>1, <2>2, <2>3, <2>4
<1> QED
  BY <1>3, <1>4

\* What starting a frame does to the frame threads.
LEMMA TakeThreads ==
  ASSUME TypeOK, Lists, Ring, Pool, TakeFrame
  PROVE  /\ coded < i_input /\ coded' = coded + 1
         /\ i_thread_phase \in Threads \ Live
         /\ Live' = Live \cup {i_thread_phase}
         /\ job'[i_thread_phase] = coded + 1
         /\ \A t \in Live : job'[t] = job[t]
         /\ UNCHANGED <<param, i_thread_phase, received, i_input, b_exit_thread>>
         /\ encoder = "taking" /\ encoder' = "ending"
<1>1. coded < i_input /\ coded' = coded + 1 /\ encoder = "taking" /\ encoder' = "ending"
  BY TakeNumbers DEF TakeFrame
<1>2. i_thread_phase \notin Live /\ i_thread_phase \in Threads
  BY <1>1, FreeThread DEF TypeOK, Entered
<1>3. job' = [job EXCEPT ![i_thread_phase] = coded + 1] /\ job \in [Threads -> Nat]
      /\ Live \subseteq Threads
  BY RingTypes DEF TakeFrame
<1>4. Live' = Live \cup {i_thread_phase}
  <2>1. CASE param.threads > 1
    <3>1. active' = active \cup {i_thread_phase} /\ written' = written
      BY <2>1 DEF TakeFrame
    <3> QED
      BY <3>1 DEF Live
  <2>2. CASE ~(param.threads > 1)
    <3>1. param.threads = 1
      BY <2>2, Numbers
    <3>2. Threads = {0}
      BY <3>1 DEF Threads
    <3>3. Live = {}
      BY <1>2, <1>3, <3>2
    <3>4. active' = active /\ written' = {i_thread_phase} /\ active = {}
      BY <2>2, <3>1 DEF TakeFrame, Pool
    <3> QED
      BY <3>3, <3>4 DEF Live
  <2> QED
    BY <2>1, <2>2
<1>5. UNCHANGED <<param, i_thread_phase, received, i_input, b_exit_thread>>
  BY DEF TakeFrame, lookahead, flags
<1> QED
  BY <1>1, <1>2, <1>3, <1>4, <1>5

\* A frame is started.
LEMMA RingTakes ==
  ASSUME TypeOK, Lists, Ring, Pool, TakeFrame
  PROVE  Ring'
<1>1. /\ coded < i_input /\ coded' = coded + 1
      /\ i_thread_phase \in Threads \ Live /\ Live' = Live \cup {i_thread_phase}
      /\ job'[i_thread_phase] = coded + 1 /\ \A t \in Live : job'[t] = job[t]
      /\ UNCHANGED <<param, i_thread_phase, received, i_input, b_exit_thread>>
      /\ encoder = "taking" /\ encoder' = "ending"
  BY TakeThreads
<1>2. coded \in Nat /\ received \in Nat /\ received <= coded /\ Live \subseteq Threads
  BY RingTypes
<1>3. \A t \in Threads : Age(t)' = Age(t) /\ Age(t) \in Nat
  <2>1. \A t : Age(t)' = Age(t)
    BY <1>1 DEF Age
  <2> QED
    BY <2>1, Ages
<1>4. ASSUME NEW t \in Live'
      PROVE  job'[t] \in received + 1 .. coded + 1
  <2>1. t \in Live => job[t] \in received + 1 .. coded
    BY DEF Ring
  <2> QED
    BY <1>1, <1>2, <2>1
<1>5. ASSUME NEW k \in received + 1 .. coded + 1
      PROVE  \E t \in Live' : job'[t] = k
  <2>1. CASE k = coded + 1
    BY <1>1, <2>1
  <2>2. CASE k # coded + 1
    <3>1. k \in received + 1 .. coded
      BY <1>2, <2>2
    <3>2. \E t \in Live : job[t] = k
      BY <3>1 DEF Ring
    <3> QED
      BY <1>1, <3>2
  <2> QED
    BY <2>1, <2>2
<1>6. ASSUME NEW t \in Live'
      PROVE  job'[t] = coded + 1 + 0 - Age(t)
  <2>1. CASE t = i_thread_phase
    <3>1. Age(t) = 0
      BY <1>1, <2>1, Ages
    <3> QED
      BY <1>1, <1>2, <2>1, <3>1
  <2>2. CASE t \in Live
    <3>1. job[t] = coded + 1 - Age(t) /\ Age(t) \in Nat
      BY <1>1, <1>2, <1>3, <2>2, FreeThread DEF Entered
    <3> QED
      BY <1>1, <1>2, <2>2, <3>1
  <2> QED
    BY <1>1, <2>1, <2>2
<1>7. ~Entered' /\ ~(encoder' \in {"idle", "counting"})
  BY <1>1 DEF Entered
<1>8. \A t \in Live' : t \in Threads
  BY <1>1, <1>2
<1>9. Aged(0)'
  BY <1>1, <1>3, <1>6, <1>7, <1>8 DEF Aged
<1> QED
  BY <1>1, <1>4, <1>5, <1>7, <1>9 DEF Ring

\* The output that is received is that of the frame after the last one received.
LEMMA OldestIsNext ==
  ASSUME TypeOK, Ring, Oldest \in Live
  PROVE  /\ job[Oldest] = received + 1
         /\ \A t \in Live : t # Oldest => job[t] > job[Oldest]
<1>1. coded \in Nat /\ received \in Nat /\ Live \subseteq Threads
  BY RingTypes
<1>2. PICK lag \in Nat : Aged(lag)
  BY DEF Ring
<1>3. \A t \in Live : job[t] = coded + lag - Age(t)
  BY <1>2 DEF Aged
<1>4. ASSUME NEW t \in Live, t # Oldest
      PROVE  job[t] > job[Oldest]
  <2>1. /\ Age(t) \in Nat /\ Age(Oldest) \in Nat /\ Age(t) < Age(Oldest)
    BY <1>1, <1>4, Ages
  <2>2. job[t] = coded + lag - Age(t) /\ job[Oldest] = coded + lag - Age(Oldest)
    BY <1>3
  <2> QED
    BY <1>1, <2>1, <2>2
<1>5. job[Oldest] \in received + 1 .. coded
  BY DEF Ring
<1>6. received + 1 \in received + 1 .. coded
  BY <1>1, <1>5
<1>7. PICK t \in Live : job[t] = received + 1
  BY <1>6 DEF Ring
<1>8. job[Oldest] = received + 1
  BY <1>1, <1>4, <1>5, <1>7
<1> QED
  BY <1>4, <1>8

\* An output is received.
LEMMA RingEnds ==
  ASSUME TypeOK, Ring, EndFrame
  PROVE  Ring'
<1>1. /\ encoder = "ending" /\ encoder' = "idle" /\ Oldest \in Live
      /\ received' = job[Oldest] /\ Live' = Live \ {Oldest}
      /\ UNCHANGED <<param, i_thread_phase, job, coded, i_input, b_exit_thread>>
  BY DEF EndFrame, Live, lookahead, flags, frames
<1>2. coded \in Nat /\ received \in Nat
  BY RingTypes
<1>3. received' = received + 1 /\ \A t \in Live : t # Oldest => job[t] > received + 1
  BY <1>1, OldestIsNext
<1>4. ASSUME NEW t \in Live'
      PROVE  job[t] \in received' + 1 .. coded
  <2>1. t \in Live /\ t # Oldest
    BY <1>1
  <2>2. job[t] \in received + 1 .. coded /\ job[t] > received + 1
    BY <1>3, <2>1 DEF Ring
  <2> QED
    BY <1>2, <1>3, <2>2
<1>5. ASSUME NEW k \in received' + 1 .. coded
      PROVE  \E t \in Live' : job[t] = k
  <2>1. k \in received + 1 .. coded /\ k # received + 1
    BY <1>2, <1>3
  <2>2. PICK t \in Live : job[t] = k
    BY <2>1 DEF Ring
  <2>3. t # Oldest
    BY <1>1, <1>3, <2>1, <2>2
  <2> QED
    BY <1>1, <2>2, <2>3
<1>6. PICK lag \in Nat : Aged(lag)
  BY DEF Ring
<1>7. Aged(lag)'
  <2>1. \A t : Age(t)' = Age(t)
    BY <1>1 DEF Age
  <2>2. ~Entered /\ ~Entered'
    BY <1>1 DEF Entered
  <2> QED
    BY <1>1, <1>6, <2>1, <2>2 DEF Aged
<1>8. Oldest' = Oldest
  BY <1>1 DEF Oldest
<1> QED
  BY <1>1, <1>4, <1>5, <1>7, <1>8 DEF Ring

\* Every step keeps the frame threads in turn.
LEMMA RingKeep ==
  ASSUME TypeOK, Lists, Steps, Filling, Ring, Pool, Next
  PROVE  Ring'
<1> USE DEF lookahead, pool, frames, threads, flags
<1>1. CASE Encode
  <2>1. /\ encoder = "idle" /\ encoder' = "pushing" /\ i_thread_phase' = NextPhase
        /\ UNCHANGED <<param, job, received, coded, active, written>> /\ ~b_exit_thread
    BY <1>1 DEF Encode
  <2> QED
    BY <2>1, RingCalls DEF Live, Entered
<1>2. CASE Flush
  <2>1. /\ encoder = "idle" /\ encoder' \in {"taking", "getting"}
        /\ i_thread_phase' = NextPhase /\ i_input' = i_input /\ b_exit_thread'
        /\ UNCHANGED <<param, job, received, coded, active, written>>
    BY <1>2 DEF Flush
  <2> QED
    BY <2>1, RingCalls DEF Live, Entered
<1>3. CASE CountDelayed
  <2>1. /\ encoder = "counting" /\ b_exit_thread /\ b_exit_thread'
        /\ UNCHANGED <<param, job, received, coded, active, written, i_input>>
        /\ \/ encoder' = "idle" /\ i_thread_phase' = i_thread_phase
           \/ encoder' \in {"taking", "getting"} /\ i_thread_phase' = NextPhase
    BY <1>3 DEF CountDelayed, Steps
  <2>2. CASE encoder' = "idle" /\ i_thread_phase' = i_thread_phase
    <3>1. Oldest \notin Live
      BY <2>1 DEF Ring
    <3> QED
      BY <2>1, <2>2, <3>1, RingStays DEF Live, Entered
  <2>3. CASE encoder' \in {"taking", "getting"} /\ i_thread_phase' = NextPhase
    BY <2>1, <2>3, RingCalls DEF Live, Entered
  <2> QED
    BY <2>1, <2>2, <2>3
<1>4. CASE TakeFrame \/ EndFrame
  BY <1>4, RingTakes, RingEnds
<1>5. CASE PutFrame
  <2>1. /\ encoder = "pushing" /\ ~b_exit_thread /\ b_exit_thread' = b_exit_thread
        /\ UNCHANGED <<param, i_thread_phase, job, received, coded, i_input, active, written>>
        /\ \/ encoder' = "idle" /\ i_input <= Fill
           \/ encoder' \in {"taking", "getting"}
    BY <1>5 DEF PutFrame, Steps, Pushing
  <2>2. CASE encoder' = "idle" /\ i_input <= Fill
    <3>1. coded = 0 /\ Live \subseteq Threads /\ received \in Nat
      BY <2>1, <2>2, RingTypes DEF Filling
    <3>2. Live = {}
      <4>1. \A t \in Live : job[t] \in received + 1 .. 0
        BY <3>1 DEF Ring
      <4>2. \A j : ~(j \in received + 1 .. 0)
        BY <3>1
      <4> QED
        BY <4>1, <4>2
    <3>3. Live' = {} /\ ~Entered'
      BY <2>1, <2>2, <3>2 DEF Live, Entered
    <3>4. Aged(0)'
      BY <3>3 DEF Aged
    <3>5. /\ \A k \in received + 1 .. coded : FALSE
          /\ received' = received /\ coded' = coded
      BY <2>1, <3>2 DEF Ring
    <3> QED
      BY <3>3, <3>4, <3>5 DEF Ring
  <2>3. CASE encoder' \in {"taking", "getting"}
    BY <2>1, <2>3, RingStays DEF Live, Entered
  <2> QED
    BY <2>1, <2>2, <2>3
<1>6. CASE NothingToTake
  <2>1. /\ encoder = "taking" /\ encoder' = "ending" /\ b_exit_thread /\ b_exit_thread'
        /\ current = <<>> /\ next = <<>> /\ ofbuf = <<>> /\ ifbuf = <<>>
        /\ UNCHANGED <<param, i_thread_phase, job, received, coded, i_input, active, written>>
    BY <1>6 DEF NothingToTake, Steps
  <2>2. coded = i_input
    <3>1. coded \in Nat /\ Len(<<>>) = 0
      BY Numbers
    <3>2. Seen = coded
      BY <2>1, <3>1 DEF Seen, Offered, Taken
    <3> QED
      BY <2>1, <3>1, <3>2 DEF Lists, Conserved, Pushing
  <2>3. Live' = Live /\ ~Entered' /\ \A t : Age(t)' = Age(t)
    BY <2>1 DEF Live, Entered, Age
  <2>4. PICK lag \in Nat : Aged(lag)
    BY DEF Ring
  <2>5. ~(coded' < i_input')
    BY <2>1, <2>2, Numbers
  <2>6. Aged(lag)'
    BY <2>1, <2>3, <2>4, <2>5 DEF Aged
  <2> QED
    BY <2>1, <2>3, <2>6 DEF Ring
<1>7. CASE PutWaits \/ GetFrames \/ GetWaits \/ DecideFrames
  <2>1. /\ encoder \in {"pushing", "getting"}
        /\ encoder' \in {"pushSleep", "getSleep", "taking"}
        /\ b_exit_thread' = b_exit_thread
        /\ UNCHANGED <<param, i_thread_phase, job, received, coded, i_input, active, written>>
    BY <1>7 DEF PutWaits, GetFrames, GetWaits, DecideFrames
  <2> QED
    BY <2>1, RingStays DEF Live, Entered
<1>8. CASE EndWaits \/ EndEmpty \/ Close \/ JoinLookahead \/ JoinPool
  <2>1. /\ encoder \in {"ending", "idle", "closing", "joining"}
        /\ encoder' \in {"endSleep", "counting", "idle", "closing", "joining", "closed"}
        /\ b_exit_thread => b_exit_thread'
        /\ UNCHANGED <<param, i_thread_phase, job, received, coded, i_input, active, written>>
        /\ encoder' \in {"counting", "idle"} => Oldest \notin Live
    BY <1>8 DEF EndWaits, EndEmpty, Close, JoinLookahead, JoinPool, Live
  <2> QED
    BY <2>1, RingStays DEF Live, Entered
<1>9. CASE LookerStep
  <2>1. /\ \/ encoder' = encoder
           \/ encoder = "pushSleep" /\ encoder' = "pushing"
           \/ encoder = "getSleep" /\ encoder' = "getting"
        /\ b_exit_thread' = b_exit_thread
        /\ UNCHANGED <<param, i_thread_phase, job, received, coded, i_input, active, written>>
    BY <1>9, LookerLeaves
  <2>2. encoder' \in {"idle", "counting"} => Oldest \notin Live
    BY <2>1 DEF Ring
  <2> QED
    BY <2>1, <2>2, RingStays DEF Live, Entered
<1>10. ASSUME NEW w \in Threads, WorkerStep(w)
       PROVE  Ring'
  <2>1. /\ encoder' = encoder \/ (encoder = "endSleep" /\ encoder' = "ending")
        /\ b_exit_thread' = b_exit_thread
        /\ UNCHANGED <<param, i_thread_phase, job, received, coded, i_input, active>>
    BY <1>10, WorkerLeaves
  <2>2. Live' = Live
    <3>1. CASE WorkerTop(w) \/ WorkerTakes(w) \/ WorkerWaits(w)
      BY <3>1 DEF WorkerTop, WorkerTakes, WorkerWaits, Live
    <3>2. CASE WorkerWrites(w)
      <4>1. task[w] \in active /\ written' = written \cup {task[w]}
        BY <1>10, <3>2 DEF WorkerWrites, Pool, Writing
      <4> QED
        BY <2>1, <4>1 DEF Live
    <3> QED
      BY <1>10, <3>1, <3>2 DEF WorkerStep
  <2>3. encoder' \in {"idle", "counting"} => Oldest \notin Live
    BY <2>1 DEF Ring
  <2> QED
    BY <2>1, <2>2, <2>3, RingStays DEF Entered
<1> QED
  BY <1>1, <1>2, <1>3, <1>4, <1>5, <1>6, <1>7, <1>8, <1>9, <1>10 DEF Next, EncoderStep

----------------------------------------------------------------------------
(* The pool *)

\* The workers that sleep are woken: the jobs stay where they are.
LEMMA PoolAwake ==
  ASSUME TypeOK, Pool, worker' = AllAwake, param' = param
  PROVE  /\ Writing' = Writing
         /\ param.threads = 1 => \A w \in Threads' : worker'[w] = "ended"
<1>1. Threads' = Threads
  BY DEF Threads
<1>2. \A w \in Threads : worker'[w] = IF worker[w] = "sleeping" THEN "asking" ELSE worker[w]
  BY DEF AllAwake
<1>3. Writing' = Writing
  BY <1>1, <1>2 DEF Writing
<1> QED
  BY <1>1, <1>2, <1>3 DEF Pool

\* A frame is started: there is a job for it.
LEMMA PoolTakes ==
  ASSUME TypeOK, Lists, Ring, Pool, TakeFrame
  PROVE  Pool'
<1>1. /\ i_thread_phase \in Threads \ Live /\ Live \subseteq Threads
      /\ UNCHANGED <<param, task>>
  BY TakeThreads, RingTypes DEF TakeFrame
<1>2. Threads' = Threads
  BY <1>1 DEF Threads
<1>3. CASE param.threads > 1
  <2>1. /\ active' = active \cup {i_thread_phase} /\ written' = written
        /\ run' = Append(run, i_thread_phase) /\ worker' = AllAwake
    BY <1>3 DEF TakeFrame
  <2>2. Writing' = Writing
    BY <1>1, <2>1, PoolAwake
  <2>3. /\ run \in Seq(Threads) /\ run' \in Seq(Threads)
        /\ Len(run) \in Nat /\ Len(run') = Len(run) + 1
        /\ \A k \in 1 .. Len(run) : run'[k] = run[k]
        /\ run'[Len(run) + 1] = i_thread_phase
    <3>1. run \in Seq(Threads)
      BY DEF TypeOK
    <3>2. Len(run) \in Nat
      BY <3>1
    <3> QED
      BY <1>1, <2>1, <3>1, <3>2, Appended
  <2>4. /\ i_thread_phase \notin active /\ i_thread_phase \notin written
        /\ \A k \in 1 .. Len(run) : run[k] \in active \ written /\ run[k] # i_thread_phase
    BY <1>1 DEF Live, Pool
  <2>5. \A k \in 1 .. Len(run') : k \in 1 .. Len(run) \/ k = Len(run) + 1
    BY <2>3
  <2>6. \A i \in 1 .. Len(run') : run'[i] \in active' \ written'
    BY <2>1, <2>3, <2>4, <2>5
  <2>7. ASSUME NEW i \in 1 .. Len(run'), NEW j \in 1 .. Len(run'), run'[i] = run'[j]
        PROVE  i = j
    <3>1. i \in 1 .. Len(run) <=> j \in 1 .. Len(run)
      BY <2>3, <2>4, <2>5, <2>7
    <3>2. i \in 1 .. Len(run) /\ j \in 1 .. Len(run) => run[i] = run[j]
      BY <2>3, <2>7
    <3> QED
      BY <2>5, <3>1, <3>2 DEF Pool
  <2>8. \A w \in Writing' :
          /\ task'[w] \in active' \ written'
          /\ \A i \in 1 .. Len(run') : run'[i] # task'[w]
          /\ \A v \in Writing' : task'[v] = task'[w] => v = w
    <3>1. \A w \in Writing :
            /\ task[w] \in active \ written
            /\ \A i \in 1 .. Len(run) : run[i] # task[w]
            /\ \A v \in Writing : task[v] = task[w] => v = w
      BY DEF Pool
    <3>2. \A w \in Writing : task[w] # i_thread_phase
      BY <2>4, <3>1
    <3> QED
      BY <1>1, <2>1, <2>2, <2>3, <2>5, <3>1, <3>2
  <2>9. param'.threads > 1 => written' \subseteq active'
    BY <1>3, <2>1 DEF Pool
  <2>10. param'.threads # 1
    BY <1>1, <1>3, Numbers
  <2> QED
    BY <2>6, <2>7, <2>8, <2>9, <2>10 DEF Pool
<1>4. CASE ~(param.threads > 1)
  <2>1. param.threads = 1 /\ UNCHANGED <<active, run, worker>>
    BY <1>4, Numbers DEF TakeFrame
  <2>2. active = {} /\ run = <<>> /\ \A w \in Threads : worker[w] = "ended"
    BY <2>1 DEF Pool
  <2>3. Writing' = {} /\ Len(<<>>) = 0
    BY <1>2, <2>1, <2>2 DEF Writing
  <2>4. \A i \in 1 .. Len(run') : FALSE
    BY <2>1, <2>2, <2>3
  <2> QED
    BY <1>1, <1>2, <1>4, <2>1, <2>2, <2>3, <2>4 DEF Pool
<1> QED
  BY <1>3, <1>4

\* A worker takes the first job of the queue.
LEMMA PoolWorks ==
  ASSUME TypeOK, Pool, NEW w \in Threads, WorkerTakes(w)
  PROVE  Pool'
<1>1. /\ worker[w] = "asking" /\ run # <<>> /\ run' = Tail(run)
      /\ worker' = [worker EXCEPT ![w] = "writing"]
      /\ task' = [task EXCEPT ![w] = Head(run)]
      /\ UNCHANGED <<param, active, written>>
  BY DEF WorkerTakes, threads
<1>2. /\ run \in Seq(Threads) /\ DOMAIN worker = Threads /\ DOMAIN task = Threads
      /\ Threads' = Threads
  BY <1>1 DEF TypeOK, Threads
<1>3. /\ Head(run) = run[1] /\ Len(run) \in Nat /\ Len(run) > 0
      /\ Len(run') = Len(run) - 1
      /\ \A k \in 1 .. Len(run') : run'[k] = run[k + 1]
  BY <1>1, <1>2, Behead
<1>4. /\ 1 \in 1 .. Len(run)
      /\ \A k \in 1 .. Len(run') : k + 1 \in 1 .. Len(run) /\ k + 1 # 1
  BY <1>3
<1>5. /\ Writing' = Writing \cup {w} /\ w \notin Writing
      /\ task'[w] = run[1] /\ \A v \in Writing : task'[v] = task[v]
  BY <1>1, <1>2, <1>3 DEF Writing
<1>6. /\ \A i \in 1 .. Len(run) : run[i] \in active \ written
      /\ \A i, j \in 1 .. Len(run) : run[i] = run[j] => i = j
      /\ \A v \in Writing :
           /\ task[v] \in active \ written
           /\ \A i \in 1 .. Len(run) : run[i] # task[v]
           /\ \A u \in Writing : task[u] = task[v] => u = v
  BY DEF Pool
<1>7. param.threads # 1
  BY <1>1 DEF Pool
<1>8. /\ \A i \in 1 .. Len(run') : run'[i] \in active' \ written'
      /\ \A i \in 1 .. Len(run') : run'[i] # run[1]
  BY <1>1, <1>3, <1>4, <1>6
<1>9. ASSUME NEW i \in 1 .. Len(run'), NEW j \in 1 .. Len(run'), run'[i] = run'[j]
      PROVE  i = j
  <2>1. i + 1 = j + 1
    BY <1>3, <1>4, <1>6, <1>9
  <2> QED
    BY <1>3, <2>1
<1>10. \A v \in Writing' :
         /\ task'[v] \in active' \ written'
         /\ \A i \in 1 .. Len(run') : run'[i] # task'[v]
         /\ \A u \in Writing' : task'[u] = task'[v] => u = v
  BY <1>1, <1>3, <1>4, <1>5, <1>6, <1>8
<1>11. param'.threads > 1 => written' \subseteq active'
  BY <1>1 DEF Pool
<1>12. param'.threads # 1
  BY <1>1, <1>7
<1> QED
  BY <1>8, <1>9, <1>10, <1>11, <1>12 DEF Pool

\* A worker has written its frame.
LEMMA PoolWrites ==
  ASSUME TypeOK, Pool, NEW w \in Threads, WorkerWrites(w)
  PROVE  Pool'
<1>1. /\ worker[w] = "writing" /\ written' = written \cup {task[w]}
      /\ worker' = [worker EXCEPT ![w] = "top"] /\ task' = [task EXCEPT ![w] = None]
      /\ UNCHANGED <<param, active, run>>
  BY DEF WorkerWrites
<1>2. DOMAIN worker = Threads /\ DOMAIN task = Threads /\ Threads' = Threads
  BY <1>1 DEF TypeOK, Threads
<1>3. /\ w \in Writing /\ Writing' = Writing \ {w}
      /\ \A v \in Writing' : task'[v] = task[v]
  BY <1>1, <1>2 DEF Writing
<1>4. \A v \in Writing :
        /\ task[v] \in active \ written
        /\ \A i \in 1 .. Len(run) : run[i] # task[v]
        /\ \A u \in Writing : task[u] = task[v] => u = v
  BY DEF Pool
<1>5. \A i \in 1 .. Len(run') : run'[i] \in active' \ written'
  BY <1>1, <1>3, <1>4 DEF Pool
<1>6. \A i, j \in 1 .. Len(run') : run'[i] = run'[j] => i = j
  BY <1>1 DEF Pool
<1>7. \A v \in Writing' :
        /\ task'[v] \in active' \ written'
        /\ \A i \in 1 .. Len(run') : run'[i] # task'[v]
        /\ \A u \in Writing' : task'[u] = task'[v] => u = v
  BY <1>1, <1>3, <1>4
<1>8. param'.threads > 1 => written' \subseteq active'
  BY <1>1, <1>3, <1>4 DEF Pool
<1>9. param'.threads # 1
  BY <1>1 DEF Pool
<1> QED
  BY <1>5, <1>6, <1>7, <1>8, <1>9 DEF Pool

\* Every step keeps a frame thread's job in one place.
LEMMA PoolKeep ==
  ASSUME TypeOK, Lists, Ring, Pool, Next
  PROVE  Pool'
<1> USE DEF lookahead, pool, frames, threads
<1>1. UNCHANGED <<param, Threads>>
  BY ParamStays
<1>2. CASE TakeFrame
  BY <1>2, PoolTakes
<1>3. CASE EndFrame
  <2>1. /\ active' = active \ {Oldest} /\ written' = written \ {Oldest} /\ Oldest \in written
        /\ UNCHANGED <<run, worker, task>>
    BY <1>3 DEF EndFrame
  <2>2. active' \ written' = active \ written /\ Writing' = Writing
    BY <1>1, <2>1 DEF Writing
  <2> QED
    BY <1>1, <2>1, <2>2 DEF Pool
<1>4. CASE JoinLookahead
  <2>1. worker' = AllAwake /\ UNCHANGED <<run, task, active, written>>
    BY <1>4 DEF JoinLookahead
  <2>2. Writing' = Writing /\ (param.threads = 1 => \A w \in Threads' : worker'[w] = "ended")
    BY <1>1, <2>1, PoolAwake
  <2> QED
    BY <1>1, <2>1, <2>2 DEF Pool
<1>5. ASSUME NEW w \in Threads, WorkerTop(w) \/ WorkerWaits(w)
      PROVE  Pool'
  <2>1. /\ worker[w] \in {"top", "asking"} /\ UNCHANGED <<run, task, active, written>>
        /\ \E place \in {"ended", "asking", "top", "sleeping"} :
             worker' = [worker EXCEPT ![w] = place]
    BY <1>5 DEF WorkerTop, WorkerWaits
  <2>2. DOMAIN worker = Threads
    BY DEF TypeOK
  <2>3. Writing' = Writing
    BY <1>1, <2>1, <2>2 DEF Writing
  <2>4. param.threads # 1
    BY <2>1 DEF Pool
  <2> QED
    BY <1>1, <2>1, <2>3, <2>4 DEF Pool
<1>6. ASSUME NEW w \in Threads, WorkerTakes(w) \/ WorkerWrites(w)
      PROVE  Pool'
  BY <1>6, PoolWorks, PoolWrites
<1>7. CASE \/ Encode \/ Flush \/ Close \/ PutFrame \/ PutWaits \/ GetFrames
           \/ GetWaits \/ DecideFrames \/ NothingToTake \/ EndWaits \/ EndEmpty
           \/ CountDelayed \/ JoinPool \/ LookerStep
  <2>1. UNCHANGED <<run, worker, task, active, written>>
    BY <1>7, LookerLeaves DEF Encode, Flush, Close, PutFrame, PutWaits, GetFrames,
       GetWaits, DecideFrames, NothingToTake, EndWaits, EndEmpty, CountDelayed, JoinPool
  <2>2. Writing' = Writing
    BY <1>1, <2>1 DEF Writing
  <2> QED
    BY <1>1, <2>1, <2>2 DEF Pool
<1> QED
  BY <1>2, <1>3, <1>4, <1>5, <1>6, <1>7 DEF Next, EncoderStep, WorkerStep

----------------------------------------------------------------------------
(* The whole *)

\* The frame threads that work are counted.
LEMMA Count ==
  ASSUME TypeOK
  PROVE  /\ Cardinality(active) \in Nat
         /\ Cardinality(active) = 0 => active = {}
         /\ Oldest \notin active => Cardinality(active) <= param.threads - 1
<1>1. param.threads \in Nat /\ param.threads > 0 /\ active \subseteq Threads
      /\ Oldest \in Threads
  BY Numbers, Ages DEF TypeOK
<1>2. IsFiniteSet(Threads) /\ Cardinality(Threads) = param.threads
  <2> DEFINE n == param.threads - 1
  <2>1. n \in Int /\ ~(0 > n) /\ n - 0 + 1 = param.threads
    BY <1>1
  <2> HIDE DEF n
  <2>2. IsFiniteSet(0 .. n) /\ Cardinality(0 .. n) = n - 0 + 1
    BY <2>1, FS_Interval
  <2> QED
    BY <2>1, <2>2 DEF Threads, n
<1>3. IsFiniteSet(active)
  BY <1>1, <1>2, FS_Subset
<1>4. Cardinality(active) \in Nat /\ (Cardinality(active) = 0 => active = {})
  BY <1>3, FS_CardinalityType, FS_EmptySet
<1>5. ASSUME Oldest \notin active
      PROVE  Cardinality(active) <= param.threads - 1
  <2>1. /\ IsFiniteSet(Threads \ {Oldest})
        /\ Cardinality(Threads \ {Oldest}) = param.threads - 1
    BY <1>1, <1>2, FS_RemoveElement
  <2>2. active \subseteq Threads \ {Oldest}
    BY <1>1, <1>5
  <2>3. Cardinality(active) <= Cardinality(Threads \ {Oldest})
    BY <2>1, <2>2, FS_Subset
  <2> QED
    BY <2>1, <2>3
<1> QED
  BY <1>4, <1>5

\* With nothing delayed, every frame was received.
LEMMA NothingDelayed ==
  ASSUME TypeOK, Lists, Ring, Pool, encoder = "counting", Delayed = 0
  PROVE  coded = i_input /\ received = i_input
<1>1. /\ Len(current) \in Nat /\ Len(ifbuf) \in Nat /\ Len(next) \in Nat
      /\ Len(ofbuf) \in Nat /\ coded \in Nat /\ received \in Nat /\ received <= coded
  BY Numbers
<1>2. Cardinality(active) \in Nat
  BY Count
<1>3. /\ Cardinality(active) = 0 /\ Len(current) = 0 /\ Len(ifbuf) = 0
      /\ Len(next) = 0 /\ Len(ofbuf) = 0
  BY <1>1, <1>2 DEF Delayed
<1>4. coded = i_input
  <2>1. Seen = coded
    BY <1>1, <1>3 DEF Seen, Offered, Taken
  <2> QED
    BY <1>1, <1>3, <2>1 DEF Lists, Conserved, Pushing
<1>5. Live = {}
  <2>1. active = {} /\ Oldest \notin Live /\ Oldest \in Threads /\ Live \subseteq Threads
    BY <1>3, Count, Ages, RingTypes DEF Ring
  <2>2. CASE param.threads > 1
    BY <2>1, <2>2 DEF Pool, Live
  <2>3. CASE param.threads = 1
    <3>1. Threads = {0}
      BY <2>3 DEF Threads
    <3> QED
      BY <2>1, <3>1
  <2> QED
    BY <2>2, <2>3, Numbers
<1>6. received = coded
  <2>1. \A k \in received + 1 .. coded : FALSE
    BY <1>5 DEF Ring
  <2>2. received < coded => coded \in received + 1 .. coded
    BY <1>1
  <2> QED
    BY <1>1, <2>1, <2>2
<1> QED
  BY <1>4, <1>6

\* Once the application was told there is nothing left, nothing is started.
LEMMA DrainedKeep ==
  ASSUME TypeOK, Lists, Steps, Ring, Pool, Drained, Next
  PROVE  Drained'
<1> USE DEF lookahead, pool, frames, threads, flags
<1>1. CASE CountDelayed
  <2>1. CASE Delayed = 0
    <3>1. coded = i_input /\ received = i_input
      BY <1>1, <2>1, NothingDelayed DEF CountDelayed
    <3> QED
      BY <1>1, <2>1, <3>1 DEF CountDelayed, Drained
  <2>2. CASE Delayed # 0
    <3>1. drained' = drained /\ encoder = "counting"
      BY <1>1, <2>2 DEF CountDelayed
    <3> QED
      BY <3>1 DEF Drained
  <2> QED
    BY <2>1, <2>2
<1>2. CASE Encode
  BY <1>2 DEF Encode, Drained, Steps
<1>3. CASE Flush
  BY <1>3 DEF Flush, Drained
<1>4. CASE Close \/ JoinLookahead \/ JoinPool
  BY <1>4 DEF Close, JoinLookahead, JoinPool, Drained
<1>5. CASE \/ PutFrame \/ PutWaits \/ GetFrames \/ GetWaits \/ DecideFrames
           \/ TakeFrame \/ NothingToTake \/ EndFrame \/ EndWaits \/ EndEmpty
  <2>1. drained' = drained /\ encoder \in {"pushing", "getting", "taking", "ending"}
    BY <1>5 DEF PutFrame, PutWaits, GetFrames, GetWaits, DecideFrames, TakeFrame,
       NothingToTake, EndFrame, EndWaits, EndEmpty
  <2> QED
    BY <2>1 DEF Drained
<1>6. CASE LookerStep
  BY <1>6, LookerLeaves DEF Drained
<1>7. ASSUME NEW w \in Threads, WorkerStep(w)
      PROVE  Drained'
  BY <1>7, WorkerLeaves DEF Drained
<1> QED
  BY <1>1, <1>2, <1>3, <1>4, <1>5, <1>6, <1>7 DEF Next, EncoderStep

\* The invariant holds at first.
LEMMA InitIInv ==
  Init => IInv
<1> SUFFICES ASSUME Init
             PROVE  IInv
  OBVIOUS
<1>1. /\ param \in Params /\ param \in Param /\ param.threads > 0
      /\ param.threads = 1 => param.sync = 0
      /\ MaxFrames \in Nat
      /\ param.slicetype_length >= param.bframes
  BY ParamsAssumption DEF Init
<1>2. /\ param.bframes \in Nat /\ param.threads \in Nat /\ param.sync \in Nat
      /\ param.slicetype_length \in Nat /\ param.vfr \in 0 .. 1
  BY <1>1 DEF Param
<1>3. TypeOK
  <2>1. 0 \in Threads /\ 0 \in 0 .. MaxFrames /\ 0 \in 0 .. param.bframes
    BY <1>1, <1>2 DEF Threads
  <2>2. CallTypes
    BY <1>1, <2>1 DEF Init, CallTypes
  <2>3. ListTypes
    <3>1. ifbuf = <<>> /\ next = <<>> /\ ofbuf = <<>> /\ current = <<>>
      BY DEF Init
    <3>2. b_exit_thread \in BOOLEAN /\ leaving \in BOOLEAN /\ looker \in {"top", "none"}
      BY DEF Init
    <3>3. b_thread_active \in BOOLEAN
      <4>1. b_thread_active = Threaded
        BY DEF Init
      <4>2. Threaded \in BOOLEAN
        BY DEF Threaded
      <4> QED
        BY <4>1, <4>2
    <3>4. i_bframes \in [Frames -> 0 .. param.bframes]
      BY <2>1 DEF Init
    <3>5. <<>> \in Seq(Frames)
      OBVIOUS
    <3> QED
      BY <3>1, <3>2, <3>3, <3>4, <3>5 DEF ListTypes
  <2>4. ThreadTypes
    BY <2>1 DEF Init, ThreadTypes
  <2> QED
    BY <1>1, <2>2, <2>3, <2>4 DEF TypeOK, CallTypes, ListTypes, ThreadTypes
<1>4. Taken = 0 /\ Offered = 0 /\ Seen = 0 /\ Len(<<>>) = 0
  BY DEF Init, Taken, Offered, Seen
<1>5. Lists
  <2>1. Conserved /\ Lined(ifbuf, Seen) /\ NextOK /\ CurrentOK
    <3>1. Conserved
      BY <1>4 DEF Init, Conserved, Pushing
    <3>2. Lined(ifbuf, Seen) /\ NextOK
      BY <1>4 DEF Init, Lined, NextOK, Held, Threaded
    <3>3. CurrentOK
      BY <1>2, <1>4 DEF Init, CurrentOK
    <3> QED
      BY <3>1, <3>2, <3>3
  <2>2. Grouped(ofbuf, Taken, i_bframes)
    <3>1. Permutes(<<>>, 0, 1, 0)
      <4>1. \A f \in 1 .. 0 : FALSE
        OBVIOUS
      <4> QED
        BY <4>1 DEF Permutes
    <3>2. Begin(<<>>, 0, i_bframes, {1})
      <4>1. {1} \subseteq 0 + 1 .. 0 + Len(<<>>) + 1 /\ 0 + 1 \in {1}
        BY <1>4
      <4>2. \A x \in {1} : ~(x <= 0 + Len(<<>>))
        BY <1>4
      <4> QED
        BY <4>1, <4>2 DEF Begin
    <3> QED
      BY <1>4, <3>1, <3>2 DEF Init, Grouped
  <2> QED
    BY <2>1, <2>2 DEF Lists
<1>6. Steps
  BY DEF Init, Steps, Threaded, Pushing
<1>7. Bounded /\ Filling
  <2>1. Fill \in Nat
    BY <1>1, <1>2 DEF Fill, i_delay
  <2> QED
    BY <2>1 DEF Init, Bounded, Filling, Entered
<1>8. Ring
  <2>1. Live = {} /\ ~Entered
    BY DEF Init, Live, Entered
  <2>2. Aged(0)
    BY <2>1 DEF Aged
  <2>3. \A k \in received + 1 .. coded : FALSE
    BY DEF Init
  <2> QED
    BY <2>1, <2>2, <2>3 DEF Ring
<1>9. Pool
  <2>1. Writing = {}
    BY DEF Init, Writing
  <2>2. run = <<>> /\ \A i \in 1 .. Len(run) : FALSE
    BY <1>4 DEF Init
  <2> QED
    BY <2>1, <2>2 DEF Init, Pool
<1>10. Drained
  BY DEF Init, Drained
<1> QED
  BY <1>3, <1>5, <1>6, <1>7, <1>8, <1>9, <1>10 DEF IInv

\* Nothing happens.
LEMMA StutterIInv ==
  ASSUME IInv, UNCHANGED vars
  PROVE  IInv'
<1> USE DEF vars, lookahead, pool, frames, threads, lists, flags
<1>1. TypeOK'
  BY DEF IInv, TypeOK, Threads
<1>2. Lists'
  <2>1. Held' = Held /\ Pushing' = Pushing
    BY DEF Held, Pushing
  <2> QED
    BY <2>1, ListsStay DEF IInv
<1>3. Steps' /\ Bounded' /\ Filling' /\ Drained'
  BY DEF IInv, Steps, Bounded, Filling, Drained, Threaded, Pushing, Entered, Fill, i_delay
<1>4. Ring'
  <2>1. Live' = Live /\ Entered' = Entered
    BY DEF Live, Entered
  <2> QED
    BY <2>1, RingStays DEF IInv, Ring
<1>5. Pool'
  <2>1. Writing' = Writing /\ Threads' = Threads
    BY DEF Writing, Threads
  <2> QED
    BY <2>1 DEF IInv, Pool
<1> QED
  BY <1>1, <1>2, <1>3, <1>4, <1>5 DEF IInv

\* The invariant is inductive.
LEMMA StepIInv ==
  IInv /\ [Next]_vars => IInv'
<1>1. ASSUME IInv, Next
      PROVE  IInv'
  <2>1. /\ TypeOK /\ Lists /\ Steps /\ Bounded /\ Filling /\ Ring /\ Pool /\ Drained
    BY <1>1 DEF IInv
  <2>2. Steps'
    BY <1>1, <2>1, CallerSteps, OtherSteps DEF Next
  <2> QED
    BY <1>1, <2>1, <2>2, TypesKeep, ListsKeep, CountsKeep, RingKeep, PoolKeep, DrainedKeep
    DEF IInv
<1> QED
  BY <1>1, StutterIInv

\* ... and so it holds of every state.
LEMMA Invariance ==
  Spec => []IInv
BY InitIInv, StepIInv, PTL DEF Spec

\* The caller, the lookahead, the frame threads and the pool keep their types:
\* no list holds anything but frames, and no step leaves the parameters' range.
THEOREM TypeCorrect ==
  Spec => []TypeOK
<1>1. IInv => TypeOK
  BY DEF IInv
<1> QED
  BY <1>1, Invariance, PTL

\* The assertions of lookahead_shift hold, however many B-frames are allowed and
\* however the lookahead is set: the delay limits what next and ofbuf hold
\* together, although only room for one frame is ever waited for.
THEOREM ShiftsHaveRoom ==
  Spec => []ListsHaveRoom
<1>1. IInv => ListsHaveRoom
  <2> SUFFICES ASSUME IInv
               PROVE  ListsHaveRoom
    OBVIOUS
  <2>1. /\ Len(current) + Len(ofbuf) + Len(next) + Len(ifbuf) <= i_input - coded
        /\ i_input - coded <= Fill + 1 /\ i_input \in Nat /\ coded \in Nat
        /\ Fill \in Nat /\ Fill = i_delay + 1 - param.threads
        /\ i_delay \in Nat /\ NextMax = i_delay + 3 /\ OfbufMax = i_delay + 3
        /\ param.threads \in Nat /\ param.threads > 0
        /\ Len(current) \in Nat /\ Len(ofbuf) \in Nat /\ Len(next) \in Nat
        /\ Len(ifbuf) \in Nat
    <3>1. TypeOK /\ Lists /\ Bounded
      BY DEF IInv
    <3> QED
      BY <3>1, Room, Numbers
  <2>2. looker = "leave" => Len(next) + Len(ifbuf) <= NextMax
    BY <2>1, SMTT(30)
  <2>3. ASSUME looker = "decided"
        PROVE  /\ GroupSize(next) \in Nat /\ GroupSize(next) <= Len(next)
    <3>1. next # <<>> /\ GroupSize(next) <= Len(next)
      <4>1. Lists /\ Held
        BY <2>3 DEF IInv, Held
      <4> QED
        BY <4>1 DEF Lists, NextOK, Decided
    <3>2. next \in Seq(Frames) /\ i_bframes \in [Frames -> 0 .. param.bframes]
      BY DEF IInv, TypeOK
    <3>3. Head(next) \in Frames /\ param.bframes \in Nat
      BY <3>1, <3>2, Behead, Numbers DEF IInv
    <3> QED
      BY <3>1, <3>2, <3>3 DEF GroupSize
  <2>4. Len(ofbuf) + Len(next) <= OfbufMax
    BY <2>1, SMTT(30)
  <2>5. looker = "decided" => Len(ofbuf) + GroupSize(next) <= OfbufMax
    <3>1. Len(ofbuf) \in Nat /\ Len(next) \in Nat /\ OfbufMax \in Nat
      BY <2>1
    <3> QED
      BY <2>3, <2>4, <3>1
  <2> QED
    BY <2>2, <2>3, <2>5 DEF ListsHaveRoom
<1> QED
  BY <1>1, Invariance, PTL

\* x264_encoder_maximum_delayed_frames tells no lie: between two calls no more
\* frames are inside than it says.
THEOREM DelayIsBounded ==
  Spec => []DelayBounded
<1>1. IInv => DelayBounded
  <2> SUFFICES ASSUME IInv, encoder = "idle"
               PROVE  Delayed <= i_delay
    BY DEF DelayBounded
  <2>1. /\ Len(current) + Len(ofbuf) + Len(next) + Len(ifbuf) <= i_input - coded
        /\ Fill \in Nat /\ Fill = i_delay + 1 - param.threads
        /\ i_delay \in Nat /\ param.threads \in Nat
        /\ Len(current) \in Nat /\ Len(ofbuf) \in Nat /\ Len(next) \in Nat
        /\ Len(ifbuf) \in Nat /\ i_input \in Nat /\ coded \in Nat
    <3>1. TypeOK /\ Lists /\ Bounded
      BY DEF IInv
    <3> QED
      BY <3>1, Room, Numbers
  <2>2. i_input - coded <= Fill
    BY <2>1 DEF IInv, Bounded, Entered
  <2>3. Oldest \notin active
    BY DEF IInv, Ring, Live
  <2>4. Cardinality(active) \in Nat /\ Cardinality(active) <= param.threads - 1
    BY <2>3, Count DEF IInv
  <2> QED
    BY <2>1, <2>2, <2>4, SMTT(30) DEF Delayed
<1> QED
  BY <1>1, Invariance, PTL

\* The flush of libx264.c loses no frame: once a call without a picture has
\* returned nothing, the output of every frame handed in has been received.
THEOREM FlushLosesNothing ==
  Spec => []DrainsAll
<1>1. IInv => DrainsAll
  BY DEF IInv, Drained, DrainsAll
<1> QED
  BY <1>1, Invariance, PTL

----------------------------------------------------------------------------
(* The order of the groups *)

Elements(s) == {s[i] : i \in 1 .. Len(s)}

\* The frames of a list in line, or with groups in coded order.
LEMMA LinedElements ==
  ASSUME NEW s, NEW b \in Int, Len(s) \in Nat, Lined(s, b)
  PROVE  Elements(s) = b + 1 .. b + Len(s)
<1>1. \A k \in 1 .. Len(s) : s[k] = b + k /\ b + k \in b + 1 .. b + Len(s)
  BY DEF Lined
<1>2. \A f \in b + 1 .. b + Len(s) : f - b \in 1 .. Len(s) /\ b + (f - b) = f
  OBVIOUS
<1>3. \A f \in b + 1 .. b + Len(s) : s[f - b] = f
  BY <1>1, <1>2
<1> QED
  BY <1>1, <1>2, <1>3 DEF Elements

\* A permutation has its frames.
LEMMA PermutedElements ==
  ASSUME NEW s, NEW b \in Int, Len(s) \in Nat, Permutes(s, b, b + 1, b + Len(s))
  PROVE  Elements(s) = b + 1 .. b + Len(s)
<1>1. \A k \in 1 .. Len(s) : s[k] \in b + 1 .. b + Len(s)
  BY Listed
<1>2. ASSUME NEW f \in b + 1 .. b + Len(s)
      PROVE  \E k \in 1 .. Len(s) : s[k] = f
  <2>1. PICK h \in b + 1 .. b + Len(s) : s[h - b] = f
    BY DEF Permutes
  <2>2. h - b \in 1 .. Len(s)
    OBVIOUS
  <2> QED
    BY <2>1, <2>2
<1> QED
  BY <1>1, <1>2 DEF Elements

\* A list whose first group is decided still has its frames.
LEMMA DecidedElements ==
  ASSUME NEW s, NEW b \in Int, Len(s) \in Nat, NEW g \in Nat, Decided(s, b, g)
  PROVE  Elements(s) = b + 1 .. b + Len(s)
<1> DEFINE n == Len(s)
<1>1. g <= n /\ Permutes(s, b, b + 1, b + g) /\ \A k \in 1 .. n : k > g => s[k] = b + k
  BY DEF Decided, IsGroup, Behind
<1> HIDE DEF n
<1>2. n \in Nat
  BY DEF n
<1>3. \A f \in b + g + 1 .. b + n : f - b \in 1 .. n /\ f - b > g /\ b + (f - b) = f
  BY <1>2
<1>4. \A f \in b + g + 1 .. b + n : s[f - b] = f
  BY <1>1, <1>3
<1>5. Permutes(s, b, b + g + 1, b + n)
  BY <1>4 DEF Permutes
<1>6. Permutes(s, b, b + 1, b + n)
  <2>1. b + 1 <= (b + g) + 1 /\ b + g <= b + n /\ b + 1 \in Int /\ b + g \in Int /\ b + n \in Int
    BY <1>1, <1>2
  <2> QED
    BY <1>1, <1>5, <2>1, PermutesJoined
<1> QED
  BY <1>2, <1>6, PermutedElements DEF n

\* Intervals, one behind the other.
LEMMA Intervals ==
  ASSUME NEW a \in Int, NEW b \in Int, NEW c \in Int, a <= b, b <= c
  PROVE  (a + 1 .. b) \cup (b + 1 .. c) = a + 1 .. c
OBVIOUS

\* The frames inside: those of current, and every frame that was not taken.
LEMMA InsideIs ==
  ASSUME TypeOK, Lists, encoder # "closed"
  PROVE  Inside = Elements(current) \cup (Taken + 1 .. i_input)
<1>1. /\ Taken \in Nat /\ Offered \in Nat /\ Seen \in Nat
      /\ Taken <= Offered /\ Offered <= Seen
      /\ Len(ofbuf) \in Nat /\ Len(next) \in Nat /\ Len(ifbuf) \in Nat
      /\ Offered = Taken + Len(ofbuf) /\ Seen = Offered + Len(next)
      /\ i_input \in Nat
  <2>1. Offered = Taken + Len(ofbuf) /\ Seen = Offered + Len(next)
    BY DEF Offered, Seen
  <2> QED
    BY <2>1, PositionTypes, Numbers
<1>2. /\ Lined(ifbuf, Seen) /\ Permutes(ofbuf, Taken, Taken + 1, Taken + Len(ofbuf))
      /\ Seen + Len(ifbuf) + (IF Pushing THEN 1 ELSE 0) = i_input
  BY DEF Lists, Grouped, Conserved
<1>3. Elements(ifbuf) = Seen + 1 .. Seen + Len(ifbuf)
  BY <1>1, <1>2, LinedElements
<1>4. Elements(ofbuf) = Taken + 1 .. Offered
  BY <1>1, <1>2, PermutedElements
<1>5. Elements(next) = Offered + 1 .. Seen
  <2>1. CASE Held
    <3>1. Decided(next, Offered, GroupSize(next)) /\ next \in Seq(Frames)
          /\ i_bframes \in [Frames -> 0 .. param.bframes]
      BY <2>1 DEF Lists, NextOK, TypeOK
    <3>2. Head(next) \in Frames /\ param.bframes \in Nat
      BY <3>1, Behead, Numbers DEF Decided
    <3>3. GroupSize(next) \in Nat
      BY <3>1, <3>2 DEF GroupSize
    <3> QED
      BY <1>1, <3>1, <3>3, DecidedElements
  <2>2. CASE ~Held
    BY <1>1, <2>2, LinedElements DEF Lists, NextOK
  <2> QED
    BY <2>1, <2>2
<1> DEFINE handed == IF Pushing THEN {i_input} ELSE {}
<1>6. Inside = Elements(current) \cup Elements(ofbuf) \cup Elements(next)
                 \cup Elements(ifbuf) \cup handed
  BY DEF Inside, Elements, Pushing
<1>7. (Taken + 1 .. Offered) \cup (Offered + 1 .. Seen) = Taken + 1 .. Seen
  BY <1>1, Intervals
<1>8. (Seen + 1 .. Seen + Len(ifbuf)) \cup handed = Seen + 1 .. i_input
  <2>1. CASE Pushing
    <3>1. i_input = Seen + Len(ifbuf) + 1 /\ handed = {i_input}
      BY <1>1, <1>2, <2>1
    <3> QED
      BY <1>1, <3>1
  <2>2. CASE ~Pushing
    <3>1. i_input = Seen + Len(ifbuf) /\ handed = {}
      BY <1>1, <1>2, <2>2
    <3> QED
      BY <3>1
  <2> QED
    BY <2>1, <2>2
<1>9. (Taken + 1 .. Seen) \cup (Seen + 1 .. i_input) = Taken + 1 .. i_input
  <2>1. Taken <= Seen /\ Seen <= i_input
    BY <1>1, <1>2
  <2> QED
    BY <1>1, <2>1, Intervals
<1> HIDE DEF handed
<1> QED
  BY <1>3, <1>4, <1>5, <1>6, <1>7, <1>8, <1>9, Zenon

\* Between two groups, every frame inside is behind those that were started.
LEMMA InsideAll ==
  ASSUME TypeOK, Lists, encoder # "closed",
         current = <<>> \/ IsGroup(current, coded, coded + 1, Taken)
  PROVE  Inside = coded + 1 .. i_input
<1>1. /\ Taken \in Nat /\ coded \in Nat /\ coded <= Taken /\ i_input \in Nat
      /\ Len(current) \in Nat /\ Taken = coded + Len(current)
  BY PositionTypes, Numbers DEF Taken
<1>2. Taken <= i_input
  <2>1. /\ Seen + Len(ifbuf) + (IF Pushing THEN 1 ELSE 0) = i_input
        /\ Taken <= Offered /\ Offered <= Seen /\ Len(ifbuf) \in Nat
        /\ Offered \in Nat /\ Seen \in Nat
    BY PositionTypes, Numbers DEF Lists, Conserved
  <2> QED
    BY <1>1, <2>1
<1>3. Elements(current) = coded + 1 .. Taken
  <2>1. CASE current = <<>>
    <3>1. Lined(current, coded)
      BY <2>1 DEF Lined
    <3> QED
      BY <1>1, <3>1, LinedElements
  <2>2. CASE IsGroup(current, coded, coded + 1, Taken)
    BY <1>1, <2>2, PermutedElements DEF IsGroup
  <2> QED
    BY <2>1, <2>2
<1>4. (coded + 1 .. Taken) \cup (Taken + 1 .. i_input) = coded + 1 .. i_input
  BY <1>1, <1>2, Intervals
<1> QED
  BY <1>3, <1>4, InsideIs

\* What the lists say of Inside, in one formula.
Contents ==
  encoder # "closed" =>
    /\ Inside = Elements(current) \cup (Taken + 1 .. i_input)
    /\ current = <<>> \/ IsGroup(current, coded, coded + 1, Taken)
         => Inside = coded + 1 .. i_input

\* It follows from the invariant.
LEMMA ContentsKnown == TypeOK /\ Lists => Contents
BY InsideIs, InsideAll DEF Contents

\* Steps that start no frame and move none into current.
LEMMA InsideStays ==
  ASSUME TypeOK, Lists, Contents, Contents', current' = current, coded' = coded,
         encoder # "closed", encoder' # "closed"
  PROVE  /\ i_input' = i_input => Inside' = Inside
         /\ i_input' = i_input + 1 => Inside' = Inside \cup {i_input + 1}
<1>1. Taken' = Taken /\ Elements(current)' = Elements(current)
  BY DEF Taken, Elements
<1>2. /\ Inside = Elements(current) \cup (Taken + 1 .. i_input)
      /\ Inside' = Elements(current) \cup (Taken + 1 .. i_input')
  BY <1>1 DEF Contents
<1>3. ASSUME i_input' = i_input + 1
      PROVE  Taken + 1 .. i_input + 1 = (Taken + 1 .. i_input) \cup {i_input + 1}
  <2>1. /\ Taken \in Nat /\ i_input \in Nat /\ Taken <= Offered /\ Offered <= Seen
        /\ Offered \in Nat /\ Seen \in Nat /\ Len(ifbuf) \in Nat
        /\ Seen + Len(ifbuf) + (IF Pushing THEN 1 ELSE 0) = i_input
    BY PositionTypes, Numbers DEF Lists, Conserved
  <2>2. Taken <= i_input
    BY <2>1
  <2> QED
    BY <2>1, <2>2
<1> QED
  BY <1>2, <1>3

\* A group that is taken stays inside.
LEMMA InsideGets ==
  ASSUME TypeOK, Lists, Contents, Lists', TypeOK', Contents', Steps,
         GetFrames \/ DecideFrames
  PROVE  Inside' = Inside /\ anchor' = anchor
<1> USE DEF frames, lookahead, lists
<1>1. /\ encoder = "getting" /\ encoder' = "taking" /\ current = <<>>
      /\ UNCHANGED <<i_input, coded, anchor>>
  BY DEF GetFrames, DecideFrames, Steps
<1>2. coded \in Nat /\ Taken = coded /\ anchor = coded
  <2>1. coded \in Nat /\ Len(<<>>) = 0
    BY Numbers
  <2>2. Taken = coded
    BY <1>1, <2>1 DEF Taken
  <2> QED
    BY <2>1, <2>2 DEF Lists, CurrentOK
<1>3. Inside = coded + 1 .. i_input
  BY <1>1 DEF Contents
<1>4. current' = <<>> \/ IsGroup(current', coded', coded' + 1, Taken')
  <2>1. Taken' = coded + Len(current') /\ Len(current') \in Nat /\ current' \in Seq(Frames)
    BY <1>1 DEF Taken, TypeOK
  <2>2. CASE anchor' = Taken'
    <3>1. Len(current') = 0
      BY <1>1, <1>2, <2>1, <2>2
    <3> QED
      BY <2>1, <3>1, EmptySeq
  <2>3. CASE anchor' # Taken'
    BY <2>3 DEF Lists, CurrentOK
  <2> QED
    BY <2>2, <2>3
<1>5. Inside' = coded' + 1 .. i_input'
  BY <1>1, <1>4 DEF Contents
<1> QED
  BY <1>1, <1>3, <1>5

\* A frame is started.
LEMMA InsideTakes ==
  ASSUME TypeOK, Lists, Contents, Lists', TypeOK', Contents', TakeFrame
  PROVE  \E f \in Inside : Reorder!EncodeAnchor(f) \/ Reorder!EncodeB(f)
<1>1. /\ current # <<>> /\ current' = Tail(current) /\ coded' = coded + 1
      /\ anchor' = (IF Head(current) > anchor THEN Head(current) ELSE anchor)
      /\ i_input' = i_input /\ param' = param /\ encoder = "taking" /\ encoder' = "ending"
      /\ Taken' = Taken /\ Head(current) \in 1 .. Taken
  BY TakeLists DEF TakeFrame
<1> DEFINE f == Head(current)
           n == Len(current)
<1>2. /\ f = current[1] /\ n \in Nat /\ n > 0
      /\ Len(current') = n - 1 /\ \A k \in 1 .. n - 1 : current'[k] = current[k + 1]
  BY <1>1, Behead DEF TypeOK
<1>3. /\ coded \in Nat /\ anchor \in Nat /\ Taken = coded + n /\ Taken \in Nat
      /\ i_input \in Nat /\ param.bframes \in Nat
  BY Numbers, PositionTypes DEF Taken
<1>4. /\ Inside = Elements(current) \cup (Taken + 1 .. i_input)
      /\ Inside' = Elements(current') \cup (Taken + 1 .. i_input)
  <2>1. Inside = Elements(current) \cup (Taken + 1 .. i_input)
    BY <1>1 DEF Contents
  <2>2. Inside' = Elements(current)' \cup (Taken' + 1 .. i_input')
    BY <1>1 DEF Contents
  <2> QED
    BY <1>1, <2>1, <2>2 DEF Elements
<1>5. f \in Inside /\ f \in 1 .. Taken
  <2>1. 1 \in 1 .. n /\ f \in Elements(current)
    BY <1>2 DEF Elements
  <2> QED
    BY <1>1, <1>4, <2>1
<1>6. \A j, k \in 1 .. n : current[j] = current[k] => j = k
  <2>1. CASE current = <<>> \/ IsGroup(current, coded, coded + 1, Taken)
    BY <1>1, <1>3, <1>2, <2>1, Listed DEF IsGroup
  <2>2. CASE RestOf(current, anchor)
    BY <2>2 DEF RestOf
  <2> QED
    BY <2>1, <2>2 DEF Lists, CurrentOK
<1>7. Inside' = Inside \ {f}
  <2>1. Elements(current') = Elements(current) \ {f}
    <3>1. \A k \in 1 .. n - 1 : k + 1 \in 1 .. n /\ k + 1 # 1
      BY <1>2
    <3>2. \A j \in 1 .. n : j = 1 \/ (j - 1 \in 1 .. n - 1 /\ (j - 1) + 1 = j)
      BY <1>2
    <3>3. \A k \in 1 .. n - 1 : current'[k] \in Elements(current) /\ current'[k] # f
      BY <1>2, <1>6, <3>1 DEF Elements
    <3>4. \A j \in 1 .. n : current[j] = f \/ \E k \in 1 .. n - 1 : current'[k] = current[j]
      BY <1>2, <3>2
    <3> QED
      BY <1>2, <3>3, <3>4, SMTT(30) DEF Elements
  <2>2. f \notin Taken + 1 .. i_input
    BY <1>3, <1>5
  <2> QED
    BY <1>4, <2>1, <2>2
<1>8. CASE anchor = coded /\ (current = <<>> \/ IsGroup(current, coded, coded + 1, Taken))
           /\ n <= param.bframes + 1
  <2>1. Inside = coded + 1 .. i_input
    BY <1>1, <1>8 DEF Contents
  <2>2. f = Taken
    BY <1>1, <1>2, <1>3, <1>8 DEF IsGroup
  <2>3. \A g \in Inside : g > anchor
    BY <1>3, <1>8, <2>1
  <2>4. f \in anchor + 1 .. anchor + 1 + param.bframes /\ f > anchor
    BY <1>2, <1>3, <1>8, <2>2
  <2>5. anchor' = f
    BY <1>1, <2>4
  <2> QED
    BY <1>1, <1>5, <1>7, <2>3, <2>4, <2>5 DEF Reorder!EncodeAnchor
<1>9. CASE anchor = Taken /\ RestOf(current, anchor)
  <2>1. current[1] \in 1 .. anchor - 1
    BY <1>2, <1>9 DEF RestOf
  <2>2. f < anchor /\ ~(f > anchor)
    BY <1>2, <1>3, <2>1
  <2>3. anchor' = anchor
    BY <1>1, <2>2
  <2> QED
    BY <1>1, <1>5, <1>7, <2>2, <2>3 DEF Reorder!EncodeB
<1> QED
  BY <1>8, <1>9 DEF Lists, CurrentOK

\* The steps of the others leave what the group order is about.
LEMMA OrderStays ==
  ASSUME NEW w \in Threads,
         \/ PutFrame \/ PutWaits \/ Flush \/ GetWaits \/ NothingToTake \/ EndFrame
         \/ EndWaits \/ EndEmpty \/ CountDelayed \/ Close \/ JoinLookahead
         \/ LookerStep \/ WorkerStep(w)
  PROVE  /\ UNCHANGED <<param, i_input, current, coded, anchor>>
         /\ encoder = "closed" <=> encoder' = "closed"
<1> USE DEF frames, lookahead, lists, pool, threads
<1>1. CASE \/ PutFrame \/ PutWaits \/ Flush \/ GetWaits \/ NothingToTake \/ EndFrame
           \/ EndWaits \/ EndEmpty \/ CountDelayed \/ Close \/ JoinLookahead
  BY <1>1 DEF PutFrame, PutWaits, Flush, GetWaits, NothingToTake, EndFrame,
              EndWaits, EndEmpty, CountDelayed, Close, JoinLookahead
<1>2. CASE LookerStep
  BY <1>2 DEF LookerStep, LookTop, LookShift, LookLeave, LookEmptying, LookDecide,
              LookOffer, IfbufEmptied, OfbufFilled
<1>3. CASE WorkerStep(w)
  BY <1>3 DEF WorkerStep, WorkerTop, WorkerTakes, WorkerWaits, WorkerWrites
<1> QED
  BY <1>1, <1>2, <1>3

\* A step of X264Encoder is one of ReorderService, or none.
LEMMA ReorderStep ==
  ASSUME IInv, IInv', Contents, Contents', [Next]_vars
  PROVE  [Reorder!Next]_Reorder!vars
<1> USE DEF frames, lookahead, lists, pool, threads
<1>1. CASE Encode
  <2>1. /\ current' = current /\ coded' = coded /\ i_input' = i_input + 1
        /\ param' = param /\ anchor' = anchor
        /\ encoder # "closed" /\ encoder' # "closed"
    BY <1>1 DEF Encode
  <2>2. Inside' = Inside \cup {i_input + 1}
    BY <2>1, InsideStays DEF IInv
  <2> QED
    BY <2>1, <2>2 DEF Reorder!Next, Reorder!Submit
<1>2. CASE GetFrames \/ DecideFrames
  <2>1. Inside' = Inside /\ anchor' = anchor
    BY <1>2, InsideGets DEF IInv
  <2>2. param' = param /\ i_input' = i_input
    BY <1>2 DEF GetFrames, DecideFrames
  <2> QED
    BY <2>1, <2>2 DEF Reorder!vars
<1>3. CASE TakeFrame
  BY <1>3, InsideTakes DEF IInv, Reorder!Next
<1>4. CASE JoinPool
  BY <1>4 DEF JoinPool, Inside, Reorder!Next, Reorder!Drop
<1>5. ASSUME UNCHANGED <<param, i_input, current, coded, anchor>>,
             encoder = "closed" <=> encoder' = "closed"
      PROVE  UNCHANGED Reorder!vars
  <2>1. CASE encoder = "closed"
    BY <1>5, <2>1 DEF Inside, Reorder!vars
  <2>2. CASE encoder # "closed"
    <3>1. Inside' = Inside
      BY <1>5, <2>2, InsideStays DEF IInv
    <3> QED
      BY <1>5, <3>1 DEF Reorder!vars
  <2> QED
    BY <2>1, <2>2
<1>6. CASE UNCHANGED vars
  BY <1>5, <1>6 DEF vars
<1>7. 0 \in Threads
  BY Numbers DEF IInv, Threads
<1> QED
  BY <1>1, <1>2, <1>3, <1>4, <1>5, <1>6, <1>7, OrderStays DEF Next, EncoderStep

----------------------------------------------------------------------------
(* The frames in the frame threads *)

\* The frames that are due from r to s.
Due(r, s) == [i \in 1 .. s - r |-> r + i]

\* How many they are.
LEMMA DueType ==
  ASSUME NEW r \in Nat, NEW s \in Nat, r <= s
  PROVE  Due(r, s) \in Seq(Nat) /\ Len(Due(r, s)) = s - r
BY DEF Due

\* One more is started.
LEMMA LastDue ==
  ASSUME NEW r \in Nat, NEW s \in Nat, r <= s
  PROVE  /\ Due(r, s + 1) = Append(Due(r, s), s + 1)
         /\ Len(Due(r, s)) = s - r
BY DEF Due

\* The output of the first is received.
LEMMA FirstDue ==
  ASSUME NEW r \in Nat, NEW s \in Nat, r < s
  PROVE  /\ Due(r, s) # <<>>
         /\ Head(Due(r, s)) = r + 1
         /\ Tail(Due(r, s)) = Due(r + 1, s)
<1> DEFINE d == Due(r, s)
           e == Due(r + 1, s)
<1>1. d \in Seq(Nat) /\ Len(d) = s - r /\ e \in Seq(Nat) /\ Len(e) = s - r - 1
  <2>1. r + 1 \in Nat /\ r <= s /\ r + 1 <= s /\ s - (r + 1) = s - r - 1
    OBVIOUS
  <2>2. d \in Seq(Nat) /\ Len(d) = s - r
    BY <2>1, DueType, Zenon
  <2>3. e \in Seq(Nat) /\ Len(e) = s - (r + 1)
    BY <2>1, DueType, Zenon
  <2> QED
    BY <2>1, <2>2, <2>3
<1>2. /\ \A i \in 1 .. s - r : d[i] = r + i
      /\ \A i \in 1 .. s - r - 1 : e[i] = r + 1 + i
  BY DEF Due
<1> HIDE DEF d, e
<1>3. d # <<>> /\ Head(d) = d[1] /\ Len(d) > 0
  BY <1>1
<1>4. /\ Tail(d) \in Seq(Nat) /\ Len(Tail(d)) = Len(d) - 1
      /\ \A i \in 1 .. Len(d) - 1 : Tail(d)[i] = d[i + 1]
  BY <1>1, <1>3, Behead
<1>5. \A i \in 1 .. Len(Tail(d)) : Tail(d)[i] = e[i]
  BY <1>1, <1>2, <1>4
<1>6. Tail(d) = e
  BY <1>1, <1>4, <1>5, SeqEqual
<1> QED
  BY <1>1, <1>2, <1>3, <1>6 DEF d, e

\* A frame is started while there is a frame thread without one.
LEMMA RoomForFrame ==
  ASSUME TypeOK, Lists, Ring, Pool, TakeFrame
  PROVE  coded - received < MaxThreads /\ coded + 1 \in Frames
<1>1. coded < i_input /\ encoder = "taking"
  BY TakeThreads
<1>2. /\ param.threads \in Nat /\ param.threads > 0 /\ param.threads <= MaxThreads
      /\ MaxThreads \in Nat /\ MaxFrames \in Nat /\ i_input <= MaxFrames
      /\ coded \in Nat /\ received \in Nat /\ received <= coded /\ i_input \in Nat
  <2>1. param \in Params /\ param.threads <= MaxThreads /\ MaxThreads \in Nat
    BY ParamsAssumption DEF TypeOK
  <2>2. MaxFrames \in Nat /\ i_input <= MaxFrames
    BY Numbers DEF TypeOK
  <2> QED
    BY <2>1, <2>2, Numbers
<1>3. \A t \in Live : job[t] = coded + 1 - Age(t)
  BY <1>1, FreeThread DEF Entered
<1>4. CASE received < coded
  <2>1. received + 1 \in received + 1 .. coded
    BY <1>2, <1>4
  <2>2. PICK t \in Live : job[t] = received + 1
    BY <2>1 DEF Ring
  <2>3. Age(t) \in Nat /\ Age(t) <= param.threads - 1
    BY Ages, RingTypes
  <2> QED
    BY <1>1, <1>2, <1>3, <2>2, <2>3 DEF Frames
<1>5. CASE received = coded
  BY <1>1, <1>2, <1>5 DEF Frames
<1> QED
  BY <1>2, <1>4, <1>5

\* The steps that start no frame, receive none and do not end the closing.
LEMMA DueStays ==
  ASSUME IInv, [Next]_vars, ~TakeFrame, ~EndFrame, ~JoinPool
  PROVE  /\ UNCHANGED <<coded, received>>
         /\ encoder = "closed" <=> encoder' = "closed"
<1> USE DEF frames, lookahead, lists, pool, threads
<1>1. CASE \/ Encode \/ PutFrame \/ PutWaits \/ Flush \/ GetFrames \/ GetWaits
           \/ DecideFrames \/ NothingToTake \/ EndWaits \/ EndEmpty \/ CountDelayed
           \/ Close \/ JoinLookahead
  BY <1>1 DEF Encode, PutFrame, PutWaits, Flush, GetFrames, GetWaits, DecideFrames,
              NothingToTake, EndWaits, EndEmpty, CountDelayed, Close, JoinLookahead
<1>2. CASE LookerStep
  BY <1>2 DEF LookerStep, LookTop, LookShift, LookLeave, LookEmptying, LookDecide,
              LookOffer, IfbufEmptied, OfbufFilled
<1>3. ASSUME NEW w \in Threads, WorkerStep(w)
      PROVE  /\ UNCHANGED <<coded, received>>
             /\ encoder = "closed" <=> encoder' = "closed"
  BY <1>3 DEF WorkerStep, WorkerTop, WorkerTakes, WorkerWaits, WorkerWrites
<1>4. CASE UNCHANGED vars
  BY <1>4 DEF vars
<1> QED
  BY <1>1, <1>2, <1>3, <1>4 DEF Next, EncoderStep

\* A step of X264Encoder is one of FrameService, or none.
LEMMA ServiceStep ==
  ASSUME IInv, IInv', [Next]_vars
  PROVE  [Service!Next]_Service!vars
<1>0. coded \in Nat /\ received \in Nat /\ received <= coded
  BY Numbers DEF IInv
<1>1. CASE TakeFrame
  <2>1. /\ encoder = "taking" /\ encoder' = "ending"
        /\ received' = received /\ coded' = coded + 1
    BY <1>1 DEF TakeFrame
  <2>2. coded - received < MaxThreads /\ coded + 1 \in Frames
    BY <1>1, RoomForFrame DEF IInv
  <2>3. Coding = Due(received, coded) /\ Coding' = Due(received, coded + 1)
    BY <2>1 DEF Coding, Due
  <2>4. /\ Due(received, coded + 1) = Append(Due(received, coded), coded + 1)
        /\ Len(Due(received, coded)) = coded - received
    BY <1>0, LastDue, Zenon
  <2> QED
    BY <2>1, <2>2, <2>3, <2>4 DEF Service!Next, Service!Submit
<1>2. CASE EndFrame
  <2>1. /\ encoder = "ending" /\ encoder' = "idle" /\ Oldest \in Live
        /\ received' = job[Oldest] /\ coded' = coded
    BY <1>2 DEF EndFrame, Live, frames
  <2>2. received' = received + 1 /\ received < coded
    <3>1. job[Oldest] = received + 1 /\ job[Oldest] \in received + 1 .. coded
      BY <2>1, OldestIsNext DEF IInv, Ring
    <3> QED
      BY <1>0, <2>1, <3>1
  <2>3. Coding = Due(received, coded) /\ Coding' = Due(received + 1, coded)
    BY <2>1, <2>2 DEF Coding, Due
  <2>4. /\ Due(received, coded) # <<>> /\ Head(Due(received, coded)) = received + 1
        /\ Tail(Due(received, coded)) = Due(received + 1, coded)
    BY <1>0, <2>2, FirstDue, Zenon
  <2> QED
    BY <2>2, <2>3, <2>4 DEF Service!Next, Service!Receive
<1>3. CASE JoinPool
  BY <1>3 DEF JoinPool, Coding, Service!Next, Service!Drop
<1>4. CASE ~TakeFrame /\ ~EndFrame /\ ~JoinPool
  BY <1>4, DueStays DEF Coding, Service!vars
<1> QED
  BY <1>1, <1>2, <1>3, <1>4

\* Frames are started group by group, each anchor before the frames that are
\* displayed before it, and the frame threads deliver their output in that
\* order, no more than one frame inside each: X264Encoder implements
\* ReorderService and FrameService (x264_slicetype_decide, x264_encoder_encode,
\* encoder_frame_end).
THEOREM KeepsOrder == Spec => ImplementsServices
<1>1. Init => Reorder!Init
  <2> SUFFICES ASSUME Init
               PROVE  Reorder!Init
    OBVIOUS
  <2>1. /\ ifbuf = <<>> /\ next = <<>> /\ ofbuf = <<>> /\ current = <<>>
        /\ encoder = "idle" /\ i_input = 0 /\ anchor = 0 /\ param \in Params
    BY DEF Init
  <2>2. Inside = {}
    <3>1. Len(<<>>) = 0 /\ 1 .. 0 = {}
      OBVIOUS
    <3> QED
      BY <2>1, <3>1 DEF Inside
  <2>3. param.bframes \in Nat
    BY <2>1, ParamsAssumption DEF Param
  <2> QED
    BY <2>1, <2>2, <2>3 DEF Reorder!Init
<1>2. Init => Service!Init
  BY DEF Init, Service!Init, Coding, Frames
<1>3. IInv /\ Contents /\ IInv' /\ Contents' /\ [Next]_vars
        => [Reorder!Next]_Reorder!vars /\ [Service!Next]_Service!vars
  BY ReorderStep, ServiceStep
<1>4. IInv => Contents
  BY ContentsKnown DEF IInv
<1> QED
  BY <1>1, <1>2, <1>3, <1>4, Invariance, PTL
     DEF Spec, ImplementsServices, Reorder!Spec, Service!Spec
=============================================================================
