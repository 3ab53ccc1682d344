------------------------- MODULE FrameThreads_proofs -------------------------
(***************************************************************************)
(* Proofs about FrameThreads, for any number of threads and packets and    *)
(* any set of codecs.                                                      *)
(***************************************************************************)
EXTENDS FrameThreads, FiniteSetTheorems, SequenceTheorems, TLAPS

----------------------------------------------------------------------------
(* The inductive invariant *)

\* n is the largest of the packets' numbers; Sent is such an n.
Largest(packet, n) ==
  /\ \A p \in Threads : packet[p] <= n
  /\ n = 0 \/ \E p \in Threads : packet[p] = n

\* Whether the call hands a packet to a thread.
Taken == ~draining \/ codec.delay

\* Where the caller may be, and what it knows there.
Places ==
  /\ caller = "opening" => started < ThreadCount /\ next_decoding = 0
  /\ caller = "submitted" => next_decoding \in Threads
  /\ caller \in {"fetching", "fetchSleep"} => cursor \in Threads
  /\ caller \in {"submitting", "copying", "copySleep"} => Sent < MaxPackets
  /\ caller \in {"submitting", "copying", "copySleep", "serving",
                 "serveSleep"} => Taken

\* The packets are numbered one after the other.
Numbers ==
  /\ Sent \in 0 .. MaxPackets /\ Largest(avpkt, Sent)
  /\ \A p, q \in Threads : avpkt[p] = avpkt[q] /\ avpkt[p] # 0 => p = q
  /\ \A k \in reported : k <= Sent

\* A thread at work has a packet whose result is due, and nothing else keeps a
\* frame.
Results ==
  /\ \A p \in Threads :
       worker[p] \in {"decoding", "requesting", "awaiting"} =>
         state[p] # "INPUT_READY"
  /\ \A p \in Threads :
       state[p] # "INPUT_READY" => due[p] /\ avpkt[p] \in Packets
  /\ FrameOnce

\* The threads that were waited for have nothing to do any more.
Parked ==
  \A q \in Threads :
    \/ caller \in {"flushing", "flushSleep", "closing", "closeSleep"}
         /\ q < cursor
    \/ caller \in {"joining", "closed"}
    => state[q] = "INPUT_READY" /\ ~got_frame[q]

\* The thread that was given the last packet, if any since the last flush.
Newest == IF caller \in {"serving", "serveSleep"}
             \/ (caller = "submitted" /\ Taken)
        THEN next_decoding ELSE prev_thread

SettingUp(p) == state[p] \in {"SETTING_UP", "GET_BUFFER"}

\* That thread alone sets up, from the context of all packets before; the others
\* have read their headers.
Setup ==
  /\ \A p \in Threads :
       SettingUp(p) =>
         /\ p = Newest /\ context[p] = avpkt[p] - 1
         /\ avpkt[p] \notin reported
         /\ state[p] = "GET_BUFFER" \/ ~codec.safe =>
              caller \in {"serving", "serveSleep"}
  /\ Newest # None =>
       avpkt[Newest] = Sent /\ (~SettingUp(Newest) => context[Newest] = Sent)
  /\ Newest = None => context[0] = Sent /\ next_decoding = 0

IInv == TypeOK /\ Places /\ Numbers /\ Results /\ Parked /\ Setup

----------------------------------------------------------------------------
(* Threads and numbers of packets *)

USE FrameThreadsAssumption

LEMMA ThreadNumbers ==
  /\ 0 \in Threads /\ None \notin Threads
  /\ \A p \in Threads : p \in Nat /\ p < ThreadCount
  /\ \A n \in Nat : n < ThreadCount <=> n \in Threads
BY DEF Threads

\* There is one largest number at most.
LEMMA OneLargest ==
  ASSUME NEW packet \in [Threads -> Nat], NEW n \in 0 .. MaxPackets,
         Largest(packet, n)
  PROVE  n = CHOOSE m \in 0 .. MaxPackets : Largest(packet, m)
<1>1. \A m \in 0 .. MaxPackets : Largest(packet, m) => m = n
  <2> SUFFICES ASSUME NEW m \in 0 .. MaxPackets, Largest(packet, m)
               PROVE  m = n
    OBVIOUS
  <2>1. m <= n
    BY DEF Largest
  <2>2. n <= m
    BY DEF Largest
  <2> QED
    BY <2>1, <2>2
<1> QED
  BY <1>1

\* Sent is what it is for, before a step and after it.
LEMMA SentIs ==
  ASSUME TypeOK, NEW n \in 0 .. MaxPackets, Largest(avpkt, n)
  PROVE  Sent = n
<1>1. avpkt \in [Threads -> Nat]
  BY DEF TypeOK, Packets
<1> QED
  BY <1>1, OneLargest DEF Sent, Largest

LEMMA SentBecomes ==
  ASSUME TypeOK', NEW n \in 0 .. MaxPackets, Largest(avpkt', n)
  PROVE  Sent' = n
<1>1. avpkt' \in [Threads -> Nat]
  BY DEF TypeOK, Packets
<1> QED
  BY <1>1, OneLargest DEF Sent, Largest

----------------------------------------------------------------------------
(* Preservation of the parts of the invariant *)

\* The types.
LEMMA TypeStep ==
  ASSUME IInv, [Next]_vars
  PROVE  TypeOK'
<1> USE ThreadNumbers DEF IInv, TypeOK, Places, input, indices, threads,
        pictures, Awake, Broadcast
<1>1. CASE CreateThread
  <2>1. started \in Threads /\ started + 1 \in 0 .. ThreadCount
    BY <1>1 DEF CreateThread
  <2>2. /\ caller' \in {"opening", "idle"} /\ next_decoding \in Threads
    BY <1>1 DEF CreateThread
  <2>4. UNCHANGED <<codec, draining, cursor, die, indices, state, avpkt,
                    got_frame, requested, context, pictures, due, received>>
    BY <1>1 DEF CreateThread
  <2>3. /\ worker' = [worker EXCEPT ![started] = "testing"]
        /\ started' = started + 1
    BY <1>1 DEF CreateThread
  <2>5. worker' \in [Threads -> {"none", "testing", "sleeping", "decoding",
                                "requesting", "awaiting", "ended"}]
    BY <2>1, <2>3
  <2> QED
    BY <2>1, <2>2, <2>3, <2>4, <2>5
<1>2. CASE CreateFails
  BY <1>2 DEF CreateFails
<1>3. ASSUME NEW empty \in BOOLEAN, DecodeFrame(empty)
      PROVE  TypeOK'
  BY <1>3 DEF DecodeFrame
<1>4. CASE Flush
  BY <1>4 DEF Flush
<1>5. CASE Close
  BY <1>5 DEF Close
<1>6. CASE LockThread
  BY <1>6 DEF LockThread
<1>7. CASE CopySleep
  BY <1>7 DEF CopySleep
<1>8. CASE Submit
  <2>1. next_decoding \in Threads /\ Sent + 1 \in Packets
    BY <1>8 DEF Submit, Numbers, Packets
  <2>2. avpkt' \in [Threads -> Packets \cup {0}]
    BY <1>8, <2>1 DEF Submit
  <2>3. context' \in [Threads -> Packets \cup {0}]
    BY <1>8, <2>1 DEF Submit
  <2> QED
    BY <1>8, <2>1, <2>2, <2>3 DEF Submit
<1>9. CASE SubmitFails
  BY <1>9 DEF SubmitFails
<1>10. CASE ServeSleep
  BY <1>10 DEF ServeSleep
<1>11. CASE Served
  BY <1>11 DEF Served
<1>12. ASSUME NEW v \in Threads, Serve(v)
      PROVE  TypeOK'
  BY <1>12 DEF Serve
<1>13. CASE Submitted
  BY <1>13 DEF Submitted
<1>14. CASE FetchSleep
  BY <1>14 DEF FetchSleep
<1>15. CASE Fetch
  BY <1>15 DEF Fetch
<1>16. CASE ParkSleep
  BY <1>16 DEF ParkSleep
<1>17. CASE Park
  BY <1>17 DEF Park
<1>18. CASE FlushParked
  <2>1. context' \in [Threads -> Packets \cup {0}]
    BY <1>18 DEF FlushParked, FirstContext
  <2> QED
    BY <1>18, <2>1 DEF FlushParked
<1>19. CASE CloseParked
  <2>1. context' \in [Threads -> Packets \cup {0}]
    BY <1>19 DEF CloseParked, FirstContext
  <2> QED
    BY <1>19, <2>1 DEF CloseParked
<1>20. CASE WakeToDie
  BY <1>20 DEF WakeToDie
<1>21. CASE Join
  BY <1>21 DEF Join
<1>22. CASE Free
  BY <1>22 DEF Free
<1>23. ASSUME NEW p \in Threads, Test(p)
      PROVE  TypeOK'
  BY <1>23 DEF Test
<1>24. ASSUME NEW p \in Threads, GetBuffer(p)
      PROVE  TypeOK'
  BY <1>24 DEF GetBuffer
<1>25. ASSUME NEW p \in Threads, SleepAgain(p)
      PROVE  TypeOK'
  BY <1>25 DEF SleepAgain
<1>26. ASSUME NEW p \in Threads, FinishSetup(p)
      PROVE  TypeOK'
  <2>1. avpkt[p] \in Packets
    BY <1>26 DEF FinishSetup, Results
  <2>2. avpkt[p] > 1 => avpkt[p] - 1 \in Packets
    BY <2>1 DEF Packets
  <2>3. owner' \in [Packets -> Threads \cup {None}]
    BY <1>26, <2>1, <2>2 DEF FinishSetup
  <2> QED
    BY <1>26, <2>1, <2>3 DEF FinishSetup
<1>27. ASSUME NEW p \in Threads, AwaitProgress(p)
      PROVE  TypeOK'
  BY <1>27 DEF AwaitProgress
<1>28. ASSUME NEW p \in Threads, ReportProgress(p)
      PROVE  TypeOK'
  <2>1. avpkt[p] \in Packets
    BY <1>28 DEF ReportProgress, Results
  <2> QED
    BY <1>28, <2>1 DEF ReportProgress
<1>29. ASSUME NEW p \in Threads, DecodeReturns(p)
      PROVE  TypeOK'
  BY <1>29 DEF DecodeReturns
<1>30. CASE UNCHANGED vars
  BY <1>30 DEF vars, indices, input, threads, pictures
<1> QED
  BY <1>1, <1>2, <1>3, <1>4, <1>5, <1>6, <1>7, <1>8, <1>9, <1>10, <1>11,
     <1>12, <1>13, <1>14, <1>15, <1>16, <1>17, <1>18, <1>19, <1>20, <1>21,
     <1>22, <1>23, <1>24, <1>25, <1>26, <1>27, <1>28, <1>29, <1>30
     DEF Next, CallerStep, WorkerStep

\* The next packet has the next number.
LEMMA SubmitCounts ==
  ASSUME IInv, TypeOK', Submit
  PROVE  /\ next_decoding \in Threads /\ Sent + 1 \in Packets /\ Sent \in Nat
         /\ avpkt \in [Threads -> Packets \cup {0}]
         /\ \A p \in Threads : avpkt[p] \in Nat /\ avpkt[p] <= Sent
         /\ avpkt'[next_decoding] = Sent + 1
         /\ \A p \in Threads \ {next_decoding} : avpkt'[p] = avpkt[p]
         /\ Largest(avpkt', Sent + 1) /\ Sent' = Sent + 1
<1>1. /\ next_decoding \in Threads /\ Sent + 1 \in Packets /\ Sent \in Nat
      /\ Sent + 1 \in 0 .. MaxPackets
      /\ avpkt \in [Threads -> Packets \cup {0}]
      /\ \A p \in Threads : avpkt[p] \in Nat /\ avpkt[p] <= Sent
  BY DEF IInv, Submit, Places, Numbers, Largest, TypeOK, Packets
<1>2. /\ avpkt'[next_decoding] = Sent + 1
      /\ \A p \in Threads \ {next_decoding} : avpkt'[p] = avpkt[p]
  BY <1>1 DEF Submit
<1>3. Largest(avpkt', Sent + 1)
  BY <1>1, <1>2 DEF Largest
<1>4. Sent' = Sent + 1
  BY <1>1, <1>3, SentBecomes
<1> QED
  BY <1>1, <1>2, <1>3, <1>4

\* The numbers of the packets.
LEMMA NumbersStep ==
  ASSUME IInv, [Next]_vars
  PROVE  Numbers'
<1> USE ThreadNumbers DEF IInv, input, indices, threads, pictures, Broadcast
<1>1. CASE Submit
  <2>1. UNCHANGED reported /\ TypeOK'
    BY <1>1, TypeStep DEF Submit
  <2>2. \A p, q \in Threads : avpkt'[p] = avpkt'[q] /\ avpkt'[p] # 0 => p = q
    BY <1>1, <2>1, SubmitCounts DEF Numbers
  <2>3. \A k \in reported : k \in Nat /\ k <= Sent
    BY DEF Numbers, TypeOK, Packets
  <2>4. Sent + 1 \in 0 .. MaxPackets
    BY <1>1, <2>1, SubmitCounts DEF Packets
  <2> QED
    BY <1>1, <2>1, <2>2, <2>3, <2>4, SubmitCounts DEF Numbers
<1>2. ASSUME NEW p \in Threads, ReportProgress(p)
      PROVE  Numbers'
  <2>1. avpkt' = avpkt /\ reported' = reported \cup {avpkt[p]}
    BY <1>2 DEF ReportProgress
  <2>2. Sent' = Sent
    BY <2>1 DEF Sent
  <2> QED
    BY <2>1, <2>2 DEF Numbers, Largest
<1>3. ASSUME ~Submit,
             (\A p \in Threads : ~ReportProgress(p))
      PROVE  Numbers'
  <2>1. UNCHANGED <<avpkt, reported>>
    BY <1>3 DEF Next, CallerStep, WorkerStep, vars, input, indices, threads,
         pictures, CreateThread, CreateFails, DecodeFrame, Flush, Close,
         LockThread, CopySleep, SubmitFails, ServeSleep, Served, Serve,
         Submitted, FetchSleep, Fetch, ParkSleep, Park, FlushParked,
         CloseParked, WakeToDie, Join, Free, Test, GetBuffer, SleepAgain,
         FinishSetup, AwaitProgress, DecodeReturns
  <2> QED
    BY <2>1 DEF Numbers, Largest, Sent
<1> QED
  BY <1>1, <1>2, <1>3

\* Where the caller is.
LEMMA PlacesStep ==
  ASSUME IInv, [Next]_vars
  PROVE  Places'
<1> USE ThreadNumbers DEF IInv, Places, Taken, TypeOK, input, indices, threads,
        pictures, Awake, Broadcast
<1>0. avpkt' = avpkt => Sent' = Sent
  BY DEF Sent
<1> USE <1>0
<1>1. CASE CreateThread
  BY <1>1 DEF CreateThread
<1>2. CASE CreateFails
  BY <1>2 DEF CreateFails
<1>3. ASSUME NEW empty \in BOOLEAN, DecodeFrame(empty)
      PROVE  Places'
  BY <1>3 DEF DecodeFrame
<1>4. CASE Flush
  BY <1>4 DEF Flush
<1>5. CASE Close
  BY <1>5 DEF Close
<1>6. CASE LockThread
  BY <1>6 DEF LockThread
<1>7. CASE CopySleep
  BY <1>7 DEF CopySleep
<1>8. CASE Submit
  BY <1>8 DEF Submit
<1>9. CASE SubmitFails
  BY <1>9 DEF SubmitFails
<1>10. CASE ServeSleep
  BY <1>10 DEF ServeSleep
<1>11. CASE Served
  BY <1>11 DEF Served
<1>12. ASSUME NEW v \in Threads, Serve(v)
      PROVE  Places'
  BY <1>12 DEF Serve
<1>13. CASE Submitted
  BY <1>13 DEF Submitted
<1>14. CASE FetchSleep
  BY <1>14 DEF FetchSleep
<1>15. CASE Fetch
  BY <1>15 DEF Fetch
<1>16. CASE ParkSleep
  BY <1>16 DEF ParkSleep
<1>17. CASE Park
  BY <1>17 DEF Park
<1>18. CASE FlushParked
  BY <1>18 DEF FlushParked
<1>19. CASE CloseParked
  BY <1>19 DEF CloseParked
<1>20. CASE WakeToDie
  BY <1>20 DEF WakeToDie
<1>21. CASE Join
  BY <1>21 DEF Join
<1>22. CASE Free
  BY <1>22 DEF Free
<1>23. ASSUME NEW p \in Threads, Test(p)
      PROVE  Places'
  BY <1>23 DEF Test
<1>24. ASSUME NEW p \in Threads, GetBuffer(p)
      PROVE  Places'
  BY <1>24 DEF GetBuffer
<1>25. ASSUME NEW p \in Threads, SleepAgain(p)
      PROVE  Places'
  BY <1>25 DEF SleepAgain
<1>26. ASSUME NEW p \in Threads, FinishSetup(p)
      PROVE  Places'
  BY <1>26 DEF FinishSetup
<1>27. ASSUME NEW p \in Threads, AwaitProgress(p)
      PROVE  Places'
  BY <1>27 DEF AwaitProgress
<1>28. ASSUME NEW p \in Threads, ReportProgress(p)
      PROVE  Places'
  BY <1>28 DEF ReportProgress
<1>29. ASSUME NEW p \in Threads, DecodeReturns(p)
      PROVE  Places'
  BY <1>29 DEF DecodeReturns
<1>30. CASE UNCHANGED vars
  BY <1>30 DEF vars, Places, Sent, Taken, indices, input, threads, pictures
<1> QED
  BY <1>1, <1>2, <1>3, <1>4, <1>5, <1>6, <1>7, <1>8, <1>9, <1>10, <1>11,
     <1>12, <1>13, <1>14, <1>15, <1>16, <1>17, <1>18, <1>19, <1>20, <1>21,
     <1>22, <1>23, <1>24, <1>25, <1>26, <1>27, <1>28, <1>29, <1>30
     DEF Next, CallerStep, WorkerStep

\* The results.
LEMMA ResultsStep ==
  ASSUME IInv, [Next]_vars
  PROVE  Results'
<1> USE ThreadNumbers DEF IInv, Results, FrameOnce, TypeOK, input, indices,
        threads, pictures, Broadcast, WaitsOnProgress
<1>1. CASE CreateThread
  BY <1>1 DEF CreateThread
<1>2. CASE Submit
  <2>1. TypeOK' /\ next_decoding \in Threads
    BY <1>2, TypeStep, SubmitCounts
  <2>2. /\ avpkt'[next_decoding] \in Packets
        /\ \A q \in Threads \ {next_decoding} : avpkt'[q] = avpkt[q]
    BY <1>2, <2>1, SubmitCounts
  <2>3. /\ worker' = [worker EXCEPT ![next_decoding] = "testing"]
        /\ state' = [state EXCEPT ![next_decoding] = "SETTING_UP"]
        /\ due' = [due EXCEPT ![next_decoding] = TRUE]
        /\ got_frame' = got_frame
    BY <1>2 DEF Submit
  <2> QED
    BY <2>1, <2>2, <2>3
<1>3. ASSUME NEW v \in Threads, Serve(v)
      PROVE  Results'
  BY <1>3 DEF Serve
<1>4. CASE Fetch
  BY <1>4 DEF Fetch
<1>5. CASE Park
  BY <1>5 DEF Park
<1>6. CASE FlushParked
  <2>1. \A q \in Threads : state[q] = "INPUT_READY" /\ ~got_frame[q]
    BY <1>6 DEF FlushParked, Parked
  <2> QED
    BY <1>6, <2>1 DEF FlushParked
<1>7. CASE WakeToDie
  BY <1>7 DEF WakeToDie
<1>8. CASE Free
  <2>1. \A q \in Threads : state[q] = "INPUT_READY" /\ ~got_frame[q]
    BY <1>8 DEF Free, Parked
  <2> QED
    BY <1>8, <2>1 DEF Free
<1>9. ASSUME NEW p \in Threads, Test(p)
      PROVE  Results'
  BY <1>9 DEF Test
<1>10. ASSUME NEW p \in Threads, GetBuffer(p)
      PROVE  Results'
  BY <1>10 DEF GetBuffer
<1>11. ASSUME NEW p \in Threads, SleepAgain(p)
      PROVE  Results'
  BY <1>11 DEF SleepAgain
<1>12. ASSUME NEW p \in Threads, FinishSetup(p)
      PROVE  Results'
  BY <1>12 DEF FinishSetup
<1>13. ASSUME NEW p \in Threads, AwaitProgress(p)
      PROVE  Results'
  BY <1>13 DEF AwaitProgress
<1>14. ASSUME NEW p \in Threads, ReportProgress(p)
      PROVE  Results'
  BY <1>14 DEF ReportProgress
<1>15. ASSUME NEW p \in Threads, DecodeReturns(p)
      PROVE  Results'
  BY <1>15 DEF DecodeReturns
<1>16. ASSUME ~CreateThread,
             ~Submit,
             (\A v \in Threads : ~Serve(v)),
             ~Fetch,
             ~Park,
             ~FlushParked,
             ~WakeToDie,
             ~Free,
             (\A p \in Threads : ~Test(p)),
             (\A p \in Threads : ~GetBuffer(p)),
             (\A p \in Threads : ~SleepAgain(p)),
             (\A p \in Threads : ~FinishSetup(p)),
             (\A p \in Threads : ~AwaitProgress(p)),
             (\A p \in Threads : ~ReportProgress(p)),
             (\A p \in Threads : ~DecodeReturns(p))
      PROVE  Results'
  <2>1. UNCHANGED <<worker, state, due, avpkt, got_frame>>
    BY <1>16 DEF Next, CallerStep, WorkerStep, vars, input, indices, threads,
         pictures, CreateFails, DecodeFrame, Flush, Close, LockThread,
         CopySleep, SubmitFails, ServeSleep, Served, Submitted, FetchSleep,
         ParkSleep, CloseParked, Join
  <2> QED
    BY <2>1 DEF Results, FrameOnce
<1> QED
  BY <1>1, <1>2, <1>3, <1>4, <1>5, <1>6, <1>7, <1>8, <1>9, <1>10, <1>11,
     <1>12, <1>13, <1>14, <1>15, <1>16

\* The threads that were waited for.
LEMMA ParkedStep ==
  ASSUME IInv, [Next]_vars
  PROVE  Parked'
<1> USE ThreadNumbers DEF IInv, Parked, Results, TypeOK, input, indices,
        threads, pictures, Awake, Broadcast
<1>1. CASE CreateThread
  BY <1>1 DEF CreateThread
<1>2. CASE CreateFails
  BY <1>2 DEF CreateFails
<1>3. ASSUME NEW empty \in BOOLEAN, DecodeFrame(empty)
      PROVE  Parked'
  BY <1>3 DEF DecodeFrame
<1>4. CASE Flush
  BY <1>4 DEF Flush
<1>5. CASE Close
  BY <1>5 DEF Close
<1>6. CASE LockThread
  BY <1>6 DEF LockThread
<1>7. CASE CopySleep
  BY <1>7 DEF CopySleep
<1>8. CASE Submit
  BY <1>8 DEF Submit
<1>9. CASE SubmitFails
  BY <1>9 DEF SubmitFails
<1>10. CASE ServeSleep
  BY <1>10 DEF ServeSleep
<1>11. CASE Served
  BY <1>11 DEF Served
<1>12. ASSUME NEW v \in Threads, Serve(v)
      PROVE  Parked'
  BY <1>12 DEF Serve
<1>13. CASE Submitted
  BY <1>13 DEF Submitted
<1>14. CASE FetchSleep
  BY <1>14 DEF FetchSleep
<1>15. CASE Fetch
  BY <1>15 DEF Fetch
<1>16. CASE ParkSleep
  BY <1>16 DEF ParkSleep
<1>17. CASE Park
  BY <1>17 DEF Park
<1>18. CASE FlushParked
  BY <1>18 DEF FlushParked
<1>19. CASE CloseParked
  BY <1>19 DEF CloseParked
<1>20. CASE WakeToDie
  BY <1>20 DEF WakeToDie
<1>21. CASE Join
  BY <1>21 DEF Join
<1>22. CASE Free
  BY <1>22 DEF Free
<1>23. ASSUME NEW p \in Threads, Test(p)
      PROVE  Parked'
  BY <1>23 DEF Test
<1>24. ASSUME NEW p \in Threads, GetBuffer(p)
      PROVE  Parked'
  BY <1>24 DEF GetBuffer
<1>25. ASSUME NEW p \in Threads, SleepAgain(p)
      PROVE  Parked'
  BY <1>25 DEF SleepAgain
<1>26. ASSUME NEW p \in Threads, FinishSetup(p)
      PROVE  Parked'
  BY <1>26 DEF FinishSetup
<1>27. ASSUME NEW p \in Threads, AwaitProgress(p)
      PROVE  Parked'
  BY <1>27 DEF AwaitProgress
<1>28. ASSUME NEW p \in Threads, ReportProgress(p)
      PROVE  Parked'
  BY <1>28 DEF ReportProgress
<1>29. ASSUME NEW p \in Threads, DecodeReturns(p)
      PROVE  Parked'
  BY <1>29 DEF DecodeReturns
<1>30. CASE UNCHANGED vars
  BY <1>30 DEF vars, Parked, indices, input, threads, pictures
<1> QED
  BY <1>1, <1>2, <1>3, <1>4, <1>5, <1>6, <1>7, <1>8, <1>9, <1>10, <1>11,
     <1>12, <1>13, <1>14, <1>15, <1>16, <1>17, <1>18, <1>19, <1>20, <1>21,
     <1>22, <1>23, <1>24, <1>25, <1>26, <1>27, <1>28, <1>29, <1>30
     DEF Next, CallerStep, WorkerStep

\* The thread that sets up.
LEMMA SetupStep ==
  ASSUME IInv, [Next]_vars
  PROVE  Setup'
<1> USE ThreadNumbers DEF IInv, Setup, SettingUp, Newest, Taken, TypeOK, input,
        indices, threads, pictures, Awake, Broadcast
<1>0. avpkt' = avpkt => Sent' = Sent
  BY DEF Sent
<1> USE <1>0
<1>1. CASE CreateThread
  BY <1>1 DEF CreateThread
<1>2. CASE CreateFails
  BY <1>2 DEF CreateFails
<1>3. ASSUME NEW empty \in BOOLEAN, DecodeFrame(empty)
      PROVE  Setup'
  BY <1>3 DEF DecodeFrame
<1>4. CASE Flush
  BY <1>4 DEF Flush
<1>5. CASE Close
  BY <1>5 DEF Close
<1>6. CASE LockThread
  BY <1>6 DEF LockThread
<1>7. CASE CopySleep
  BY <1>7 DEF CopySleep
<1>8. CASE Submit
  <2>1. TypeOK'
    BY TypeStep
  <2>0. next_decoding \in Threads
    BY <1>8, <2>1, SubmitCounts
  <2>2. \A q \in Threads : ~SettingUp(q)
    BY <1>8 DEF Submit
  <2>3. context'[next_decoding] = Sent
    BY <1>8, <2>0, <2>2 DEF Submit
  <2>4. Newest' = next_decoding /\ (~codec.safe => caller' = "serving")
    BY <1>8 DEF Submit, Places
  <2>5. /\ state' = [state EXCEPT ![next_decoding] = "SETTING_UP"]
        /\ UNCHANGED <<reported, codec>>
    BY <1>8 DEF Submit
  <2>6. state \in [Threads -> {"INPUT_READY", "SETTING_UP", "GET_BUFFER",
                              "SETUP_FINISHED"}]
    OBVIOUS
  <2>7. /\ state'[next_decoding] = "SETTING_UP"
        /\ \A q \in Threads : SettingUp(q)' => q = next_decoding
    BY <2>0, <2>2, <2>5, <2>6
  <2>8. avpkt'[next_decoding] = Sent + 1 /\ Sent' = Sent + 1 /\ Sent \in Nat
    BY <1>8, <2>1, SubmitCounts
  <2>9. Sent + 1 \notin reported
    BY <2>8 DEF Numbers, Packets
  <2>10. ASSUME NEW q \in Threads, SettingUp(q)'
         PROVE  /\ q = Newest' /\ context'[q] = avpkt'[q] - 1
                /\ avpkt'[q] \notin reported'
                /\ state'[q] = "GET_BUFFER" \/ ~codec'.safe =>
                     caller' \in {"serving", "serveSleep"}
    <3>1. q = next_decoding
      BY <2>7, <2>10
    <3> HIDE DEF IInv, TypeOK, Newest, Setup
    <3> QED
      BY <2>3, <2>4, <2>5, <2>7, <2>8, <2>9, <3>1
  <2>11. /\ Newest' \in Threads /\ avpkt'[Newest'] = Sent'
         /\ SettingUp(Newest)'
    <3> HIDE DEF IInv, TypeOK, Newest, Setup
    <3> QED
      BY <2>0, <2>4, <2>7, <2>8 DEF SettingUp
  <2> HIDE DEF IInv, TypeOK, Newest, SettingUp
  <2> QED
    BY <2>10, <2>11
<1>9. CASE SubmitFails
  BY <1>9 DEF SubmitFails
<1>10. CASE ServeSleep
  BY <1>10 DEF ServeSleep
<1>11. CASE Served
  <2>1. Taken
    BY <1>11 DEF Served, Places
  <2> QED
    BY <1>11, <2>1 DEF Served
<1>12. ASSUME NEW v \in Threads, Serve(v)
      PROVE  Setup'
  BY <1>12 DEF Serve
<1>13. CASE Submitted
  BY <1>13 DEF Submitted
<1>14. CASE FetchSleep
  BY <1>14 DEF FetchSleep
<1>15. CASE Fetch
  BY <1>15 DEF Fetch
<1>16. CASE ParkSleep
  BY <1>16 DEF ParkSleep
<1>17. CASE Park
  BY <1>17 DEF Park
<1>18. CASE FlushParked
  <2>1. /\ \A q \in Threads : state[q] = "INPUT_READY"
        /\ UNCHANGED <<state, codec, avpkt, reported>> /\ Sent' = Sent
    BY <1>18 DEF FlushParked, Parked
  <2>2. Newest = prev_thread /\ Newest' = None /\ next_decoding' = 0
    BY <1>18 DEF FlushParked
  <2>3. CASE prev_thread = None
    <3>1. context' = context
      BY <1>18, <2>3 DEF FlushParked, FirstContext
    <3> QED
      BY <2>1, <2>2, <2>3, <3>1
  <2>4. CASE prev_thread # None
    <3>1. context'[0] = context[prev_thread]
      BY <1>18, <2>4 DEF FlushParked, FirstContext
    <3>2. context[prev_thread] = Sent
      BY <2>1, <2>2, <2>4
    <3> QED
      BY <2>1, <2>2, <3>1, <3>2
  <2> QED
    BY <2>3, <2>4
<1>19. CASE CloseParked
  <2>1. /\ \A q \in Threads : state[q] = "INPUT_READY"
        /\ UNCHANGED <<state, codec, avpkt, reported, next_decoding>>
        /\ Sent' = Sent
    BY <1>19 DEF CloseParked, Parked
  <2>2. Newest = prev_thread /\ Newest' = prev_thread
    BY <1>19 DEF CloseParked
  <2>3. CASE prev_thread = None
    <3>1. context' = context
      BY <1>19, <2>3 DEF CloseParked, FirstContext
    <3> QED
      BY <2>1, <2>2, <2>3, <3>1
  <2>4. CASE prev_thread # None
    <3>1. context'[prev_thread] = context[prev_thread]
      BY <1>19, <2>4 DEF CloseParked, FirstContext
    <3>2. context[prev_thread] = Sent
      BY <2>1, <2>2, <2>4
    <3> QED
      BY <2>1, <2>2, <2>4, <3>1, <3>2
  <2> QED
    BY <2>3, <2>4
<1>20. CASE WakeToDie
  BY <1>20 DEF WakeToDie
<1>21. CASE Join
  BY <1>21 DEF Join
<1>22. CASE Free
  BY <1>22 DEF Free
<1>23. ASSUME NEW p \in Threads, Test(p)
      PROVE  Setup'
  BY <1>23 DEF Test
<1>24. ASSUME NEW p \in Threads, GetBuffer(p)
      PROVE  Setup'
  BY <1>24 DEF GetBuffer
<1>25. ASSUME NEW p \in Threads, SleepAgain(p)
      PROVE  Setup'
  BY <1>25 DEF SleepAgain
<1>26. ASSUME NEW p \in Threads, FinishSetup(p)
      PROVE  Setup'
  BY <1>26 DEF FinishSetup
<1>27. ASSUME NEW p \in Threads, AwaitProgress(p)
      PROVE  Setup'
  BY <1>27 DEF AwaitProgress
<1>28. ASSUME NEW p \in Threads, ReportProgress(p)
      PROVE  Setup'
  <2>1. \A q \in Threads : SettingUp(q) => avpkt[q] # avpkt[p]
    BY <1>28 DEF ReportProgress, Numbers, Results, Packets
  <2> QED
    BY <1>28, <2>1 DEF ReportProgress
<1>29. ASSUME NEW p \in Threads, DecodeReturns(p)
      PROVE  Setup'
  BY <1>29 DEF DecodeReturns
<1>30. CASE UNCHANGED vars
  BY <1>30 DEF vars, Setup, Sent, Newest, Taken, SettingUp, indices, input,
     threads, pictures
<1> QED
  BY <1>1, <1>2, <1>3, <1>4, <1>5, <1>6, <1>7, <1>8, <1>9, <1>10, <1>11,
     <1>12, <1>13, <1>14, <1>15, <1>16, <1>17, <1>18, <1>19, <1>20, <1>21,
     <1>22, <1>23, <1>24, <1>25, <1>26, <1>27, <1>28, <1>29, <1>30
     DEF Next, CallerStep, WorkerStep

----------------------------------------------------------------------------
(* The theorems *)

LEMMA InitIInv == Init => IInv
<1> SUFFICES ASSUME Init
             PROVE  IInv
  OBVIOUS
<1>1. TypeOK
  <2>1. /\ codec \in Codecs /\ caller = "opening" /\ draining = FALSE
        /\ cursor = 0 /\ next_decoding = 0 /\ next_finished = 0
        /\ delaying = TRUE /\ prev_thread = None /\ die = FALSE /\ started = 0
        /\ reported = {} /\ received = 0
    BY Zenon DEF Init
  <2>2. draining \in BOOLEAN /\ delaying \in BOOLEAN /\ die \in BOOLEAN
    BY <2>1, Zenon
  <2>3. /\ worker \in [Threads -> {"none", "testing", "sleeping", "decoding",
                                   "requesting", "awaiting", "ended"}]
        /\ state \in [Threads -> {"INPUT_READY", "SETTING_UP", "GET_BUFFER",
                                  "SETUP_FINISHED"}]
    BY DEF Init
  <2>4. /\ avpkt \in [Threads -> Packets \cup {0}]
        /\ context \in [Threads -> Packets \cup {0}]
        /\ owner \in [Packets -> Threads \cup {None}]
    BY DEF Init
  <2>5. /\ got_frame \in [Threads -> BOOLEAN]
        /\ requested \in [Threads -> BOOLEAN] /\ due \in [Threads -> BOOLEAN]
    BY DEF Init
  <2>6. /\ cursor \in 0 .. ThreadCount /\ next_decoding \in 0 .. ThreadCount
        /\ next_finished \in Threads /\ started \in 0 .. ThreadCount
        /\ reported \subseteq Packets /\ received \in Packets \cup {0}
    BY <2>1, ThreadNumbers
  <2> QED
    BY <2>1, <2>2, <2>3, <2>4, <2>5, <2>6 DEF TypeOK
<1>2. /\ \A p \in Threads : avpkt[p] = 0 /\ context[p] = 0
      /\ \A p \in Threads : state[p] = "INPUT_READY" /\ worker[p] = "none"
      /\ \A p \in Threads : ~got_frame[p]
  BY DEF Init
<1>3. Sent = 0 /\ Largest(avpkt, Sent)
  <2>1. 0 \in 0 .. MaxPackets /\ Largest(avpkt, 0)
    BY <1>2 DEF Largest
  <2> QED
    BY <1>1, <2>1, SentIs
<1>4. Places /\ Numbers
  BY <1>2, <1>3, ThreadNumbers DEF Init, Places, Numbers
<1>5. Results /\ Parked
  BY <1>2 DEF Init, Results, Parked, FrameOnce
<1>6. Setup
  BY <1>2, <1>3, ThreadNumbers DEF Init, Setup, SettingUp, Newest
<1> QED
  BY <1>1, <1>4, <1>5, <1>6 DEF IInv

LEMMA Inductive == Spec => []IInv
<1>1. IInv /\ [Next]_vars => IInv'
  BY TypeStep, PlacesStep, NumbersStep, ResultsStep, ParkedStep, SetupStep
     DEF IInv
<1> QED
  BY <1>1, InitIInv, PTL DEF Spec

\* The variables have their types (pthread_frame.c).
THEOREM TypeCorrect == Spec => []TypeOK
<1>1. IInv => TypeOK
  BY DEF IInv
<1> QED
  BY <1>1, Inductive, PTL

\* A thread parses its packet from the context of all packets before, across
\* flushes, refused packets and calls that drain (submit_packet,
\* ff_thread_flush).
THEOREM ContextIsComplete == Spec => []ContextComplete
<1>1. IInv => ContextComplete
  BY DEF IInv, Setup, SettingUp, ContextComplete, Previous
<1> QED
  BY <1>1, Inductive, PTL

\* A frame stays in a thread only while its result is due: it is not returned
\* twice (ff_thread_decode_frame, ff_thread_flush).
THEOREM FrameIsReturnedOnce == Spec => []FrameOnce
<1>1. IInv => FrameOnce
  BY DEF IInv, Results
<1> QED
  BY <1>1, Inductive, PTL

----------------------------------------------------------------------------
(* The results that are due *)

Before ==
  \/ caller \in {"opening", "idle", "submitting", "copying", "copySleep"}
  \/ caller = "submitted" /\ ~Taken
After ==
  \/ caller \in {"serving", "serveSleep"}
  \/ caller = "submitted" /\ Taken
Fetching == caller \in {"fetching", "fetchSleep"}

\* Where thread p is in the ring that begins with next_finished, and the place
\* behind the thread that was given the last packet.
Offset(p) == IF p >= next_finished THEN p - next_finished
             ELSE p - next_finished + ThreadCount
Behind == IF After THEN next_decoding + 1 ELSE next_decoding

\* The last d packets are in the ring, one behind the other, and the results of
\* those after the first a are due.
Span(a, d) ==
  /\ a <= d
  /\ Behind = next_finished + d \/ Behind = next_finished + d - ThreadCount
  /\ delaying => Behind = next_finished + d
  /\ \A p \in Threads : due[p] <=> a <= Offset(p) /\ Offset(p) < d
  /\ \A p \in Threads : due[p] => avpkt[p] = Sent - d + 1 + Offset(p)
  /\ Sent - d + a >= 0
  /\ Before => d < ThreadCount
  /\ After => d > 0
  /\ Fetching => /\ Offset(cursor) <= a \/ a = d
                 /\ ~draining => cursor = next_finished /\ d > 0
                 /\ delaying => next_decoding < ThreadCount

Queue == \E a, d \in 0 .. ThreadCount : Span(a, d)

\* The places in the ring are numbered.
LEMMA Offsets ==
  ASSUME TypeOK
  PROVE  /\ \A p \in Threads : Offset(p) \in 0 .. ThreadCount - 1
         /\ \A p, q \in Threads : Offset(p) = Offset(q) => p = q
         /\ \A o \in 0 .. ThreadCount - 1 : \E p \in Threads : Offset(p) = o
         /\ Offset(next_finished) = 0
<1>1. next_finished \in Nat /\ next_finished < ThreadCount
  BY ThreadNumbers DEF TypeOK
<1>2. ASSUME NEW o \in 0 .. ThreadCount - 1
      PROVE  \E p \in Threads : Offset(p) = o
  <2>1. CASE next_finished + o < ThreadCount
    <3>1. next_finished + o \in Threads /\ Offset(next_finished + o) = o
      BY <1>1, <2>1 DEF Threads, Offset
    <3> QED
      BY <3>1
  <2>2. CASE ~(next_finished + o < ThreadCount)
    <3>1. /\ next_finished + o - ThreadCount \in Threads
          /\ Offset(next_finished + o - ThreadCount) = o
      BY <1>1, <2>2 DEF Threads, Offset
    <3> QED
      BY <3>1
  <2> QED
    BY <2>1, <2>2
<1>3. \A p \in Threads : Offset(p) \in 0 .. ThreadCount - 1
  BY <1>1 DEF Threads, Offset
<1>4. \A p, q \in Threads : Offset(p) = Offset(q) => p = q
  BY <1>1 DEF Threads, Offset
<1>5. Offset(next_finished) = 0
  BY <1>1 DEF Offset
<1> QED
  BY <1>2, <1>3, <1>4, <1>5

\* The numbers that count here.
LEMMA QueueTypes ==
  ASSUME TypeOK, Numbers
  PROVE  /\ next_decoding \in Nat /\ next_finished \in Nat
         /\ next_decoding <= ThreadCount /\ next_finished < ThreadCount
         /\ next_finished \in Threads
         /\ Sent \in Nat /\ Sent <= MaxPackets
         /\ \A p \in Threads : avpkt[p] \in Nat
  BY ThreadNumbers DEF TypeOK, Numbers, Packets

\* Steps that neither give a packet to a thread nor take its result.
LEMMA QueueStays ==
  ASSUME Queue, UNCHANGED <<next_decoding, next_finished, delaying, due, avpkt>>,
         Before' => Before, After' <=> After,
         Fetching' => Fetching /\ cursor' = cursor /\ draining' = draining
  PROVE  Queue'
<1>1. PICK a \in 0 .. ThreadCount, d \in 0 .. ThreadCount : Span(a, d)
  BY DEF Queue
<1>2. \A p : Offset(p)' = Offset(p)
  BY DEF Offset
<1>3. Sent' = Sent /\ Behind' = Behind
  BY DEF Sent, Behind
<1>4. Fetching' => Offset(cursor)' = Offset(cursor)
  BY <1>2
<1>5. Span(a, d)'
  BY <1>1, <1>2, <1>3, <1>4 DEF Span
<1> QED
  BY <1>5 DEF Queue

\* The thread whose turn it is comes after those that have a packet, and its
\* result is not due.
LEMMA NextIsFree ==
  ASSUME TypeOK, Numbers, caller = "copying",
         NEW a \in 0 .. ThreadCount, NEW d \in 0 .. ThreadCount, Span(a, d)
  PROVE  /\ next_decoding \in Threads /\ Offset(next_decoding) = d
         /\ ~due[next_decoding] /\ d < ThreadCount
<1> PICK p \in Threads : p = next_decoding
  BY DEF TypeOK
<1>1. Before /\ ~After /\ Behind = p
  BY DEF Before, After, Behind
<1>2. /\ d < ThreadCount
      /\ p = next_finished + d \/ p = next_finished + d - ThreadCount
  BY <1>1 DEF Span
<1>3. /\ p \in Nat /\ next_finished \in Nat /\ p < ThreadCount
      /\ next_finished < ThreadCount
  BY QueueTypes, ThreadNumbers
<1>4. Offset(p) = d
  BY <1>2, <1>3 DEF Offset
<1>5. ~due[p]
  BY <1>4 DEF Span
<1> QED
  BY <1>2, <1>4, <1>5

\* A packet is given to a thread.
LEMMA QueueSubmit ==
  ASSUME IInv, IInv', Queue, Submit
  PROVE  Queue'
<1>0. /\ TypeOK /\ TypeOK' /\ Numbers /\ caller = "copying" /\ Taken
      /\ Sent < MaxPackets
  BY DEF IInv, Submit, Places
<1> PICK p \in Threads : p = next_decoding
  BY <1>0 DEF TypeOK
<1>1. PICK a \in 0 .. ThreadCount, d \in 0 .. ThreadCount : Span(a, d)
  BY DEF Queue
<1>2. /\ d < ThreadCount /\ Before /\ ~After /\ Behind = p
      /\ After' /\ ~Before' /\ ~Fetching'
      /\ UNCHANGED <<next_finished, next_decoding, delaying>>
      /\ avpkt' = [avpkt EXCEPT ![p] = Sent + 1]
      /\ due' = [due EXCEPT ![p] = TRUE]
  BY <1>0, <1>1 DEF Span, Submit, Before, After, Fetching, Behind, TypeOK, Taken,
     input, indices
<1>3. Sent' = Sent + 1
  BY <1>0, SubmitCounts
<1>4. \A q : Offset(q)' = Offset(q)
  BY <1>2 DEF Offset
<1>5. Offset(p) = d
  BY <1>0, <1>1, <1>2, NextIsFree
<1>6. \A q \in Threads :
        q # p => due'[q] = due[q] /\ avpkt'[q] = avpkt[q] /\ Offset(q) # d
  BY <1>0, <1>2, <1>5, Offsets DEF TypeOK
<1>7. due'[p] /\ avpkt'[p] = Sent + 1
  BY <1>0, <1>2 DEF TypeOK
<1>8. /\ d + 1 \in 0 .. ThreadCount /\ a <= d + 1
      /\ d \in Nat /\ a \in Nat /\ a <= d
      /\ Sent \in Nat /\ next_finished \in Nat /\ next_decoding \in Nat
      /\ \A q \in Threads : Offset(q) \in Nat
  <2>1. a <= d
    BY <1>1 DEF Span
  <2> QED
    BY <1>0, <1>2, <2>1, QueueTypes, Offsets
<1>9. Span(a, d + 1)'
  <2>1. /\ \/ Behind' = next_finished' + (d + 1)
           \/ Behind' = next_finished' + (d + 1) - ThreadCount
        /\ delaying' => Behind' = next_finished' + (d + 1)
    BY <1>1, <1>2, <1>8 DEF Span, Behind
  <2>2. \A q \in Threads : due'[q] <=> a <= Offset(q)' /\ Offset(q)' < d + 1
    <3>1. ASSUME NEW q \in Threads, q # p
          PROVE  due'[q] <=> a <= Offset(q)' /\ Offset(q)' < d + 1
      <4>1. due[q] <=> a <= Offset(q) /\ Offset(q) < d
        BY <1>1 DEF Span
      <4>2. Offset(q) < d <=> Offset(q) < d + 1
        BY <1>6, <1>8, <3>1
      <4> QED
        BY <1>4, <1>6, <3>1, <4>1, <4>2
    <3>2. a <= Offset(p)' /\ Offset(p)' < d + 1
      BY <1>4, <1>5, <1>7, <1>8
    <3> QED
      BY <1>7, <3>1, <3>2
  <2>3. \A q \in Threads : due'[q] => avpkt'[q] = Sent' - (d + 1) + 1 + Offset(q)'
    <3>1. ASSUME NEW q \in Threads, q # p, due'[q]
          PROVE  avpkt'[q] = Sent' - (d + 1) + 1 + Offset(q)'
      <4>1. avpkt[q] = Sent - d + 1 + Offset(q)
        BY <1>1, <1>6, <3>1 DEF Span
      <4> QED
        BY <1>3, <1>4, <1>6, <1>8, <3>1, <4>1
    <3>2. avpkt'[p] = Sent' - (d + 1) + 1 + Offset(p)'
      BY <1>3, <1>4, <1>5, <1>7, <1>8
    <3> QED
      BY <3>1, <3>2
  <2>4. Sent' - (d + 1) + a >= 0
    <3>1. Sent - d + a >= 0
      BY <1>1 DEF Span
    <3> QED
      BY <1>3, <1>8, <3>1
  <2>5. d + 1 > 0
    BY <1>8
  <2> QED
    BY <1>2, <1>8, <2>1, <2>2, <2>3, <2>4, <2>5 DEF Span
<1> QED
  BY <1>8, <1>9 DEF Queue

\* The search for a frame begins, or the packet is only taken.
LEMMA QueueFetches ==
  ASSUME IInv, IInv', Queue, Submitted
  PROVE  Queue'
<1>0. TypeOK /\ TypeOK' /\ Numbers /\ caller = "submitted" /\ next_decoding \in Threads
  BY DEF IInv, Submitted, Places
<1>1. PICK a \in 0 .. ThreadCount, d \in 0 .. ThreadCount : Span(a, d)
  BY DEF Queue
<1>2. /\ UNCHANGED <<next_finished, draining, due, avpkt>>
      /\ Taken' = Taken /\ ~After' /\ next_decoding' = Behind
      /\ delaying' = (delaying /\ next_decoding' <= ThreadCount - 1)
      /\ \/ delaying' /\ ~draining /\ caller' = "idle"
         \/ caller' = "fetching" /\ cursor' = next_finished
  BY <1>0 DEF Submitted, After, Taken, Behind, input, threads
<1>3. Sent' = Sent /\ \A q : Offset(q)' = Offset(q)
  BY <1>2 DEF Sent, Offset
<1>4. Behind' = Behind
  BY <1>2 DEF Behind
<1>5. Offset(cursor)' = 0 \/ ~Fetching'
  BY <1>0, <1>2, <1>3, Offsets DEF Fetching
<1>6. ~draining => d > 0
  BY <1>0, <1>1 DEF Span, After, Taken
<1>7. /\ next_finished \in Nat /\ next_decoding' \in Nat
      /\ next_decoding' = next_finished + d => d <= next_decoding'
  <2>1. next_finished \in Nat
    BY <1>0, QueueTypes
  <2>2. next_decoding' \in Nat
    BY <1>0 DEF TypeOK
  <2> QED
    BY <2>1, <2>2
<1>8. Before' => d < ThreadCount
  <2>1. ASSUME Before'
        PROVE  delaying /\ next_decoding' <= ThreadCount - 1
    BY <1>2, <2>1 DEF Before
  <2>2. delaying => next_decoding' = next_finished + d
    BY <1>1, <1>2 DEF Span
  <2> QED
    BY <1>7, <2>1, <2>2
<1>9. Fetching' => /\ Offset(cursor)' <= a
                   /\ ~draining' => cursor' = next_finished' /\ d > 0
                   /\ delaying' => next_decoding' < ThreadCount
  <2>1. Fetching' => cursor' = next_finished
    BY <1>2 DEF Fetching
  <2>2. delaying' => next_decoding' < ThreadCount
    <3>1. delaying' => next_decoding' <= ThreadCount - 1
      BY <1>2
    <3> QED
      BY <1>7, <3>1
  <2> QED
    BY <1>2, <1>5, <1>6, <2>1, <2>2
<1>10. Span(a, d)'
  <2>1. /\ Behind' = next_finished' + d \/ Behind' = next_finished' + d - ThreadCount
        /\ delaying' => Behind' = next_finished' + d
    BY <1>1, <1>2, <1>4 DEF Span
  <2>2. /\ \A q \in Threads : due'[q] <=> a <= Offset(q)' /\ Offset(q)' < d
        /\ \A q \in Threads : due'[q] => avpkt'[q] = Sent' - d + 1 + Offset(q)'
        /\ Sent' - d + a >= 0 /\ a <= d
    BY <1>1, <1>2, <1>3 DEF Span
  <2> QED
    BY <1>2, <1>8, <1>9, <2>1, <2>2 DEF Span
<1> QED
  BY <1>10 DEF Queue

\* The result of a thread is taken: it is the oldest, if it was due.
LEMMA QueueTakes ==
  ASSUME IInv, Fetch, NEW a \in 0 .. ThreadCount, NEW d \in 0 .. ThreadCount,
         Span(a, d)
  PROVE  \E b \in 0 .. ThreadCount :
           /\ b <= d /\ Sent - d + b >= 0
           /\ Offset(cursor) < b \/ b = d
           /\ \A q \in Threads : due'[q] <=> b <= Offset(q) /\ Offset(q) < d
           /\ \A q \in Threads : due'[q] => avpkt'[q] = Sent - d + 1 + Offset(q)
<1>1. /\ TypeOK /\ Numbers /\ Fetching /\ cursor \in Threads
      /\ due' = [due EXCEPT ![cursor] = FALSE] /\ avpkt' = avpkt
  BY DEF IInv, Fetch, Places, Fetching
<1>2. /\ a <= d /\ Sent - d + a >= 0
      /\ Offset(cursor) <= a \/ a = d
      /\ \A q \in Threads : due[q] <=> a <= Offset(q) /\ Offset(q) < d
      /\ \A q \in Threads : due[q] => avpkt[q] = Sent - d + 1 + Offset(q)
  BY <1>1 DEF Span
<1>3. /\ Sent \in Nat /\ \A q \in Threads : Offset(q) \in Nat
      /\ \A q \in Threads : Offset(q) = Offset(cursor) => q = cursor
  BY <1>1, QueueTypes, Offsets
<1>4. \A q \in Threads : due'[q] <=> due[q] /\ q # cursor
  BY <1>1 DEF TypeOK
<1>5. \A q \in Threads : due'[q] => avpkt'[q] = Sent - d + 1 + Offset(q)
  BY <1>1, <1>2, <1>4
<1>6. CASE due[cursor]
  <2>1. Offset(cursor) = a /\ a < d
    BY <1>1, <1>2, <1>3, <1>6
  <2>2. a + 1 \in 0 .. ThreadCount /\ a + 1 <= d /\ Offset(cursor) < a + 1
        /\ Sent - d + (a + 1) >= 0
    BY <1>2, <1>3, <2>1
  <2>3. \A q \in Threads : due'[q] <=> a + 1 <= Offset(q) /\ Offset(q) < d
    <3>1. \A q \in Threads : q # cursor => (a <= Offset(q) <=> a + 1 <= Offset(q))
      BY <1>1, <1>3, <2>1
    <3>2. ~(a + 1 <= Offset(cursor))
      BY <2>1
    <3> QED
      BY <1>2, <1>4, <3>1, <3>2
  <2> QED
    BY <1>5, <2>2, <2>3
<1>7. CASE ~due[cursor]
  <2>1. Offset(cursor) < a \/ a = d
    BY <1>1, <1>2, <1>3, <1>7
  <2>2. \A q \in Threads : due'[q] <=> a <= Offset(q) /\ Offset(q) < d
    BY <1>2, <1>4, <1>7
  <2> QED
    BY <1>2, <1>5, <2>1, <2>2
<1> QED
  BY <1>6, <1>7

\* The search goes on, or it ends with the thread that had a frame, with the one
\* that was due, or once around.
LEMMA QueueEnds ==
  ASSUME IInv, IInv', Queue, Fetch
  PROVE  Queue'
<1>0. /\ TypeOK /\ TypeOK' /\ Numbers /\ caller = "fetching" /\ cursor \in Threads
      /\ Fetching /\ ~After
  BY DEF IInv, Fetch, Places, Fetching, After
<1>1. PICK a \in 0 .. ThreadCount, d \in 0 .. ThreadCount : Span(a, d)
  BY DEF Queue
<1>2. PICK b \in 0 .. ThreadCount :
           /\ b <= d /\ Sent - d + b >= 0
           /\ Offset(cursor) < b \/ b = d
           /\ \A q \in Threads : due'[q] <=> b <= Offset(q) /\ Offset(q) < d
           /\ \A q \in Threads : due'[q] => avpkt'[q] = Sent - d + 1 + Offset(q)
  BY <1>1, QueueTakes
<1> PICK c \in Threads : c = cursor
  BY <1>0
<1> DEFINE next == IF c + 1 >= ThreadCount THEN 0 ELSE c + 1
           o == Offset(c)
<1>3. /\ next_finished \in 0 .. ThreadCount - 1 /\ c \in 0 .. ThreadCount - 1
      /\ next \in 0 .. ThreadCount - 1 /\ next \in Threads
      /\ next_decoding \in 0 .. ThreadCount /\ Sent \in Nat
      /\ next_finished \in Threads
  BY <1>0, QueueTypes, ThreadNumbers DEF Threads
<1>4. /\ o \in 0 .. ThreadCount - 1
      /\ c = next_finished + o \/ c = next_finished + o - ThreadCount
      /\ next # next_finished => Offset(next) = o + 1
      /\ next = next_finished => o + 1 = ThreadCount
  BY <1>3 DEF Offset
<1>5. Sent' = Sent
  BY DEF Fetch, Sent
<1>6. /\ Behind = next_decoding
      /\ \/ next_decoding = next_finished + d
         \/ next_decoding = next_finished + d - ThreadCount
      /\ delaying =>
           next_decoding = next_finished + d /\ next_decoding < ThreadCount
      /\ ~draining => c = next_finished /\ d > 0
  BY <1>0, <1>1 DEF Span, Behind
<1> HIDE DEF next, o
<1>7. CASE /\ cursor' = next /\ draining /\ next # next_finished
           /\ UNCHANGED <<caller, next_decoding, next_finished, delaying,
                          draining, codec>>
  <2>1. \A q : Offset(q)' = Offset(q)
    BY <1>7 DEF Offset
  <2>2. /\ Fetching' /\ ~After' /\ ~Before' /\ Behind' = next_decoding
    BY <1>0, <1>7 DEF Fetching, After, Before, Behind
  <2>3. Offset(cursor)' = o + 1 /\ (o + 1 <= b \/ b = d)
    <3>1. Offset(cursor)' = Offset(next)
      BY <1>7, <2>1
    <3> QED
      BY <1>2, <1>4, <1>7, <3>1 DEF o
  <2>4. Span(b, d)'
    BY <1>2, <1>5, <1>6, <1>7, <2>1, <2>2, <2>3 DEF Span
  <2> QED
    BY <2>4 DEF Queue
<1>8. CASE /\ ~(draining /\ ~got_frame[c] /\ next # next_finished)
           /\ caller' = "idle" /\ next_finished' = next /\ delaying' = delaying
           /\ next_decoding' = IF next_decoding >= ThreadCount THEN 0
                               ELSE next_decoding
  <2>1. Before' /\ ~After' /\ ~Fetching' /\ Behind' = next_decoding'
    BY <1>8 DEF Before, After, Fetching, Behind
  <2>2. CASE o + 1 <= d
    <3>1. o + 1 <= b
      BY <1>2, <1>4, <2>2 DEF o
    <3>2. d - (o + 1) \in 0 .. ThreadCount /\ b - (o + 1) \in 0 .. ThreadCount
      BY <1>2, <1>4, <2>2, <3>1
    <3> PICK z \in 0 .. ThreadCount : z = b - (o + 1)
      BY <3>2
    <3> PICK e \in 0 .. ThreadCount : e = d - (o + 1)
      BY <3>2
    <3>10. z <= e /\ e < ThreadCount
      BY <1>2, <1>4
    <3>3. \A q \in Threads :
            Offset(q)' = IF Offset(q) > o THEN Offset(q) - (o + 1)
                         ELSE Offset(q) + ThreadCount - (o + 1)
      <4> SUFFICES ASSUME NEW q \in Threads
                   PROVE  Offset(q)' = IF Offset(q) > o THEN Offset(q) - (o + 1)
                                       ELSE Offset(q) + ThreadCount - (o + 1)
        OBVIOUS
      <4>1. Offset(q)' = IF q >= next THEN q - next ELSE q - next + ThreadCount
        BY <1>8 DEF Offset
      <4>2. q \in 0 .. ThreadCount - 1
        BY DEF Threads
      <4> QED
        BY <1>3, <4>1, <4>2 DEF Offset, o, next
    <3>4. /\ Behind' = next_finished' + e \/ Behind' = next_finished' + e - ThreadCount
          /\ delaying' => Behind' = next_finished' + e
      <4>1. /\ Behind' = next + e \/ Behind' = next + e - ThreadCount
        BY <1>3, <1>4, <1>6, <1>8, <2>1, <2>2 DEF next
      <4>2. ASSUME delaying
            PROVE  Behind' = next + e
        BY <1>3, <1>4, <1>6, <1>8, <2>1, <2>2, <4>2 DEF next
      <4> QED
        BY <1>8, <4>1, <4>2
    <3>5. \A q \in Threads : Offset(q) \in 0 .. ThreadCount - 1
      BY <1>0, Offsets
    <3>6. \A q \in Threads : due'[q] <=> z <= Offset(q)' /\ Offset(q)' < e
      <4> SUFFICES ASSUME NEW q \in Threads
                   PROVE  due'[q] <=> z <= Offset(q)' /\ Offset(q)' < e
        OBVIOUS
      <4>1. b <= Offset(q) /\ Offset(q) < d <=> z <= Offset(q)' /\ Offset(q)' < e
        BY <1>2, <1>4, <2>2, <3>1, <3>3, <3>5
      <4> QED
        BY <1>2, <4>1
    <3>7. \A q \in Threads : due'[q] => avpkt'[q] = Sent' - e + 1 + Offset(q)'
      <4> SUFFICES ASSUME NEW q \in Threads, due'[q]
                   PROVE  avpkt'[q] = Sent' - e + 1 + Offset(q)'
        OBVIOUS
      <4>1. /\ avpkt'[q] = Sent - d + 1 + Offset(q) /\ b <= Offset(q)
        BY <1>2
      <4> QED
        BY <1>3, <1>4, <1>5, <3>1, <3>3, <3>5, <4>1
    <3>8. Sent' - e + z >= 0
      BY <1>2, <1>3, <1>4, <1>5
    <3>9. Span(z, e)'
      BY <2>1, <3>10, <3>4, <3>6, <3>7, <3>8 DEF Span
    <3> QED
      BY <3>9 DEF Queue
  <2>3. CASE ~(o + 1 <= d)
    <3>1. draining /\ ~got_frame[c] /\ next = next_finished
      <4>1. ASSUME ~draining
            PROVE  FALSE
        <5>1. o = 0 /\ d > 0
          BY <1>0, <1>6, <4>1, Offsets DEF o
        <5> QED
          BY <2>3, <5>1
      <4>2. ASSUME got_frame[c]
            PROVE  FALSE
        <5>1. due[c]
          BY <4>2 DEF IInv, Results, FrameOnce
        <5>2. o < d
          BY <1>1, <5>1 DEF Span, o
        <5> QED
          BY <1>4, <2>3, <5>2
      <4> QED
        BY <1>8, <4>1, <4>2
    <3>2. o + 1 = ThreadCount /\ d < ThreadCount
      BY <1>4, <2>3, <3>1
    <3>3. b = d
      BY <1>2, <2>3, <1>4 DEF o
    <3>4. \A q : Offset(q)' = Offset(q)
      BY <1>8, <3>1 DEF Offset
    <3>5. /\ next_finished' = next_finished /\ delaying' = delaying
          /\ Behind' = next_finished + d \/ Behind' = next_finished + d - ThreadCount
          /\ delaying => Behind' = next_finished + d
      BY <1>3, <1>6, <1>8, <2>1, <3>1
    <3>6. Span(b, d)'
      BY <1>2, <1>5, <2>1, <3>2, <3>4, <3>5 DEF Span
    <3> QED
      BY <3>6 DEF Queue
  <2> QED
    BY <2>2, <2>3
<1> QED
  BY <1>7, <1>8 DEF Fetch, input, next

\* A flush leaves nothing that is due, and the threads begin anew; the end leaves
\* nothing either.
LEMMA QueueFlush ==
  ASSUME IInv, IInv', Queue, FlushParked
  PROVE  Queue'
<1>1. /\ next_decoding' = 0 /\ next_finished' = 0 /\ caller' = "idle"
      /\ avpkt' = avpkt /\ \A q \in Threads : ~due'[q]
  BY DEF FlushParked
<1>2. Before' /\ ~After' /\ ~Fetching' /\ Behind' = 0
  BY <1>1 DEF Before, After, Fetching, Behind
<1>3. \A q \in Threads : Offset(q)' \in Nat
  BY <1>1, ThreadNumbers DEF Offset
<1>4. Sent' = Sent /\ Sent \in Nat
  BY <1>1 DEF IInv, Numbers, Sent
<1>5. Span(0, 0)'
  BY <1>1, <1>2, <1>3, <1>4 DEF Span
<1> QED
  BY <1>5 DEF Queue

LEMMA QueueFree ==
  ASSUME IInv, IInv', Queue, Free
  PROVE  Queue'
<1>1. PICK a \in 0 .. ThreadCount, d \in 0 .. ThreadCount : Span(a, d)
  BY DEF Queue
<1>2. /\ ~Before' /\ ~After' /\ ~After /\ ~Fetching'
      /\ UNCHANGED <<next_finished, next_decoding, delaying, avpkt>>
      /\ \A q \in Threads : ~due'[q]
  BY DEF Free, Before, After, Fetching, indices, threads
<1>3. Behind' = Behind
  BY <1>2 DEF Behind
<1>4. \A q \in Threads : Offset(q) \in Nat /\ Offset(q)' = Offset(q)
  BY <1>2, Offsets DEF IInv, Offset
<1>5. Sent' = Sent /\ Sent \in Nat
  BY <1>2 DEF IInv, Numbers, Sent
<1>6. Span(d, d)'
  BY <1>1, <1>2, <1>3, <1>4, <1>5 DEF Span
<1> QED
  BY <1>6 DEF Queue

\* What a thread at work leaves alone.
LEMMA WorkerLeaves ==
  ASSUME NEW p \in Threads, WorkerStep(p)
  PROVE  /\ UNCHANGED <<input, indices, due, avpkt, cursor, received>>
         /\ caller' = caller \/ caller' = Awake
<1>1. CASE Test(p)
  BY <1>1 DEF Test
<1>2. CASE GetBuffer(p)
  BY <1>2 DEF GetBuffer, Broadcast
<1>3. CASE SleepAgain(p)
  BY <1>3 DEF SleepAgain
<1>4. CASE FinishSetup(p)
  BY <1>4 DEF FinishSetup, Broadcast
<1>5. CASE AwaitProgress(p)
  BY <1>5 DEF AwaitProgress
<1>6. CASE ReportProgress(p)
  BY <1>6 DEF ReportProgress, Broadcast
<1>7. CASE DecodeReturns(p)
  BY <1>7 DEF DecodeReturns
<1> QED
  BY <1>1, <1>2, <1>3, <1>4, <1>5, <1>6, <1>7 DEF WorkerStep

LEMMA QueueStep ==
  ASSUME IInv, IInv', Queue, [Next]_vars
  PROVE  Queue'
<1> USE DEF Before, After, Fetching, Taken
<1>1. CASE CreateThread
  BY <1>1, QueueStays DEF CreateThread, indices, input
<1>2. CASE CreateFails \/ Flush \/ Close \/ LockThread \/ CopySleep \/ SubmitFails
           \/ ServeSleep \/ FetchSleep \/ ParkSleep \/ CloseParked \/ Join
  BY <1>2, QueueStays DEF CreateFails, Flush, Close, LockThread, CopySleep,
     SubmitFails, ServeSleep, FetchSleep, ParkSleep, CloseParked, Join, indices,
     input, threads
<1>3. ASSUME NEW empty \in BOOLEAN, DecodeFrame(empty)
      PROVE  Queue'
  BY <1>3, QueueStays DEF DecodeFrame, indices, threads
<1>4. CASE Submit
  BY <1>4, QueueSubmit
<1>5. CASE Submitted
  BY <1>5, QueueFetches
<1>6. CASE Fetch
  BY <1>6, QueueEnds
<1>7. CASE FlushParked
  BY <1>7, QueueFlush
<1>8. CASE Free
  BY <1>8, QueueFree
<1>9. CASE Served
  BY <1>9, QueueStays DEF Served, IInv, Places, indices, input, threads
<1>10. CASE Park \/ WakeToDie \/ \E v \in Threads : Serve(v)
  BY <1>10, QueueStays DEF Park, WakeToDie, Serve, indices, input
<1>11. ASSUME NEW p \in Threads, WorkerStep(p)
       PROVE  Queue'
  BY <1>11, WorkerLeaves, QueueStays DEF Awake, indices, input
<1>12. CASE UNCHANGED vars
  BY <1>12, QueueStays DEF vars, indices, input, threads
<1> QED
  BY <1>1, <1>2, <1>3, <1>4, <1>5, <1>6, <1>7, <1>8, <1>9, <1>10, <1>11, <1>12
  DEF Next, CallerStep

\* The results that are due are those of the last packets, but for the first
\* ones, and the threads that have them follow each other.
LEMMA QueueHolds == Spec => []Queue
<1>1. Init => Queue
  <2> SUFFICES ASSUME Init PROVE Queue
    OBVIOUS
  <2>1. IInv
    BY InitIInv
  <2>2. /\ next_decoding = 0 /\ next_finished = 0 /\ caller = "opening"
        /\ \A q \in Threads : ~due[q]
    BY DEF Init
  <2>3. Before /\ ~After /\ ~Fetching /\ Behind = 0
    BY <2>2 DEF Before, After, Fetching, Behind
  <2>4. \A q \in Threads : Offset(q) \in Nat
    BY <2>2, ThreadNumbers DEF Offset
  <2>5. Sent \in Nat
    BY <2>1 DEF IInv, Numbers
  <2>6. Span(0, 0)
    BY <2>2, <2>3, <2>4, <2>5 DEF Span
  <2> QED
    BY <2>6 DEF Queue
<1>2. IInv /\ IInv' /\ Queue /\ [Next]_vars => Queue'
  BY QueueStep
<1> QED
  BY <1>1, <1>2, Inductive, PTL DEF Spec

----------------------------------------------------------------------------
(* FrameThreads implements FrameService *)

\* The packets after r, up to s, and what becomes of them when one is handed in
\* or its result received.
Line(r, s) == [i \in 1 .. s - r |-> r + i]

LEMMA LineType ==
  ASSUME NEW r \in Nat, NEW s \in Nat, r <= s
  PROVE  Line(r, s) \in Seq(Nat) /\ Len(Line(r, s)) = s - r
BY DEF Line

LEMMA LineGrows ==
  ASSUME NEW r \in Nat, NEW s \in Nat, r <= s
  PROVE  /\ Line(r, s + 1) = Append(Line(r, s), s + 1)
         /\ Len(Line(r, s)) = s - r
BY DEF Line

LEMMA LineShrinks ==
  ASSUME NEW r \in Nat, NEW s \in Nat, r < s
  PROVE  /\ Line(r, s) # <<>>
         /\ Head(Line(r, s)) = r + 1
         /\ Tail(Line(r, s)) = Line(r + 1, s)
<1> DEFINE x == Line(r, s)
           y == Line(r + 1, s)
<1>1. x \in Seq(Nat) /\ Len(x) = s - r /\ y \in Seq(Nat) /\ Len(y) = s - r - 1
  <2>1. r + 1 \in Nat /\ r <= s /\ r + 1 <= s /\ s - (r + 1) = s - r - 1
    OBVIOUS
  <2>2. x \in Seq(Nat) /\ Len(x) = s - r
    BY <2>1, LineType, Zenon
  <2>3. y \in Seq(Nat) /\ Len(y) = s - (r + 1)
    BY <2>1, LineType, Zenon
  <2> QED
    BY <2>1, <2>2, <2>3
<1>2. /\ \A i \in 1 .. s - r : x[i] = r + i
      /\ \A i \in 1 .. s - r - 1 : y[i] = r + 1 + i
  BY DEF Line
<1> HIDE DEF x, y
<1>3. x # <<>> /\ Head(x) = x[1]
  BY <1>1
<1>4. /\ Tail(x) \in Seq(Nat) /\ Len(Tail(x)) = Len(x) - 1
      /\ \A i \in 1 .. Len(Tail(x)) : Tail(x)[i] = x[i + 1]
  BY <1>1, <1>3, HeadTailProperties
<1>5. \A i \in 1 .. Len(Tail(x)) : Tail(x)[i] = y[i]
  BY <1>1, <1>2, <1>4
<1>6. Tail(x) = y
  BY <1>1, <1>4, <1>5, SeqEqual
<1> QED
  BY <1>1, <1>2, <1>3, <1>6 DEF x, y

\* A line of packets, put in order by how many are before each.
InOrder(S) == [i \in 1 .. Cardinality(S) |->
                 CHOOSE k \in S : Cardinality({j \in S : j < k}) = i - 1]

LEMMA Ranked ==
  ASSUME NEW r \in Nat, NEW s \in Nat, r <= s
  PROVE  InOrder(r + 1 .. s) = Line(r, s)
<1> DEFINE S == r + 1 .. s
<1>1. Cardinality(S) = s - r
  <2>1. Cardinality(r + 1 .. s) = IF r + 1 > s THEN 0 ELSE s - (r + 1) + 1
    BY FS_Interval
  <2> QED
    BY <2>1
<1>2. ASSUME NEW k \in S
      PROVE  Cardinality({j \in S : j < k}) = k - (r + 1)
  <2>1. {j \in S : j < k} = r + 1 .. k - 1
    OBVIOUS
  <2>2. k \in Int /\ k >= r + 1
    OBVIOUS
  <2>3. Cardinality(r + 1 .. k - 1)
          = IF r + 1 > k - 1 THEN 0 ELSE (k - 1) - (r + 1) + 1
    BY <2>2, FS_Interval
  <2>4. (IF r + 1 > k - 1 THEN 0 ELSE (k - 1) - (r + 1) + 1) = k - (r + 1)
    BY <2>2
  <2> QED
    BY <2>1, <2>3, <2>4
<1>3. ASSUME NEW i \in 1 .. s - r
      PROVE  (CHOOSE k \in S : Cardinality({j \in S : j < k}) = i - 1) = r + i
  <2>1. r + i \in S /\ Cardinality({j \in S : j < r + i}) = i - 1
    <3>1. r + i \in S /\ (r + i) - (r + 1) = i - 1
      OBVIOUS
    <3> QED
      BY <3>1, <1>2
  <2>2. ASSUME NEW k \in S, Cardinality({j \in S : j < k}) = i - 1
        PROVE  k = r + i
    <3>1. k - (r + 1) = i - 1
      BY <1>2, <2>2
    <3> QED
      BY <3>1
  <2> QED
    BY <2>1, <2>2
<1> QED
  BY <1>1, <1>3 DEF Line, InOrder

\* The results that are due are those of all packets after the r-th.
AfterOnly(r) == r \in Nat /\ r <= Sent /\ Due = r + 1 .. Sent

LEMMA DueIs ==
  ASSUME TypeOK, Numbers,
         NEW a \in 0 .. ThreadCount, NEW d \in 0 .. ThreadCount, Span(a, d)
  PROVE  AfterOnly(Sent - d + a)
<1>1. /\ a <= d /\ Sent - d + a >= 0 /\ Sent \in Nat
      /\ \A q \in Threads : due[q] <=> a <= Offset(q) /\ Offset(q) < d
      /\ \A q \in Threads : due[q] => avpkt[q] = Sent - d + 1 + Offset(q)
      /\ \A q \in Threads : Offset(q) \in Nat
  BY QueueTypes, Offsets DEF Span
<1>2. ASSUME NEW k \in Due
      PROVE  k \in Sent - d + a + 1 .. Sent
  <2>1. PICK q \in Threads : due[q] /\ k = avpkt[q]
    BY <1>2 DEF Due
  <2> QED
    BY <1>1, <2>1
<1>3. ASSUME NEW k \in Sent - d + a + 1 .. Sent
      PROVE  k \in Due
  <2>1. k - (Sent - d + 1) \in 0 .. ThreadCount - 1
    BY <1>1
  <2>2. PICK q \in Threads : Offset(q) = k - (Sent - d + 1)
    BY <2>1, Offsets
  <2>3. due[q] /\ avpkt[q] = k
    BY <1>1, <2>2
  <2> QED
    BY <2>3 DEF Due
<1>4. Sent - d + a \in Nat /\ Sent - d + a <= Sent
  BY <1>1
<1> QED
  BY <1>2, <1>3, <1>4 DEF AfterOnly

LEMMA InsideIs ==
  ASSUME NEW r, AfterOnly(r), Sent \in Nat
  PROVE  Inside = Line(r, Sent)
<1>1. Inside = InOrder(Due)
  BY DEF Inside, InOrder
<1> QED
  BY <1>1, Ranked DEF AfterOnly

LEMMA InsideBecomes ==
  ASSUME NEW r, AfterOnly(r)', Sent' \in Nat
  PROVE  Inside' = Line(r, Sent')
<1>1. Inside' = InOrder(Due')
  BY DEF Inside, InOrder
<1> QED
  BY <1>1, Ranked DEF AfterOnly

LEMMA ServiceSubmit ==
  ASSUME IInv, IInv', Queue, Submit
  PROVE  Service!Submit(Sent + 1) /\ Sent + 1 \in Packets
<1>1. PICK a \in 0 .. ThreadCount, d \in 0 .. ThreadCount : Span(a, d)
  BY DEF Queue
<1> PICK p \in Threads : p = next_decoding
  BY SubmitCounts DEF IInv
<1>2. TypeOK /\ Numbers /\ caller = "copying"
  BY DEF IInv, Submit
<1>3. ~due[p] /\ d < ThreadCount
  BY <1>1, <1>2, NextIsFree
<1> PICK r \in Int : r = Sent - d + a
  BY SubmitCounts DEF IInv
<1>4. AfterOnly(r)
  BY <1>1, <1>2, DueIs
<1>5. Sent' = Sent + 1 /\ Sent \in Nat /\ Sent + 1 \in Packets
  BY SubmitCounts DEF IInv
<1>6. /\ avpkt' = [avpkt EXCEPT ![p] = Sent + 1]
      /\ due' = [due EXCEPT ![p] = TRUE] /\ received' = received
  BY DEF Submit
<1>7. Due' = Due \cup {Sent + 1}
  <2>1. /\ avpkt'[p] = Sent + 1 /\ due'[p]
        /\ \A q \in Threads : q # p => avpkt'[q] = avpkt[q] /\ due'[q] = due[q]
    BY <1>2, <1>6 DEF TypeOK
  <2>2. Due' = {avpkt'[q] : q \in {q \in Threads : due'[q]}}
    BY DEF Due
  <2> QED
    BY <1>3, <2>1, <2>2 DEF Due
<1>8. AfterOnly(r)'
  BY <1>4, <1>5, <1>7 DEF AfterOnly
<1>9. Inside = Line(r, Sent) /\ Inside' = Line(r, Sent + 1)
  BY <1>4, <1>5, <1>8, InsideIs, InsideBecomes
<1>10. r \in Nat /\ r <= Sent /\ Sent - r < ThreadCount
  <2>1. a <= d
    BY <1>1 DEF Span
  <2> QED
    BY <1>3, <1>4, <1>5, <2>1 DEF AfterOnly
<1>11. /\ Line(r, Sent + 1) = Append(Line(r, Sent), Sent + 1)
       /\ Len(Line(r, Sent)) = Sent - r
  BY <1>5, <1>10, LineGrows
<1> QED
  BY <1>5, <1>6, <1>9, <1>10, <1>11 DEF Service!Submit

LEMMA ServiceFetch ==
  ASSUME IInv, IInv', Queue, Fetch
  PROVE  Service!Receive \/ UNCHANGED <<Inside, received>>
<1>1. PICK a \in 0 .. ThreadCount, d \in 0 .. ThreadCount : Span(a, d)
  BY DEF Queue
<1>2. TypeOK /\ Numbers /\ Fetching /\ cursor \in Threads
  BY DEF IInv, Fetch, Places, Fetching
<1> PICK c \in Threads : c = cursor
  BY <1>2
<1>3. /\ avpkt' = avpkt /\ due' = [due EXCEPT ![c] = FALSE]
      /\ received' = IF due[c] THEN avpkt[c] ELSE received
  BY DEF Fetch
<1>4. \A q \in Threads : due'[q] <=> due[q] /\ q # c
  BY <1>2, <1>3 DEF TypeOK
<1>5. Due' = {avpkt[q] : q \in {q \in Threads : due[q] /\ q # c}}
  BY <1>3, <1>4 DEF Due
<1>6. CASE ~due[c]
  <2>1. Due' = Due
    BY <1>5, <1>6 DEF Due
  <2> QED
    BY <1>3, <1>6, <2>1 DEF Inside
<1>7. CASE due[c]
  <2>1. Offset(c) = a /\ a < d /\ avpkt[c] = Sent - d + a + 1
    <3>1. /\ Offset(c) <= a \/ a = d
          /\ a <= Offset(c) /\ Offset(c) < d
          /\ avpkt[c] = Sent - d + 1 + Offset(c)
      BY <1>1, <1>2, <1>7 DEF Span
    <3>2. Offset(c) \in Nat /\ Sent \in Nat
      BY <1>2, Offsets, QueueTypes
    <3> QED
      BY <3>1, <3>2
  <2>2. Sent \in Nat /\ Sent' = Sent
    BY <1>2, <1>3 DEF Numbers, Sent
  <2> PICK r \in Int : r = Sent - d + a
    BY <2>2
  <2>3. AfterOnly(r)
    BY <1>1, <1>2, DueIs
  <2>4. r \in Nat /\ r < Sent /\ avpkt[c] = r + 1
    BY <2>1, <2>2, <2>3 DEF AfterOnly
  <2>5. Due' = Due \ {r + 1}
    <3>1. \A q \in Threads : due[q] /\ q # c => avpkt[q] # r + 1
      BY <1>2, <2>4 DEF Numbers
    <3> QED
      BY <1>5, <2>4, <3>1 DEF Due
  <2>6. AfterOnly(r + 1)'
    BY <2>2, <2>3, <2>4, <2>5 DEF AfterOnly
  <2>7. Inside = Line(r, Sent) /\ Inside' = Line(r + 1, Sent)
    BY <2>2, <2>3, <2>6, InsideIs, InsideBecomes
  <2>8. /\ Line(r, Sent) # <<>> /\ Head(Line(r, Sent)) = r + 1
        /\ Tail(Line(r, Sent)) = Line(r + 1, Sent)
    BY <2>2, <2>4, LineShrinks
  <2> QED
    BY <1>3, <1>7, <2>4, <2>7, <2>8 DEF Service!Receive
<1> QED
  BY <1>6, <1>7

\* The results come once each, in the order of the packets, while no more packets
\* than there are threads are inside; a flush or the end drops those inside:
\* FrameThreads implements FrameService (ff_thread_decode_frame, ff_thread_flush,
\* ff_frame_thread_free).
THEOREM ResultsInOrder == Spec => ImplementsService
<1>1. Init => Service!Init
  <2> SUFFICES ASSUME Init PROVE Service!Init
    OBVIOUS
  <2>1. Due = {}
    BY DEF Init, Due
  <2>2. Inside = <<>>
    BY <2>1, FS_EmptySet DEF Inside
  <2>3. received \notin Packets
    BY DEF Init, Packets
  <2> QED
    BY <2>2, <2>3 DEF Service!Init
<1>2. IInv /\ IInv' /\ Queue /\ [Next]_vars => [Service!Next]_Service!vars
  <2> SUFFICES ASSUME IInv, IInv', Queue, [Next]_vars
               PROVE  [Service!Next]_Service!vars
    OBVIOUS
  <2>1. CASE Submit
    BY <2>1, ServiceSubmit DEF Service!Next
  <2>2. CASE Fetch
    BY <2>2, ServiceFetch DEF Service!Next, Service!vars
  <2>3. CASE FlushParked \/ Free
    <3>1. Due' = {} /\ received' = received
      BY <2>3 DEF FlushParked, Free, Due
    <3>2. Inside' = <<>>
      BY <3>1, FS_EmptySet DEF Inside
    <3> QED
      BY <3>1, <3>2 DEF Service!Next, Service!Drop
  <2>4. ASSUME UNCHANGED <<avpkt, due, received>>
        PROVE  UNCHANGED Service!vars
    BY <2>4 DEF Due, Inside, Service!vars
  <2>5. CASE \/ CreateThread \/ CreateFails \/ Flush \/ Close \/ LockThread
             \/ CopySleep \/ SubmitFails \/ ServeSleep \/ Served \/ Submitted
             \/ FetchSleep
             \/ \E empty \in BOOLEAN : DecodeFrame(empty)
             \/ \E v \in Threads : Serve(v)
    BY <2>4, <2>5 DEF CreateThread, CreateFails, Flush, Close, LockThread,
       CopySleep, SubmitFails, ServeSleep, Served, Submitted, FetchSleep,
       DecodeFrame, Serve, threads
  <2>6. CASE ParkSleep \/ Park \/ CloseParked \/ WakeToDie \/ Join
             \/ UNCHANGED vars
    BY <2>4, <2>6 DEF ParkSleep, Park, CloseParked, WakeToDie, Join, vars, threads
  <2>7. ASSUME NEW p \in Threads, WorkerStep(p)
        PROVE  UNCHANGED Service!vars
    BY <2>4, <2>7, WorkerLeaves
  <2> QED
    BY <2>1, <2>2, <2>3, <2>5, <2>6, <2>7 DEF Next, CallerStep
<1> QED
  BY <1>1, <1>2, Inductive, QueueHolds, PTL
  DEF Spec, ImplementsService, Service!Spec
=============================================================================
