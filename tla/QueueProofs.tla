------------------------------ MODULE QueueProofs ------------------------------
(***************************************************************************)
(* Proofs about QueueDelivery for every size limit, attempt limit, number  *)
(* of events and number of listeners.                                       *)
(***************************************************************************)
EXTENDS QueueDelivery, SequenceTheorems, TLAPS

-------------------------------------------------------------------------------
(* What the buffer operations do, element by element.                       *)

LEMMA SeqFacts ==
  ASSUME NEW s \in Seq(Events)
  PROVE  /\ Len(s) \in Nat /\ DOMAIN s = 1..Len(s)
         /\ \A k \in DOMAIN s : s[k] \in Nat
         /\ s # <<>> => 1 \in DOMAIN s /\ Len(s) \in DOMAIN s
         /\ s = <<>> => DOMAIN s = {}
<1>1. Len(s) \in Nat /\ DOMAIN s = 1..Len(s) /\ s \in [1..Len(s) -> Events]
  BY LenProperties
<1>2. s # <<>> => Len(s) \in Nat \ {0}
  BY EmptySeq
<1>3. \A k \in DOMAIN s : s[k] \in Nat
  BY <1>1 DEF Events
<1> QED BY <1>1, <1>2, <1>3

LEMMA AppendFacts ==
  ASSUME NEW S, NEW s \in Seq(S), NEW e \in S
  PROVE  /\ Append(s, e) \in Seq(S) /\ Append(s, e) # <<>>
         /\ Len(Append(s, e)) = Len(s) + 1
         /\ DOMAIN s = 1..Len(s)
         /\ DOMAIN Append(s, e) = 1..Len(s) + 1
         /\ \A k \in 1..Len(s) : Append(s, e)[k] = s[k]
         /\ Append(s, e)[Len(s) + 1] = e
BY AppendProperties, LenProperties

LEMMA TailFacts ==
  ASSUME NEW S, NEW s \in Seq(S), s # <<>>
  PROVE  /\ Tail(s) \in Seq(S)
         /\ Head(s) \in S /\ Head(s) = s[1]
         /\ Len(s) \in Nat \ {0} /\ Len(Tail(s)) = Len(s) - 1
         /\ DOMAIN s = 1..Len(s)
         /\ DOMAIN Tail(s) = 1..Len(s) - 1
         /\ \A k \in 1..Len(s) - 1 : Tail(s)[k] = s[k + 1]
<1>1. /\ Head(s) \in S /\ Tail(s) \in Seq(S) /\ Len(Tail(s)) = Len(s) - 1
      /\ \A k \in 1..Len(Tail(s)) : Tail(s)[k] = s[k + 1]
  BY HeadTailProperties
<1>2. Len(s) \in Nat \ {0} /\ DOMAIN s = 1..Len(s)
  BY EmptySeq, LenProperties
<1>3. DOMAIN Tail(s) = 1..Len(Tail(s))
  BY <1>1, LenProperties
<1>4. Head(s) = s[1]
  OBVIOUS
<1> QED BY <1>1, <1>2, <1>3, <1>4

-------------------------------------------------------------------------------
(* The drain loop: what it leaves alone, and what it starts.                 *)

LEMMA RecordFacts ==
  ASSUME NEW q \in QueueRecords
  PROVE  /\ q.buffer \in Seq(Events) /\ q.listener \in Subs \cup {NoSub}
         /\ q.attempts \in 0..MaxAttempts - 1 /\ q.disposed \in BOOLEAN
         /\ Draining(q) <=> q.inFlight.outcome \in {"pending", "sent", "failed"}
         /\ Draining(q) => q.inFlight.event \in Events /\ q.inFlight.sub \in Subs
         /\ ~Draining(q) => q.inFlight = NoSend /\ q.inFlight.outcome = "none"
<1>1. NoSend.outcome = "none"
  BY DEF NoSend
<1> QED BY <1>1 DEF QueueRecords, Draining

LEMMA DrainFacts ==
  ASSUME NEW q \in QueueRecords
  PROVE  /\ Drain(q) \in QueueRecords
         /\ Drain(q).buffer = q.buffer /\ Drain(q).listener = q.listener
         /\ Drain(q).attempts = q.attempts /\ Drain(q).disposed = q.disposed
         /\ IF q.buffer # <<>> /\ ~q.disposed /\ q.listener # NoSub
            THEN /\ Draining(Drain(q))
                 /\ Drain(q).inFlight.event = q.buffer[1]
                 /\ Drain(q).inFlight.outcome = "pending"
            ELSE Drain(q).inFlight = NoSend /\ ~Draining(Drain(q))
<1>1. CASE q.buffer # <<>> /\ ~q.disposed /\ q.listener # NoSub
  <2> DEFINE f == [event |-> Head(q.buffer), sub |-> q.listener, outcome |-> "pending"]
  <2>1. Head(q.buffer) \in Events /\ Head(q.buffer) = q.buffer[1]
    BY <1>1, TailFacts DEF QueueRecords
  <2>2. f \in [event : Events, sub : Subs, outcome : {"pending", "sent", "failed"}]
    BY <1>1, <2>1 DEF QueueRecords
  <2>3. Drain(q) = [q EXCEPT !.inFlight = f]
    BY <1>1 DEF Drain
  <2>4. f # NoSend
    BY DEF NoSend
  <2> QED BY <1>1, <2>1, <2>2, <2>3, <2>4 DEF QueueRecords, Draining
<1>2. CASE ~(q.buffer # <<>> /\ ~q.disposed /\ q.listener # NoSub)
  <2>1. Drain(q) = [q EXCEPT !.inFlight = NoSend]
    BY <1>2 DEF Drain
  <2> QED BY <1>2, <2>1 DEF QueueRecords, Draining
<1> QED BY <1>1, <1>2

LEMMA DrainKeepsOrder ==
  ASSUME NEW q \in QueueRecords, NEW n \in Nat, NEW s \in Seq(Events),
         Sorted(q, n, s), Fresh(q, s)
  PROVE  /\ Sorted(Drain(q), n, s)
         /\ Fresh(Drain(q), s)
         /\ Draining(Drain(q)) => FlightOK(Drain(q), n, s)
         /\ Drain(q).inFlight.outcome # "sent"
<1> DEFINE d == Drain(q)
<1>1. /\ d \in QueueRecords /\ d.buffer = q.buffer /\ d.listener = q.listener
      /\ d.disposed = q.disposed
      /\ IF q.buffer # <<>> /\ ~q.disposed /\ q.listener # NoSub
         THEN Draining(d) /\ d.inFlight.event = q.buffer[1] /\ d.inFlight.outcome = "pending"
         ELSE d.inFlight = NoSend /\ ~Draining(d)
  BY DrainFacts
<1> HIDE DEF d
<1>2. Sorted(d, n, s) /\ Fresh(d, s)
  BY <1>1 DEF Sorted, Fresh
<1>3. d.inFlight.outcome # "sent"
  BY <1>1 DEF NoSend
<1>4. ASSUME Draining(d) PROVE FlightOK(d, n, s)
  <2>1. q.buffer # <<>> /\ d.inFlight.event = q.buffer[1] /\ d.inFlight.outcome = "pending"
    BY <1>1, <1>4
  <2>2. q.buffer \in Seq(Events)
    BY RecordFacts
  <2>3. 1 \in DOMAIN q.buffer /\ DOMAIN q.buffer = 1..Len(q.buffer)
        /\ \A k \in DOMAIN q.buffer : q.buffer[k] \in Nat
    BY <2>1, <2>2, SeqFacts
  <2>4. \A k \in DOMAIN q.buffer : q.buffer[1] <= q.buffer[k]
    <3> SUFFICES ASSUME NEW k \in DOMAIN q.buffer PROVE q.buffer[1] <= q.buffer[k]
      OBVIOUS
    <3>1. k = 1 \/ 1 < k
      BY <2>3
    <3>2. 1 < k => q.buffer[1] < q.buffer[k]
      BY <2>3 DEF Sorted, Increasing
    <3> QED BY <2>3, <3>1, <3>2
  <2> QED BY <1>1, <1>2, <2>1, <2>3, <2>4 DEF FlightOK, Sorted, Fresh
<1> QED BY <1>2, <1>3, <1>4 DEF d

-------------------------------------------------------------------------------
(* How the buffer operations keep a sequence in order.                       *)

LEMMA TailInOrder ==
  ASSUME NEW s \in Seq(Events), s # <<>>, Increasing(s)
  PROVE  /\ Increasing(Tail(s))
         /\ \A k \in DOMAIN Tail(s) : /\ k + 1 \in DOMAIN s
                                       /\ Tail(s)[k] = s[k + 1]
                                       /\ s[1] < Tail(s)[k]
<1>1. /\ Len(s) \in Nat \ {0} /\ DOMAIN s = 1..Len(s) /\ DOMAIN Tail(s) = 1..Len(s) - 1
      /\ \A k \in 1..Len(s) - 1 : Tail(s)[k] = s[k + 1]
  BY TailFacts
<1>2. \A k \in DOMAIN Tail(s) : k + 1 \in DOMAIN s /\ 1 < k + 1 /\ 1 \in DOMAIN s
  BY <1>1
<1>3. \A i, j \in DOMAIN Tail(s) : i < j => i + 1 < j + 1
  BY <1>1
<1> QED BY <1>1, <1>2, <1>3 DEF Increasing

LEMMA AppendInOrder ==
  ASSUME NEW s \in Seq(Events), NEW e \in Events, Increasing(s), \A k \in DOMAIN s : s[k] < e
  PROVE  /\ Increasing(Append(s, e))
         /\ \A k \in DOMAIN Append(s, e) :
               Append(s, e)[k] = e \/ (k \in DOMAIN s /\ Append(s, e)[k] = s[k])
<1> DEFINE a == Append(s, e)
           n == Len(s)
<1>1. /\ DOMAIN s = 1..n /\ DOMAIN a = 1..n + 1 /\ n \in Nat
      /\ \A k \in 1..n : a[k] = s[k]
      /\ a[n + 1] = e
  BY AppendFacts, LenProperties
<1> HIDE DEF a, n
<1>2. \A k \in DOMAIN a : k \in DOMAIN s \/ k = n + 1
  BY <1>1
<1>3. \A k \in DOMAIN a : a[k] = e \/ (k \in DOMAIN s /\ a[k] = s[k])
  <2> SUFFICES ASSUME NEW k \in DOMAIN a PROVE a[k] = e \/ (k \in DOMAIN s /\ a[k] = s[k])
    OBVIOUS
  <2>1. CASE k \in DOMAIN s
    BY <1>1, <2>1
  <2>2. CASE k = n + 1
    BY <1>1, <2>2
  <2> QED BY <1>2, <2>1, <2>2
<1>4. ASSUME NEW i \in DOMAIN a, NEW j \in DOMAIN a, i < j
      PROVE  a[i] < a[j]
  <2>1. i \in DOMAIN s /\ a[i] = s[i]
    BY <1>1, <1>4
  <2>2. CASE j \in DOMAIN s
    BY <1>1, <1>4, <2>1, <2>2 DEF Increasing
  <2>3. CASE j = n + 1
    BY <1>1, <2>1, <2>3
  <2> QED BY <1>2, <2>2, <2>3
<1> QED BY <1>3, <1>4 DEF Increasing, a

LEMMA TrimmedInOrder ==
  ASSUME NEW b \in Seq(Events), NEW n \in Nat, n + 1 \in Events, Len(b) <= MaxSize,
         Increasing(b), \A k \in DOMAIN b : b[k] <= n,
         NEW t, t = Trimmed(Append(b, n + 1))
  PROVE  /\ t \in Seq(Events) /\ t # <<>> /\ Increasing(t)
         /\ Len(t) = IF Len(b) = MaxSize THEN Len(b) ELSE Len(b) + 1
         /\ Len(t) <= MaxSize
         /\ \A k \in DOMAIN t : t[k] = n + 1 \/ \E j \in DOMAIN b : t[k] = b[j]
<1> DEFINE e == n + 1
<1>1. \A k \in DOMAIN b : b[k] < e
  BY SeqFacts
<1> DEFINE a == Append(b, e)
<1>2. /\ a \in Seq(Events) /\ a # <<>> /\ Increasing(a) /\ Len(a) = Len(b) + 1
      /\ \A k \in DOMAIN a : a[k] = e \/ (k \in DOMAIN b /\ a[k] = b[k])
  BY <1>1, AppendFacts, AppendInOrder
<1>3. Len(b) \in Nat /\ MaxSize \in Nat \ {0}
  BY LenProperties, QueueAssumption
<1>4. t = IF Len(a) > MaxSize THEN Tail(a) ELSE a
  BY DEF Trimmed
<1>5. \A i, j \in Nat : i <= j => (i + 1 > j <=> i = j) /\ (i # j => i + 1 <= j)
  OBVIOUS
<1> HIDE DEF a, e
<1>6. CASE Len(b) = MaxSize
  <2>1. t = Tail(a)
    BY <1>2, <1>3, <1>4, <1>5, <1>6
  <2>2. t \in Seq(Events) /\ Len(t) = Len(b)
    <3>1. Tail(a) \in Seq(Events) /\ Len(Tail(a)) = Len(a) - 1
      BY <1>2, TailFacts
    <3> QED BY <1>2, <1>3, <2>1, <3>1
  <2>3. Increasing(t) /\ \A k \in DOMAIN t : k + 1 \in DOMAIN a /\ t[k] = a[k + 1]
    BY <1>2, <2>1, TailInOrder
  <2>4. t # <<>>
    BY <1>3, <1>6, <2>2, EmptySeq
  <2>5. \A k \in DOMAIN t : t[k] = e \/ \E j \in DOMAIN b : t[k] = b[j]
    BY <1>2, <2>3
  <2> QED BY <1>3, <1>6, <2>2, <2>3, <2>4, <2>5 DEF e
<1>7. CASE Len(b) # MaxSize
  <2>1. t = a
    BY <1>2, <1>3, <1>4, <1>5, <1>7
  <2> QED BY <1>2, <1>3, <1>5, <1>7, <2>1 DEF e
<1> QED BY <1>6, <1>7

-------------------------------------------------------------------------------
(* Removing a head keeps the order, and leaves the buffer younger than what  *)
(* the removed event was.                                                     *)

LEMMA DropHeadFacts ==
  ASSUME NEW q \in QueueRecords, Len(q.buffer) <= MaxSize
  PROVE  /\ DropHead(q) \in QueueRecords
         /\ DropHead(q).buffer = IF q.buffer = <<>> THEN <<>> ELSE Tail(q.buffer)
         /\ DropHead(q).listener = q.listener /\ DropHead(q).disposed = q.disposed
         /\ DropHead(q).attempts = 0 /\ DropHead(q).inFlight = q.inFlight
         /\ Len(DropHead(q).buffer) <= MaxSize
         /\ q.buffer # <<>> => Len(DropHead(q).buffer) + 1 = Len(q.buffer)
<1> DEFINE b == IF q.buffer = <<>> THEN <<>> ELSE Tail(q.buffer)
<1>1. q.buffer \in Seq(Events) /\ MaxSize \in Nat /\ MaxAttempts \in Nat \ {0}
  BY RecordFacts, QueueAssumption
<1>2. b \in Seq(Events) /\ Len(b) <= MaxSize /\ (q.buffer # <<>> => Len(b) + 1 = Len(q.buffer))
  <2>1. CASE q.buffer = <<>>
    BY <1>1, <2>1
  <2>2. CASE q.buffer # <<>>
    <3>1. Tail(q.buffer) \in Seq(Events) /\ Len(Tail(q.buffer)) = Len(q.buffer) - 1
          /\ Len(q.buffer) \in Nat
      BY <1>1, <2>2, TailFacts
    <3> QED BY <1>1, <2>2, <3>1
  <2> QED BY <2>1, <2>2
<1>3. DropHead(q) = [q EXCEPT !.buffer = b, !.attempts = 0]
  BY DEF DropHead
<1> HIDE DEF b
<1>4. 0 \in 0..MaxAttempts - 1
  BY <1>1
<1> QED BY <1>2, <1>3, <1>4 DEF QueueRecords, b

LEMMA DropHeadInOrder ==
  ASSUME NEW q \in QueueRecords, Len(q.buffer) <= MaxSize, NEW n \in Nat,
         NEW s \in Seq(Events), Sorted(q, n, s)
  PROVE  /\ Sorted(DropHead(q), n, s)
         /\ Fresh(q, s) => Fresh(DropHead(q), s)
         /\ s # <<>> /\ (\A k \in DOMAIN q.buffer : s[Len(s)] <= q.buffer[k])
               => Fresh(DropHead(q), s)
<1> DEFINE d == DropHead(q)
<1>1. /\ d.buffer = IF q.buffer = <<>> THEN <<>> ELSE Tail(q.buffer)
      /\ d.listener = q.listener /\ d.disposed = q.disposed
  BY DropHeadFacts
<1>2. q.buffer \in Seq(Events) /\ DOMAIN <<>> = {}
  BY RecordFacts
<1> HIDE DEF d
<1>3. CASE q.buffer = <<>>
  <2>1. d.buffer = q.buffer
    BY <1>1, <1>3
  <2>2. DOMAIN d.buffer = {}
    BY <1>2, <1>3, <2>1
  <2> QED BY <1>1, <2>1, <2>2 DEF Sorted, Fresh, d
<1>4. CASE q.buffer # <<>>
  <2>1. /\ Increasing(d.buffer)
        /\ \A k \in DOMAIN d.buffer :
              k + 1 \in DOMAIN q.buffer /\ d.buffer[k] = q.buffer[k + 1]
                /\ q.buffer[1] < d.buffer[k]
    BY <1>1, <1>2, <1>4, TailInOrder DEF Sorted
  <2>2. Sorted(d, n, s)
    BY <1>1, <1>4, <2>1 DEF Sorted
  <2>3. Fresh(q, s) => Fresh(d, s)
    BY <2>1 DEF Fresh
  <2>4. ASSUME s # <<>>, \A k \in DOMAIN q.buffer : s[Len(s)] <= q.buffer[k]
        PROVE  Fresh(d, s)
    <3> SUFFICES ASSUME NEW i \in DOMAIN s, NEW k \in DOMAIN d.buffer
                 PROVE  s[i] < d.buffer[k]
      BY DEF Fresh
    <3>1. 1 \in DOMAIN q.buffer /\ q.buffer[1] \in Nat /\ d.buffer[k] \in Nat
      BY <1>2, <1>4, <2>1, SeqFacts
    <3>2. Len(s) \in DOMAIN s /\ s[i] \in Nat /\ s[Len(s)] \in Nat
          /\ (i = Len(s) \/ i < Len(s))
      BY <2>4, SeqFacts
    <3>3. s[i] <= s[Len(s)]
      <4>1. i < Len(s) => s[i] < s[Len(s)]
        BY <3>2 DEF Sorted, Increasing
      <4> QED BY <3>2, <4>1
    <3>4. s[Len(s)] <= q.buffer[1] /\ q.buffer[1] < d.buffer[k]
      BY <2>1, <2>4, <3>1
    <3> QED BY <3>1, <3>2, <3>3, <3>4
  <2> QED BY <2>2, <2>3, <2>4 DEF d
<1> QED BY <1>3, <1>4

-------------------------------------------------------------------------------
(* Whatever a method changed, starting the drain loop keeps the queue consistent. *)

Outcome(q) == q.inFlight.outcome

LEMMA DrainConsistent ==
  ASSUME NEW q \in QueueRecords, NEW n \in Nat, NEW s \in Seq(Events), Sorted(q, n, s),
         Fresh(q, s)
  PROVE  Consistent(Drain(q), n, s) /\ Outcome(Drain(q)) # "sent"
BY DrainKeepsOrder DEF Consistent, Outcome

LEMMA StartDrainFacts ==
  ASSUME NEW q \in QueueRecords
  PROVE  /\ StartDrain(q) \in QueueRecords
         /\ StartDrain(q).buffer = q.buffer
         /\ StartDrain(q).listener = q.listener
         /\ StartDrain(q).attempts = q.attempts
         /\ StartDrain(q).disposed = q.disposed
         /\ q.buffer # <<>> /\ ~q.disposed /\ q.listener # NoSub => Draining(StartDrain(q))
BY DrainFacts DEF StartDrain

LEMMA StartDrainConsistent ==
  ASSUME NEW q \in QueueRecords, NEW n \in Nat, NEW s \in Seq(Events), Consistent(q, n, s)
  PROVE  /\ Consistent(StartDrain(q), n, s)
         /\ Outcome(StartDrain(q)) = "sent" <=> Outcome(q) = "sent"
<1>1. CASE Draining(q)
  BY <1>1 DEF StartDrain
<1>2. CASE ~Draining(q)
  BY <1>2, DrainConsistent, RecordFacts DEF StartDrain, Consistent, Outcome
<1> QED BY <1>1, <1>2

-------------------------------------------------------------------------------
LEMMA ResumeTypes ==
  ASSUME NEW q \in QueueRecords, Len(q.buffer) <= MaxSize
  PROVE  Resume(q) \in QueueRecords /\ Len(Resume(q).buffer) <= MaxSize
<1>1. Drain(q) \in QueueRecords /\ Drain(q).buffer = q.buffer
  BY DrainFacts
<1>2. /\ Drain(DropHead(q)) \in QueueRecords
      /\ Len(Drain(DropHead(q)).buffer) <= MaxSize
  BY DropHeadFacts, DrainFacts
<1>3. ASSUME ~IsPoison(q)
      PROVE  LET r == [q EXCEPT !.attempts = @ + 1, !.inFlight = NoSend]
             IN  r \in QueueRecords /\ r.buffer = q.buffer
  <2>1. q.attempts + 1 \in 0..MaxAttempts - 1
    BY <1>3, QueueAssumption DEF IsPoison, QueueRecords
  <2> QED BY <2>1 DEF QueueRecords
<1> QED BY <1>1, <1>2, <1>3 DEF Resume

LEMMA NextKeepsTypes ==
  ASSUME TypeOK, DeliveryInv, [Next]_vars
  PROVE  TypeOK'
<1> USE QueueAssumption, DeliveryAssumption DEF TypeOK
<1>1. CASE Produce
  <2> DEFINE t == Trimmed(Append(queue.buffer, enqueued + 1))
             q == [queue EXCEPT !.buffer = t]
  <2>1. enqueued + 1 \in Events /\ queue.buffer \in Seq(Events)
    BY <1>1, RecordFacts DEF Produce, Events
  <2>2. t \in Seq(Events) /\ Len(t) <= MaxSize
    BY <1>1, <2>1, TrimmedInOrder DEF Produce, DeliveryInv, Consistent, Sorted
  <2>3. q \in QueueRecords /\ q.buffer = t
    BY <2>2 DEF QueueRecords
  <2>4. queue' = StartDrain(q)
    BY <1>1 DEF Produce, Enqueue
  <2>5. queue' \in QueueRecords /\ Len(queue'.buffer) <= MaxSize
    BY <2>2, <2>3, <2>4, StartDrainFacts
  <2> QED BY <1>1, <2>5 DEF Produce
<1>2. CASE Attach
  <2> DEFINE q == [queue EXCEPT !.listener = listens + 1]
  <2>0. listens + 1 \in Subs /\ listens' \in 0..MaxListens
    BY <1>2 DEF Attach, Subs
  <2>1. q \in QueueRecords /\ q.buffer = queue.buffer
    BY <2>0 DEF QueueRecords
  <2>2. queue' = StartDrain(q)
    BY <1>2 DEF Attach, Listen
  <2>3. queue' \in QueueRecords /\ queue'.buffer = queue.buffer
    BY <2>1, <2>2, StartDrainFacts
  <2> QED BY <1>2, <2>0, <2>3 DEF Attach
<1>3. CASE Cancel
  BY <1>3 DEF Cancel, Detach, QueueRecords
<1>4. CASE DisposeQueue
  <2>1. <<>> \in Seq(Events) /\ Len(<<>>) <= MaxSize /\ 0 \in 0..MaxAttempts - 1
    BY EmptySeq
  <2>2. queue' \in QueueRecords /\ queue'.buffer = <<>>
    BY <1>4, <2>1 DEF DisposeQueue, Dispose, QueueRecords
  <2> QED BY <1>4, <2>1, <2>2 DEF DisposeQueue
<1>5. CASE CallbackReturns \/ CallbackThrows
  <2>1. Draining(queue) /\ queue.inFlight.event \in Events
    BY <1>5, RecordFacts DEF CallbackReturns, CallbackThrows, Pending
  <2>2. queue.inFlight \in [event : Events, sub : Subs, outcome : {"pending", "sent", "failed"}]
    BY <2>1 DEF QueueRecords, Draining
  <2>3. \A o \in {"sent", "failed"} :
           Ended(queue, o) \in QueueRecords /\ Ended(queue, o).buffer = queue.buffer
    BY <2>2 DEF Ended, QueueRecords
  <2>4. Append(sent, queue.inFlight.event) \in Seq(Events)
    BY <2>1, AppendFacts
  <2> QED BY <1>5, <2>3, <2>4 DEF CallbackReturns, CallbackThrows
<1>6. CASE Resumes
  <2>1. Resume(queue) \in QueueRecords /\ Len(Resume(queue).buffer) <= MaxSize
    BY ResumeTypes
  <2>2. Draining(queue) /\ queue.inFlight.event \in Events
    BY <1>6, RecordFacts DEF Resumes, ResumeSent, ResumeDetached, ResumeFailed
  <2>3. ASSUME ResumeFailed PROVE Head(queue.buffer) \in Events
    <3>1. ~queue.disposed
      BY <2>2, <2>3, RecordFacts
         DEF ResumeFailed, Charged, DeliveryInv, Consistent, Sorted, Subs
    <3>2. queue.buffer # <<>> /\ queue.buffer \in Seq(Events)
      BY <2>2, <3>1, RecordFacts DEF DeliveryInv, Consistent, FlightOK
    <3> QED BY <3>2, TailFacts
  <2>4. CASE ResumeFailed
    <3>1. Append(poisoned, Head(queue.buffer)) \in Seq(Events)
      BY <2>3, <2>4, AppendFacts
    <3>2. failures' \in [Events -> Nat]
      BY <2>2, <2>4 DEF ResumeFailed
    <3> QED BY <2>1, <2>4, <3>1, <3>2 DEF ResumeFailed
  <2>5. CASE ResumeSent \/ ResumeDetached
    BY <2>1, <2>5 DEF ResumeSent, ResumeDetached
  <2> QED BY <1>6, <2>4, <2>5 DEF Resumes
<1>7. CASE UNCHANGED vars
  BY <1>7 DEF vars
<1> QED BY <1>1, <1>2, <1>3, <1>4, <1>5, <1>6, <1>7 DEF Next, Resumes

-------------------------------------------------------------------------------
(* How the accounts move when an event arrives, is delivered, or leaves the buffer. *)

Balance(n, u, s, b, o, p) == n + u = s + b + o + p

LEMMA AccountOfArrival ==
  ASSUME NEW n \in Nat, NEW u \in Nat, NEW s \in Nat, NEW b \in Nat, NEW o \in Nat,
         NEW p \in Nat, NEW c \in Nat, NEW x \in Nat,
         Balance(n, u, s, b, o, p), c + x = b + o + 1
  PROVE  Balance(n + 1, u, s, c, x, p)
BY DEF Balance

LEMMA AccountOfDelivery ==
  ASSUME NEW n \in Nat, NEW s \in Nat, NEW b \in Nat, NEW o \in Nat, NEW p \in Nat,
         Balance(n, 0, s, b, o, p)
  PROVE  Balance(n, 1, s + 1, b, o, p)
BY DEF Balance

LEMMA AccountOfRemoval ==
  ASSUME NEW n \in Nat, NEW s \in Nat, NEW b \in Nat, NEW c \in Nat, NEW o \in Nat,
         NEW p \in Nat, c + 1 = b
  PROVE  /\ Balance(n, 1, s, b, o, p) => Balance(n, 0, s, c, o, p)
         /\ Balance(n, 0, s, b, o, p) => Balance(n, 0, s, c, o, p + 1)
BY DEF Balance

-------------------------------------------------------------------------------
(* DeliveryInv, one lemma for each kind of step. *)

LEMMA ProduceKeepsInv ==
  ASSUME TypeOK, DeliveryInv, Produce
  PROVE  DeliveryInv'
<1> USE QueueAssumption, DeliveryAssumption DEF TypeOK
<1> DEFINE b == queue.buffer
           n == enqueued + 1
           t == Trimmed(Append(b, n))
           q == [queue EXCEPT !.buffer = t]
<1>1. n \in Events /\ n \in Nat /\ b \in Seq(Events) /\ ~queue.disposed /\ enqueued' = n
      /\ sent' = sent
  BY RecordFacts DEF Produce, Events
<1>2. /\ t \in Seq(Events) /\ t # <<>> /\ Increasing(t)
      /\ Len(t) = IF Len(b) = MaxSize THEN Len(b) ELSE Len(b) + 1
      /\ \A k \in DOMAIN t : t[k] = n \/ \E j \in DOMAIN b : t[k] = b[j]
  <2>1. /\ enqueued \in Nat /\ enqueued + 1 \in Events /\ Len(b) <= MaxSize
        /\ Increasing(b) /\ \A k \in DOMAIN b : b[k] <= enqueued
    BY <1>1 DEF DeliveryInv, Consistent, Sorted
  <2> HIDE QueueAssumption, DeliveryAssumption DEF TypeOK, b
  <2>2. t = Trimmed(Append(b, enqueued + 1))
    OBVIOUS
  <2> HIDE DEF t
  <2>3. /\ t \in Seq(Events) /\ t # <<>> /\ Increasing(t)
        /\ Len(t) = IF Len(b) = MaxSize THEN Len(b) ELSE Len(b) + 1
        /\ \A k \in DOMAIN t : t[k] = enqueued + 1 \/ \E j \in DOMAIN b : t[k] = b[j]
    BY <1>1, <2>1, <2>2, TrimmedInOrder
  <2> QED BY <2>3
<1> HIDE DEF t
<1>3. /\ q \in QueueRecords /\ q.buffer = t /\ q.inFlight = queue.inFlight
      /\ q.disposed = queue.disposed /\ q.listener = queue.listener
  BY <1>2 DEF QueueRecords
<1>4. queue' = StartDrain(q)
  BY <1>1 DEF Produce, Enqueue, t
<1> HIDE DEF q
<1>5. /\ enqueued \in Nat
      /\ \A k \in DOMAIN b : b[k] \in Nat /\ b[k] <= enqueued
      /\ \A k \in DOMAIN sent : sent[k] \in Nat /\ sent[k] <= enqueued
      /\ \A k \in DOMAIN t : t[k] \in Nat
  BY <1>1, <1>2, SeqFacts DEF DeliveryInv, Consistent, Sorted
<1>6. Sorted(q, n, sent)
  <2>1. ASSUME NEW k \in DOMAIN t PROVE t[k] <= n
    <3>1. CASE t[k] = n
      BY <1>1, <3>1
    <3>2. ASSUME NEW j \in DOMAIN b, t[k] = b[j] PROVE t[k] <= n
      BY <1>5, <3>2
    <3> QED BY <1>2, <3>1, <3>2
  <2>2. \A k \in DOMAIN sent : sent[k] <= n
    BY <1>1, <1>5
  <2> QED BY <1>1, <1>2, <1>3, <2>1, <2>2 DEF DeliveryInv, Consistent, Sorted
<1>7. Fresh(queue, sent) => Fresh(q, sent)
  <2> SUFFICES ASSUME Fresh(queue, sent), NEW i \in DOMAIN sent, NEW k \in DOMAIN t
               PROVE  sent[i] < t[k]
    BY <1>3 DEF Fresh
  <2>1. CASE t[k] = n
    BY <1>1, <1>5, <2>1
  <2>2. ASSUME NEW j \in DOMAIN b, t[k] = b[j] PROVE sent[i] < t[k]
    BY <2>2 DEF Fresh
  <2> QED BY <1>2, <2>1, <2>2
<1>8. Draining(queue) => FlightOK(q, n, sent)
  <2> SUFFICES ASSUME Draining(queue) PROVE FlightOK(q, n, sent)
    OBVIOUS
  <2> DEFINE e == queue.inFlight.event
  <2>1. FlightOK(queue, enqueued, sent) /\ e \in Nat
    BY RecordFacts DEF DeliveryInv, Consistent, Events
  <2>2. e <= enqueued /\ e <= n /\ \A k \in DOMAIN b : e <= b[k]
    BY <1>1, <2>1 DEF FlightOK
  <2>3. \A k \in DOMAIN t : e <= t[k]
    BY <1>1, <1>2, <1>5, <2>2
  <2> QED BY <1>1, <1>2, <1>3, <1>7, <2>1, <2>2, <2>3 DEF FlightOK
<1>9. Consistent(q, n, sent)
  BY <1>3, <1>6, <1>7, <1>8 DEF DeliveryInv, Consistent, Draining
<1>10. Consistent(queue', n, sent) /\ (Outcome(queue') = "sent" <=> Outcome(queue) = "sent")
  BY <1>1, <1>3, <1>4, <1>9, StartDrainConsistent DEF Outcome
<1>11. Accounted'
  <2>1. queue'.buffer = t /\ queue'.disposed = queue.disposed
    BY <1>3, <1>4, StartDrainFacts
  <2>2. Len(b) \in Nat /\ Len(sent) \in Nat /\ Len(poisoned) \in Nat /\ Len(t) \in Nat
    BY <1>1, <1>2, LenProperties
  <2>3. Len(t) + overflows' = Len(b) + overflows + 1
    <3>1. CASE Len(b) = MaxSize
      BY <1>2, <2>2, <3>1 DEF Produce
    <3>2. CASE Len(b) # MaxSize
      BY <1>2, <2>2, <3>2 DEF Produce
    <3> QED BY <3>1, <3>2
  <2> DEFINE u == IF Outcome(queue) = "sent" THEN 1 ELSE 0
  <2>4. Balance(enqueued, u, Len(sent), Len(b), overflows, Len(poisoned)) /\ u \in Nat
    BY <1>1 DEF DeliveryInv, Accounted, Outcome, Balance
  <2>5. overflows' \in Nat /\ poisoned' = poisoned
    BY DEF Produce
  <2>6. Balance(enqueued + 1, u, Len(sent), Len(t), overflows', Len(poisoned))
    <3>1. overflows \in Nat
      OBVIOUS
    <3> HIDE DEF TypeOK, u
    <3> QED BY <1>5, <2>2, <2>3, <2>4, <2>5, <3>1, AccountOfArrival, Zenon
  <2>7. Outcome(queue') = "sent" <=> Outcome(queue) = "sent"
    BY <1>10
  <2> QED BY <1>1, <2>1, <2>5, <2>6, <2>7 DEF Accounted, Outcome, Balance
<1> QED BY <1>1, <1>10, <1>11 DEF DeliveryInv

LEMMA ListenerKeepsInv ==
  ASSUME TypeOK, DeliveryInv, Attach \/ Cancel
  PROVE  DeliveryInv'
<1> USE DEF TypeOK
<1>1. ASSUME NEW q \in QueueRecords, q.buffer = queue.buffer, q.inFlight = queue.inFlight,
             q.disposed = queue.disposed, queue.disposed => q.listener = NoSub
      PROVE  Consistent(q, enqueued, sent)
  BY <1>1 DEF DeliveryInv, Consistent, Sorted, Fresh, FlightOK, Draining
<1>2. CASE Attach
  <2> DEFINE q == [queue EXCEPT !.listener = listens + 1]
  <2>1. listens + 1 \in Subs /\ ~queue.disposed
    BY <1>2, DeliveryAssumption DEF Attach, Subs, CanListen
  <2>2. q \in QueueRecords /\ queue' = StartDrain(q)
    BY <1>2, <2>1 DEF Attach, Listen, QueueRecords
  <2>3. Consistent(q, enqueued, sent) /\ q.buffer = queue.buffer /\ q.disposed = queue.disposed
        /\ q.inFlight = queue.inFlight
    BY <1>1, <2>1, <2>2 DEF QueueRecords
  <2>4. /\ Consistent(queue', enqueued, sent)
        /\ Outcome(queue') = "sent" <=> Outcome(q) = "sent"
        /\ queue'.buffer = queue.buffer /\ queue'.disposed = queue.disposed
    <3>1. enqueued \in Nat /\ sent \in Seq(Events)
      BY DeliveryAssumption
    <3> HIDE DEF q
    <3>2. Consistent(StartDrain(q), enqueued, sent)
          /\ (Outcome(StartDrain(q)) = "sent" <=> Outcome(q) = "sent")
      BY <2>2, <2>3, <3>1, StartDrainConsistent
    <3>3. StartDrain(q).buffer = q.buffer /\ StartDrain(q).disposed = q.disposed
      BY <2>2, StartDrainFacts
    <3> QED BY <2>2, <2>3, <3>2, <3>3
  <2>5. Accounted'
    BY <1>2, <2>3, <2>4 DEF Attach, DeliveryInv, Accounted, Outcome
  <2> QED BY <1>2, <2>4, <2>5 DEF Attach, DeliveryInv
<1>3. CASE Cancel
  <2>1. /\ queue' \in QueueRecords /\ queue'.buffer = queue.buffer
        /\ queue'.inFlight = queue.inFlight /\ queue'.disposed = queue.disposed
        /\ queue'.listener = NoSub
    BY <1>3 DEF Cancel, Detach, QueueRecords
  <2>2. Consistent(queue', enqueued, sent)
    BY <1>1, <2>1
  <2> QED BY <1>3, <2>1, <2>2 DEF Cancel, DeliveryInv, Accounted
<1> QED BY <1>2, <1>3

LEMMA DisposeKeepsInv ==
  ASSUME TypeOK, DeliveryInv, DisposeQueue
  PROVE  DeliveryInv'
<1>1. /\ queue'.buffer = <<>> /\ queue'.disposed = TRUE /\ queue'.listener = NoSub
      /\ queue'.inFlight = queue.inFlight /\ sent' = sent /\ enqueued' = enqueued
  BY DEF DisposeQueue, Dispose, TypeOK, QueueRecords
<1>2. DOMAIN <<>> = {}
  OBVIOUS
<1> QED
  BY <1>1, <1>2 DEF DeliveryInv, Consistent, Sorted, Increasing, Fresh, FlightOK, Draining,
                    Accounted

LEMMA CallbackKeepsInv ==
  ASSUME TypeOK, DeliveryInv, CallbackReturns \/ CallbackThrows
  PROVE  DeliveryInv'
<1> USE DEF TypeOK
<1> DEFINE e == queue.inFlight.event
<1>0. enqueued \in Nat /\ overflows \in Nat
  BY DeliveryAssumption
<1>1. /\ Draining(queue) /\ e \in Events /\ e \in Nat /\ queue.inFlight.outcome = "pending"
      /\ queue.inFlight \in [event : Events, sub : Subs, outcome : {"pending", "sent", "failed"}]
  BY RecordFacts DEF CallbackReturns, CallbackThrows, Pending, Events, QueueRecords, Draining
<1>2. /\ Sorted(queue, enqueued, sent) /\ Fresh(queue, sent) /\ e <= enqueued
      /\ \A k \in DOMAIN queue.buffer : e <= queue.buffer[k]
      /\ queue.disposed \/ queue.buffer # <<>>
      /\ \A i \in DOMAIN sent : sent[i] < e
  BY <1>1 DEF DeliveryInv, Consistent, FlightOK
<1>3. ASSUME NEW o \in {"sent", "failed"}
      PROVE  LET q == Ended(queue, o)
             IN  /\ q.buffer = queue.buffer /\ q.disposed = queue.disposed
                 /\ q.listener = queue.listener /\ q.inFlight.event = e
                 /\ q.inFlight.outcome = o /\ Draining(q)
  BY <1>1 DEF Ended, QueueRecords, Draining, NoSend
<1>4. CASE CallbackThrows
  <2>1. /\ queue'.buffer = queue.buffer /\ queue'.disposed = queue.disposed
        /\ queue'.listener = queue.listener /\ queue'.inFlight.event = e
        /\ queue'.inFlight.outcome = "failed" /\ Draining(queue')
    BY <1>3, <1>4 DEF CallbackThrows
  <2>2. Consistent(queue', enqueued, sent)
    BY <1>2, <2>1 DEF Consistent, Sorted, Fresh, FlightOK
  <2> QED BY <1>1, <1>4, <2>1, <2>2 DEF CallbackThrows, DeliveryInv, Accounted
<1>5. CASE CallbackReturns
  <2>1. /\ queue'.buffer = queue.buffer /\ queue'.disposed = queue.disposed
        /\ queue'.listener = queue.listener /\ queue'.inFlight.event = e
        /\ queue'.inFlight.outcome = "sent" /\ Draining(queue') /\ sent' = Append(sent, e)
    BY <1>3, <1>5 DEF CallbackReturns
  <2>2. Increasing(sent') /\ \A k \in DOMAIN sent' :
                                sent'[k] = e \/ (k \in DOMAIN sent /\ sent'[k] = sent[k])
    BY <1>1, <1>2, <2>1, AppendInOrder DEF Sorted
  <2>3. sent' # <<>> /\ Len(sent') = Len(sent) + 1 /\ sent'[Len(sent')] = e
    BY <1>1, <2>1, AppendFacts
  <2>4. \A k \in DOMAIN sent' : sent'[k] <= enqueued
    BY <1>2, <2>2 DEF Sorted
  <2>5. Consistent(queue', enqueued, sent')
    BY <1>2, <2>1, <2>2, <2>3, <2>4 DEF Consistent, Sorted, FlightOK
  <2>6. Accounted'
    <3>1. Len(sent) \in Nat /\ Len(queue.buffer) \in Nat /\ Len(poisoned) \in Nat
      BY LenProperties, RecordFacts
    <3>2. ~queue.disposed =>
             Balance(enqueued, 0, Len(sent), Len(queue.buffer), overflows, Len(poisoned))
      BY <1>1 DEF DeliveryInv, Accounted, Balance
    <3>3. ~queue.disposed =>
             Balance(enqueued, 1, Len(sent) + 1, Len(queue.buffer), overflows, Len(poisoned))
      BY <3>1, <3>2, <1>0, AccountOfDelivery, Zenon
    <3>4. /\ enqueued' = enqueued /\ overflows' = overflows /\ poisoned' = poisoned
          /\ queue'.inFlight.outcome = "sent"
      BY <1>5, <2>1 DEF CallbackReturns
    <3> QED BY <2>1, <2>3, <3>3, <3>4 DEF Accounted, Balance
  <2> QED BY <1>5, <2>5, <2>6 DEF CallbackReturns, DeliveryInv
<1> QED BY <1>4, <1>5

LEMMA ResumeKeepsInv ==
  ASSUME TypeOK, DeliveryInv, Resumes
  PROVE  DeliveryInv'
<1> USE DEF TypeOK
<1> DEFINE d == DropHead(queue)
<1>1. /\ Draining(queue) /\ Sorted(queue, enqueued, sent) /\ FlightOK(queue, enqueued, sent)
      /\ sent' = sent /\ enqueued' = enqueued /\ overflows' = overflows
      /\ enqueued \in Nat /\ overflows \in Nat
  BY RecordFacts, DeliveryAssumption
     DEF Resumes, ResumeSent, ResumeDetached, ResumeFailed, DeliveryInv, Consistent
<1>2. /\ d \in QueueRecords /\ Sorted(d, enqueued, sent) /\ d.disposed = queue.disposed
      /\ queue.buffer # <<>> => Len(d.buffer) + 1 = Len(queue.buffer)
  BY <1>1, DropHeadFacts, DropHeadInOrder
<1>3. /\ Len(sent) \in Nat /\ Len(queue.buffer) \in Nat
      /\ Len(poisoned) \in Nat /\ Len(d.buffer) \in Nat
  BY <1>2, LenProperties, RecordFacts
<1>4. CASE ResumeSent
  <2>1. Fresh(d, sent)
    BY <1>1, <1>4, DropHeadInOrder DEF ResumeSent, FlightOK
  <2>2. queue' = Drain(d) /\ poisoned' = poisoned
    BY <1>4 DEF ResumeSent, Resume
  <2> HIDE DEF d
  <2>3. Consistent(queue', enqueued, sent) /\ Outcome(queue') # "sent"
        /\ queue'.buffer = d.buffer /\ queue'.disposed = queue.disposed
    BY <1>1, <1>2, <2>1, <2>2, DrainConsistent, DrainFacts
  <2>4. ~queue.disposed => queue.buffer # <<>>
                           /\ Balance(enqueued, 1, Len(sent), Len(queue.buffer),
                                      overflows, Len(poisoned))
    BY <1>1, <1>4 DEF ResumeSent, DeliveryInv, Accounted, FlightOK, Balance
  <2>5. ~queue.disposed =>
           Balance(enqueued, 0, Len(sent), Len(d.buffer), overflows, Len(poisoned))
    BY <1>1, <1>2, <1>3, <2>4, AccountOfRemoval, Zenon
  <2> QED BY <1>1, <1>3, <2>2, <2>3, <2>5 DEF DeliveryInv, Accounted, Outcome, Balance
<1>5. CASE ResumeDetached
  <2>1. Fresh(queue, sent) /\ Outcome(queue) # "sent"
    BY <1>1, <1>5 DEF ResumeDetached, FlightOK, Outcome
  <2>2. queue' = Drain(queue) /\ poisoned' = poisoned
    BY <1>5 DEF ResumeDetached, Resume
  <2>3. Consistent(queue', enqueued, sent) /\ Outcome(queue') # "sent"
        /\ queue'.buffer = queue.buffer /\ queue'.disposed = queue.disposed
    BY <1>1, <2>1, <2>2, DrainConsistent, DrainFacts
  <2> QED BY <1>1, <2>1, <2>2, <2>3 DEF DeliveryInv, Accounted, Outcome
<1>6. CASE ResumeFailed /\ IsPoison(queue)
  <2>1. Fresh(d, sent) /\ Outcome(queue) # "sent"
    BY <1>1, <1>6, DropHeadInOrder DEF ResumeFailed, FlightOK, Outcome
  <2>2. queue' = Drain(d)
    BY <1>6 DEF ResumeFailed, Resume
  <2> HIDE DEF d
  <2>3. Consistent(queue', enqueued, sent) /\ Outcome(queue') # "sent"
        /\ queue'.buffer = d.buffer /\ queue'.disposed = queue.disposed
    BY <1>1, <1>2, <2>1, <2>2, DrainConsistent, DrainFacts
  <2>4. ~queue.disposed
    <3>1. queue.inFlight.sub \in Subs /\ NoSub \notin Subs
      BY <1>1, RecordFacts, DeliveryAssumption DEF Subs
    <3>2. queue.listener # NoSub
      BY <1>6, <3>1 DEF ResumeFailed, Charged
    <3> QED BY <1>1, <3>2 DEF Sorted
  <2>5. /\ queue.buffer # <<>>
        /\ Balance(enqueued, 0, Len(sent), Len(queue.buffer), overflows, Len(poisoned))
    BY <1>1, <2>1, <2>4 DEF DeliveryInv, Accounted, FlightOK, Outcome, Balance
  <2>6. Len(poisoned') = Len(poisoned) + 1
    <3>1. Head(queue.buffer) \in Events
      BY <2>5, TailFacts, RecordFacts
    <3> QED BY <1>6, <3>1, AppendFacts DEF ResumeFailed
  <2>7. Balance(enqueued, 0, Len(sent), Len(d.buffer), overflows, Len(poisoned) + 1)
    BY <1>1, <1>2, <1>3, <2>5, AccountOfRemoval, Zenon
  <2> QED BY <1>1, <1>3, <2>3, <2>6, <2>7 DEF DeliveryInv, Accounted, Outcome, Balance
<1>7. CASE ResumeFailed /\ ~IsPoison(queue)
  <2>1. Fresh(queue, sent) /\ Outcome(queue) # "sent"
    BY <1>1, <1>7 DEF ResumeFailed, FlightOK, Outcome
  <2>2. queue' = [queue EXCEPT !.attempts = @ + 1, !.inFlight = NoSend] /\ poisoned' = poisoned
    BY <1>7 DEF ResumeFailed, Resume
  <2>3. /\ queue'.buffer = queue.buffer /\ queue'.disposed = queue.disposed
        /\ queue'.listener = queue.listener /\ queue'.inFlight = NoSend
    BY <2>2 DEF QueueRecords
  <2>4. Consistent(queue', enqueued, sent)
    BY <1>1, <2>1, <2>3 DEF Consistent, Sorted, Fresh, Draining
  <2> QED BY <1>1, <2>1, <2>2, <2>3, <2>4 DEF DeliveryInv, Accounted, Outcome, NoSend
<1> QED BY <1>4, <1>5, <1>6, <1>7 DEF Resumes

-------------------------------------------------------------------------------
(* The results. *)

LEMMA InitHolds ==
  ASSUME Init
  PROVE  TypeOK /\ DeliveryInv /\ NoLostWakeup
<1>1. <<>> \in Seq(Events) /\ Len(<<>>) = 0 /\ DOMAIN <<>> = {}
  BY EmptySeq
<1>2. 0 \in 0..MaxAttempts - 1 /\ 0 \in 0..MaxEvents /\ 0 \in 0..MaxListens /\ 0 <= MaxSize
  BY QueueAssumption, DeliveryAssumption
<1>3. TypeOK
  BY <1>1, <1>2 DEF Init, TypeOK, QueueRecords, EmptyQueue
<1>4. ~Draining(queue) /\ queue.buffer = <<>> /\ queue.inFlight.outcome = "none"
      /\ ~queue.disposed /\ queue.listener = NoSub
  BY DEF Init, EmptyQueue, Draining, NoSend
<1>5. Consistent(queue, enqueued, sent)
  BY <1>1, <1>4 DEF Init, Consistent, Sorted, Fresh, Increasing
<1>6. Accounted
  BY <1>1, <1>4 DEF Init, Accounted
<1> QED BY <1>3, <1>4, <1>5, <1>6 DEF DeliveryInv, NoLostWakeup

LEMMA NextKeepsInv ==
  ASSUME TypeOK, DeliveryInv, [Next]_vars
  PROVE  DeliveryInv'
<1>1. CASE UNCHANGED vars
  BY <1>1 DEF vars, DeliveryInv, Accounted
<1> QED
  BY <1>1, ProduceKeepsInv, ListenerKeepsInv, DisposeKeepsInv, CallbackKeepsInv, ResumeKeepsInv
     DEF Next, Resumes

(* The wakeup is kept by every step: whatever adds a listener or an event starts the *)
(* drain loop, and the loop only stops with neither, or to wait for a retry.         *)
LEMMA NextKeepsWakeup ==
  ASSUME TypeOK, DeliveryInv, NoLostWakeup, [Next]_vars
  PROVE  NoLostWakeup'
<1> USE DEF TypeOK
<1>0. queue.listener # NoSub => ~queue.disposed
  BY DEF DeliveryInv, Consistent, Sorted
<1>1. ASSUME NEW q \in QueueRecords, q.listener # NoSub => ~q.disposed,
             queue' = Drain(q) \/ queue' = StartDrain(q)
      PROVE  NoLostWakeup'
  BY <1>1, DrainFacts, StartDrainFacts DEF NoLostWakeup
<1>2. CASE Produce
  <2> DEFINE t == Trimmed(Append(queue.buffer, enqueued + 1))
  <2>1. enqueued \in Nat /\ enqueued + 1 \in Events /\ queue.buffer \in Seq(Events)
    BY <1>2, RecordFacts, DeliveryAssumption DEF Produce, Events
  <2>2. t \in Seq(Events)
    BY <2>1, TrimmedInOrder DEF DeliveryInv, Consistent, Sorted
  <2> QED BY <1>0, <1>1, <1>2, <2>2 DEF Produce, Enqueue, QueueRecords
<1>3. CASE Attach
  <2>1. listens + 1 \in Subs
    BY <1>3, DeliveryAssumption DEF Attach, Subs
  <2> QED BY <1>1, <1>3, <2>1 DEF Attach, Listen, CanListen, QueueRecords
<1>4. CASE Cancel \/ DisposeQueue
  BY <1>4 DEF Cancel, Detach, DisposeQueue, Dispose, NoLostWakeup, QueueRecords
<1>5. CASE CallbackReturns \/ CallbackThrows
  <2>1. queue.inFlight \in [event : Events, sub : Subs, outcome : {"pending", "sent", "failed"}]
    BY <1>5, RecordFacts
       DEF CallbackReturns, CallbackThrows, Pending, QueueRecords, Draining
  <2> QED BY <1>5, <2>1
          DEF CallbackReturns, CallbackThrows, Ended, NoLostWakeup, Draining, NoSend, QueueRecords
<1>6. CASE Resumes
  <2> DEFINE d == DropHead(queue)
  <2>1. d \in QueueRecords /\ (d.listener # NoSub => ~d.disposed)
    BY <1>0, DropHeadFacts
  <2>2. CASE queue' = Drain(d) \/ queue' = Drain(queue)
    BY <1>0, <1>1, <2>1, <2>2
  <2>3. CASE queue' = [queue EXCEPT !.attempts = @ + 1, !.inFlight = NoSend]
    <3>1. queue'.attempts = queue.attempts + 1
      BY <2>3 DEF QueueRecords
    <3>2. queue.attempts + 1 > 0
      BY RecordFacts, QueueAssumption
    <3> QED BY <3>1, <3>2 DEF NoLostWakeup
  <2> QED BY <1>6, <2>2, <2>3 DEF Resumes, ResumeSent, ResumeDetached, ResumeFailed, Resume
<1>7. CASE UNCHANGED vars
  BY <1>7 DEF vars, NoLostWakeup
<1> QED BY <1>2, <1>3, <1>4, <1>5, <1>6, <1>7 DEF Next, Resumes

(* A queue's state has its type, and its buffer never exceeds the limit, whatever the *)
(* limit, the number of attempts, the events and the listeners.                        *)
THEOREM TypeCorrect == Spec => []TypeOK
<1>1. Init => TypeOK /\ DeliveryInv
  BY InitHolds
<1>2. TypeOK /\ DeliveryInv /\ [Next]_vars => (TypeOK /\ DeliveryInv)'
  BY NextKeepsTypes, NextKeepsInv
<1> QED BY <1>1, <1>2, PTL DEF Spec

(* The inductive invariant: order and conservation of the events of a queue. *)
THEOREM InvariantHolds == Spec => []DeliveryInv
<1>1. Init => TypeOK /\ DeliveryInv
  BY InitHolds
<1>2. TypeOK /\ DeliveryInv /\ [Next]_vars => (TypeOK /\ DeliveryInv)'
  BY NextKeepsTypes, NextKeepsInv
<1> QED BY <1>1, <1>2, PTL DEF Spec

(* enqueue / _drain: deliveries succeed in the order the events were enqueued, none twice. *)
THEOREM DeliversInOrderOnce == Spec => []InOrderOnce
<1>1. DeliveryInv => InOrderOnce
  BY DEF DeliveryInv, Consistent, Sorted, InOrderOnce
<1> QED BY <1>1, InvariantHolds, PTL

(* An event of a live queue is delivered, buffered, or dropped by overflow or poison. *)
THEOREM NoUnpaidLoss == Spec => []LossIsAccounted
<1>1. TypeOK /\ DeliveryInv => LossIsAccounted
  <2> SUFFICES ASSUME TypeOK, DeliveryInv, ~queue.disposed
               PROVE  enqueued <= Len(sent) + Len(queue.buffer) + overflows + Len(poisoned)
    BY DEF LossIsAccounted
  <2>1. enqueued \in Nat /\ enqueued <= enqueued + (IF Outcome(queue) = "sent" THEN 1 ELSE 0)
    BY DeliveryAssumption DEF TypeOK
  <2> QED BY <2>1 DEF DeliveryInv, Accounted, Outcome
<1> QED BY <1>1, TypeCorrect, InvariantHolds, PTL

(* listen / enqueue / _drain: no interleaving loses the wakeup of the drain loop. *)
THEOREM WakeupIsNeverLost == Spec => []NoLostWakeup
<1>1. Init => TypeOK /\ DeliveryInv /\ NoLostWakeup
  BY InitHolds
<1>2. TypeOK /\ DeliveryInv /\ NoLostWakeup /\ [Next]_vars
         => (TypeOK /\ DeliveryInv /\ NoLostWakeup)'
  BY NextKeepsTypes, NextKeepsInv, NextKeepsWakeup
<1> QED BY <1>1, <1>2, PTL DEF Spec
===============================================================================
