------------------------------- MODULE SseProofs -------------------------------
(***************************************************************************)
(* Proofs about SseManager, for every set of connections and modes, every   *)
(* size and attempt limit, and every number of links, subscriptions,        *)
(* queues, events and sends that throw below the attempt limit.             *)
(*                                                                         *)
(* The inductive invariant has two halves.  RecordInv says of one queue by  *)
(* itself what it retains, sends, charges and still owes; it is kept by     *)
(* every method of EventQueue.  Placed says where the queues are: which     *)
(* connection or place among the orphans has each of them.                  *)
(***************************************************************************)
EXTENDS SseManager, SequenceTheorems, FiniteSetTheorems, WellFoundedInduction, TLAPS

-------------------------------------------------------------------------------
(* One queue: n events were enqueued, b of them before it was made, S are the *)
(* subscriptions of its mode, s is what it sent, and t sends threw.           *)

QueueRecords(n, S) ==
  [buffer : Seq(1..n), listener : S \cup {NoSub},
   inFlight : [event : 1..n, sub : S, outcome : {"pending", "sent", "failed"}]
                \cup {NoSend},
   attempts : Nat, disposed : BOOLEAN]

\* The failure that a queue which has not resumed yet will count.
Due(r) == IF r.inFlight.outcome = "failed" /\ Charged(r) THEN 1 ELSE 0

\* The sent events that have left the buffer.
Gone(r, s) == IF r.inFlight.outcome = "sent" THEN Len(s) - 1 ELSE Len(s)

\* What was sent and what is retained are together what was enqueued.
Contiguous(r, s, n, b) ==
  /\ Gone(r, s) \in Nat
  /\ Gone(r, s) + Len(r.buffer) = n - b
  /\ \A i \in 1..Len(s) : s[i] = b + i
  /\ \A i \in 1..Len(r.buffer) : r.buffer[i] = b + Gone(r, s) + i
  /\ Draining(r) => r.buffer # <<>> /\ r.inFlight.event = r.buffer[1]

Serving(r) == r.buffer # <<>> /\ ~r.disposed /\ r.listener # NoSub /\ ~Draining(r)
                => r.attempts > 0

RecordInv(r, s, n, b, S, t) ==
  /\ r \in QueueRecords(n, S)
  /\ s \in Seq(1..n)
  /\ Len(r.buffer) <= MaxSize
  /\ r.attempts + Due(r) <= t
  /\ r.disposed => r.listener = NoSub
  /\ Serving(r)
  /\ ~r.disposed /\ n - b <= MaxSize => Contiguous(r, s, n, b)

-------------------------------------------------------------------------------
(* What the buffer operations do, element by element.                         *)

LEMMA AppendFacts ==
  ASSUME NEW T, NEW s \in Seq(T), NEW e \in T
  PROVE  /\ Append(s, e) \in Seq(T) /\ Append(s, e) # <<>>
         /\ Len(s) \in Nat /\ Len(Append(s, e)) = Len(s) + 1
         /\ \A k \in 1..Len(s) : Append(s, e)[k] = s[k]
         /\ Append(s, e)[Len(s) + 1] = e
BY AppendProperties, LenProperties

LEMMA TailFacts ==
  ASSUME NEW T, NEW s \in Seq(T), s # <<>>
  PROVE  /\ Tail(s) \in Seq(T)
         /\ Head(s) \in T /\ Head(s) = s[1]
         /\ Len(s) \in Nat \ {0} /\ Len(Tail(s)) = Len(s) - 1
         /\ \A k \in 1..Len(s) - 1 : Tail(s)[k] = s[k + 1]
<1>1. /\ Head(s) \in T /\ Tail(s) \in Seq(T) /\ Len(Tail(s)) = Len(s) - 1
      /\ \A k \in 1..Len(Tail(s)) : Tail(s)[k] = s[k + 1]
  BY HeadTailProperties
<1>2. Len(s) \in Nat \ {0}
  BY EmptySeq
<1> QED BY <1>1, <1>2

LEMMA TrimmedFacts ==
  ASSUME NEW T, NEW s \in Seq(T), NEW e \in T, Len(s) <= MaxSize
  PROVE  /\ Trimmed(Append(s, e)) \in Seq(T)
         /\ Len(Trimmed(Append(s, e))) <= MaxSize
         /\ Trimmed(Append(s, e)) # <<>>
         /\ Len(s) < MaxSize => Trimmed(Append(s, e)) = Append(s, e)
<1> DEFINE a == Append(s, e)
<1>1. a \in Seq(T) /\ a # <<>> /\ Len(a) = Len(s) + 1 /\ Len(s) \in Nat
  BY AppendFacts
<1>2. MaxSize \in Nat \ {0}
  BY QueueAssumption
<1> HIDE DEF a
<1>3. CASE Len(a) > MaxSize
  <2>1. Trimmed(a) = Tail(a)
    BY <1>3 DEF Trimmed
  <2>2. Tail(a) \in Seq(T) /\ Len(Tail(a)) = Len(a) - 1
    BY <1>1, TailFacts
  <2>3. Len(Tail(a)) = MaxSize
    BY <1>1, <1>2, <1>3, <2>2
  <2>4. Tail(a) # <<>>
    BY <1>2, <2>3, EmptySeq
  <2> QED BY <1>1, <1>2, <1>3, <2>1, <2>2, <2>3, <2>4 DEF a
<1>4. CASE ~(Len(a) > MaxSize)
  <2>1. Trimmed(a) = a
    BY <1>4 DEF Trimmed
  <2> QED BY <1>1, <1>2, <1>4, <2>1 DEF a
<1> QED BY <1>3, <1>4

-------------------------------------------------------------------------------
(* The drain loop.                                                            *)

LEMMA RecordFacts ==
  ASSUME NEW n, NEW S, NEW r \in QueueRecords(n, S)
  PROVE  /\ r.buffer \in Seq(1..n) /\ r.listener \in S \cup {NoSub}
         /\ r.attempts \in Nat /\ r.disposed \in BOOLEAN
         /\ Draining(r) <=> r.inFlight.outcome \in {"pending", "sent", "failed"}
         /\ Draining(r) => r.inFlight.event \in 1..n /\ r.inFlight.sub \in S
         /\ ~Draining(r) => r.inFlight = NoSend /\ r.inFlight.outcome = "none"
<1>1. NoSend.outcome = "none"
  BY DEF NoSend
<1> QED BY <1>1 DEF QueueRecords, Draining

LEMMA DrainFacts ==
  ASSUME NEW n, NEW S, NEW r \in QueueRecords(n, S)
  PROVE  /\ Drain(r) \in QueueRecords(n, S)
         /\ Drain(r).buffer = r.buffer /\ Drain(r).listener = r.listener
         /\ Drain(r).attempts = r.attempts /\ Drain(r).disposed = r.disposed
         /\ IF r.buffer # <<>> /\ ~r.disposed /\ r.listener # NoSub
            THEN /\ Draining(Drain(r))
                 /\ Drain(r).inFlight.event = r.buffer[1]
                 /\ Drain(r).inFlight.outcome = "pending"
            ELSE /\ ~Draining(Drain(r))
                 /\ Drain(r).inFlight.outcome = "none"
<1>1. CASE r.buffer # <<>> /\ ~r.disposed /\ r.listener # NoSub
  <2> DEFINE f == [event |-> Head(r.buffer), sub |-> r.listener, outcome |-> "pending"]
  <2>1. Head(r.buffer) \in 1..n /\ Head(r.buffer) = r.buffer[1]
    BY <1>1, TailFacts DEF QueueRecords
  <2>2. f \in [event : 1..n, sub : S, outcome : {"pending", "sent", "failed"}]
    BY <1>1, <2>1 DEF QueueRecords
  <2>3. Drain(r) = [r EXCEPT !.inFlight = f]
    BY <1>1 DEF Drain
  <2>4. f # NoSend
    BY DEF NoSend
  <2> QED BY <1>1, <2>1, <2>2, <2>3, <2>4 DEF QueueRecords, Draining
<1>2. CASE ~(r.buffer # <<>> /\ ~r.disposed /\ r.listener # NoSub)
  <2>1. Drain(r) = [r EXCEPT !.inFlight = NoSend]
    BY <1>2 DEF Drain
  <2>2. NoSend.outcome = "none"
    BY DEF NoSend
  <2> QED BY <1>2, <2>1, <2>2 DEF QueueRecords, Draining
<1> QED BY <1>1, <1>2

\* What holds of a queue whose drain loop is about to look at its buffer.
Ready(r, s, n, b, S, t) ==
  /\ r \in QueueRecords(n, S)
  /\ s \in Seq(1..n)
  /\ Len(r.buffer) <= MaxSize
  /\ r.attempts <= t
  /\ r.disposed => r.listener = NoSub
  /\ ~r.disposed /\ n - b <= MaxSize =>
       /\ Len(s) + Len(r.buffer) = n - b
       /\ \A i \in 1..Len(s) : s[i] = b + i
       /\ \A i \in 1..Len(r.buffer) : r.buffer[i] = b + Len(s) + i

LEMMA DrainKeeps ==
  ASSUME NEW n \in Nat, NEW b \in Nat, NEW S, NEW t \in Nat, NEW r, NEW s,
         Ready(r, s, n, b, S, t)
  PROVE  RecordInv(Drain(r), s, n, b, S, t)
<1> DEFINE d == Drain(r)
<1>1. r \in QueueRecords(n, S)
  BY DEF Ready
<1>2. /\ d \in QueueRecords(n, S)
      /\ d.buffer = r.buffer /\ d.listener = r.listener
      /\ d.attempts = r.attempts /\ d.disposed = r.disposed
      /\ IF r.buffer # <<>> /\ ~r.disposed /\ r.listener # NoSub
         THEN /\ Draining(d)
              /\ d.inFlight.event = r.buffer[1]
              /\ d.inFlight.outcome = "pending"
         ELSE /\ ~Draining(d) /\ d.inFlight.outcome = "none"
  BY <1>1, DrainFacts
<1> HIDE DEF d
<1>3. d.inFlight.outcome \notin {"sent", "failed"}
  BY <1>2
<1>4. Due(d) = 0 /\ d.attempts + Due(d) <= t
  BY <1>1, <1>2, <1>3, RecordFacts DEF Due, Ready
<1>5. Serving(d)
  BY <1>2 DEF Serving
<1>6. Gone(d, s) = Len(s) /\ Len(s) \in Nat
  BY <1>3, LenProperties DEF Gone, Ready
<1>7. ~d.disposed /\ n - b <= MaxSize => Contiguous(d, s, n, b)
  BY <1>2, <1>6 DEF Contiguous, Ready
<1> QED BY <1>2, <1>4, <1>5, <1>7 DEF RecordInv, Ready, d

\* A queue at rest is ready.
LEMMA RestingIsReady ==
  ASSUME NEW n \in Nat, NEW b \in Nat, NEW S, NEW t \in Nat, NEW r, NEW s,
         RecordInv(r, s, n, b, S, t), r.inFlight.outcome # "sent"
  PROVE  Ready(r, s, n, b, S, t)
<1>1. Gone(r, s) = Len(s)
  BY DEF Gone
<1>2. r.attempts \in Nat /\ r.attempts <= t
  BY RecordFacts DEF RecordInv, Due
<1> QED BY <1>1, <1>2 DEF RecordInv, Ready, Contiguous

-------------------------------------------------------------------------------
(* Every method of the queue keeps its invariant.                             *)

LEMMA WiderRecords ==
  ASSUME NEW n \in Nat, NEW m \in Nat, n <= m, NEW S, NEW T, S \subseteq T,
         NEW r \in QueueRecords(n, S)
  PROVE  r \in QueueRecords(m, T)
<1>1. r.buffer \in Seq(1..m)
  <2>1. r.buffer \in Seq(1..n) /\ 1..n \subseteq 1..m
    BY DEF QueueRecords
  <2> QED BY <2>1, SeqMonotonic
<1>2. r.inFlight \in [event : 1..m, sub : T, outcome : {"pending", "sent", "failed"}]
                       \cup {NoSend}
  BY DEF QueueRecords
<1> QED BY <1>1, <1>2 DEF QueueRecords

\* A queue that nothing happens to: others subscribe, and sends of others throw.
LEMMA IdleKeeps ==
  ASSUME NEW n \in Nat, NEW b \in Nat, NEW S, NEW T, S \subseteq T, NEW t \in Nat,
         NEW u \in Nat, t <= u, NEW r, NEW s, RecordInv(r, s, n, b, S, t)
  PROVE  RecordInv(r, s, n, b, T, u)
<1>1. r \in QueueRecords(n, T)
  BY WiderRecords DEF RecordInv
<1>2. r.attempts + Due(r) <= u
  BY RecordFacts DEF RecordInv, Due
<1> QED BY <1>1, <1>2 DEF RecordInv

\* A disposed queue while others are given an event.
LEMMA DisposedKeeps ==
  ASSUME NEW n \in Nat, NEW b \in Nat, NEW S, NEW t \in Nat, NEW r, NEW s,
         RecordInv(r, s, n, b, S, t), r.disposed
  PROVE  RecordInv(r, s, n + 1, b, S, t)
<1>1. r \in QueueRecords(n + 1, S)
  BY WiderRecords DEF RecordInv
<1>2. s \in Seq(1..n + 1)
  BY SeqMonotonic DEF RecordInv
<1> QED BY <1>1, <1>2 DEF RecordInv

LEMMA StartDrainFields ==
  ASSUME NEW n, NEW S, NEW r \in QueueRecords(n, S)
  PROVE  /\ StartDrain(r).listener = r.listener
         /\ StartDrain(r).disposed = r.disposed
BY DrainFacts DEF StartDrain

LEMMA ListenKeeps ==
  ASSUME NEW n \in Nat, NEW b \in Nat, NEW S \in SUBSET Nat, NEW t \in Nat, NEW r, NEW s,
         RecordInv(r, s, n, b, S, t), ~r.disposed, NEW x \in Nat, x \notin S
  PROVE  /\ RecordInv(Listen(r, x), s, n, b, S \cup {x}, t)
         /\ Listen(r, x).listener = x /\ ~Listen(r, x).disposed
<1> DEFINE T == S \cup {x}
           q == [r EXCEPT !.listener = x]
<1>1. r \in QueueRecords(n, T)
  BY WiderRecords DEF RecordInv
<1>2. /\ q \in QueueRecords(n, T) /\ q.listener = x /\ q.disposed = r.disposed
      /\ q.buffer = r.buffer /\ q.inFlight = r.inFlight /\ q.attempts = r.attempts
  BY <1>1 DEF QueueRecords
<1>3. Listen(r, x) = StartDrain(q)
  BY DEF Listen
<1> HIDE DEF q
<1>4. Listen(r, x).listener = x /\ Listen(r, x).disposed = r.disposed
  BY <1>2, <1>3, StartDrainFields
<1>5. Draining(q) <=> Draining(r)
  BY <1>2 DEF Draining
<1>6. CASE Draining(r)
  <2>1. Listen(r, x) = q
    BY <1>3, <1>5, <1>6 DEF StartDrain
  <2>2. r.inFlight.sub \in S
    BY <1>6, RecordFacts DEF RecordInv
  <2>3. Due(q) = 0
    BY <1>2, <2>2 DEF Due, Charged
  <2>4. q.attempts + Due(q) <= t
    BY <1>2, <2>3, RecordFacts DEF RecordInv, Due
  <2>5. Serving(q)
    BY <1>5, <1>6 DEF Serving
  <2>6. Contiguous(r, s, n, b) => Contiguous(q, s, n, b)
    BY <1>2, <1>5 DEF Contiguous, Gone
  <2> QED BY <1>2, <1>4, <2>1, <2>4, <2>5, <2>6 DEF RecordInv
<1>7. CASE ~Draining(r)
  <2>1. r.inFlight.outcome # "sent"
    BY <1>1, <1>7, RecordFacts
  <2>2. Ready(r, s, n, b, S, t)
    BY <2>1, RestingIsReady
  <2>3. Ready(q, s, n, b, T, t)
    BY <1>2, <2>2 DEF Ready
  <2>4. Listen(r, x) = Drain(q)
    BY <1>3, <1>5, <1>7 DEF StartDrain
  <2>5. RecordInv(Drain(q), s, n, b, T, t)
    BY <2>3, DrainKeeps
  <2> QED BY <1>4, <2>4, <2>5
<1> QED BY <1>6, <1>7

LEMMA DetachKeeps ==
  ASSUME NEW n \in Nat, NEW b \in Nat, NEW S \in SUBSET Nat, NEW t \in Nat, NEW r, NEW s,
         RecordInv(r, s, n, b, S, t), NoSub \notin Nat
  PROVE  /\ RecordInv(Detach(r), s, n, b, S, t)
         /\ Detach(r).listener = NoSub /\ Detach(r).disposed = r.disposed
         /\ Detach(r).inFlight = r.inFlight
<1> DEFINE q == Detach(r)
<1>1. /\ q \in QueueRecords(n, S) /\ q.listener = NoSub /\ q.disposed = r.disposed
      /\ q.buffer = r.buffer /\ q.inFlight = r.inFlight /\ q.attempts = r.attempts
  BY DEF QueueRecords, RecordInv, Detach
<1> HIDE DEF q
<1>2. Draining(q) <=> Draining(r)
  BY <1>1 DEF Draining
<1>3. Due(q) = 0
  <2>1. CASE Draining(r)
    BY <1>1, <2>1, RecordFacts DEF Due, Charged, RecordInv
  <2>2. CASE ~Draining(r)
    BY <1>1, <2>2, RecordFacts DEF Due, RecordInv
  <2> QED BY <2>1, <2>2
<1>4. q.attempts + Due(q) <= t
  BY <1>1, <1>3, RecordFacts DEF RecordInv, Due
<1>5. Contiguous(r, s, n, b) => Contiguous(q, s, n, b)
  BY <1>1, <1>2 DEF Contiguous, Gone
<1>6. Serving(q)
  BY <1>1 DEF Serving
<1> QED BY <1>1, <1>2, <1>4, <1>5, <1>6 DEF RecordInv, q

LEMMA DisposeKeeps ==
  ASSUME NEW n \in Nat, NEW b \in Nat, NEW S \in SUBSET Nat, NEW t \in Nat, NEW r, NEW s,
         RecordInv(r, s, n, b, S, t), NoSub \notin Nat
  PROVE  /\ RecordInv(Dispose(r), s, n, b, S, t)
         /\ Dispose(r).listener = NoSub /\ Dispose(r).disposed
         /\ Dispose(r).inFlight = r.inFlight
<1> DEFINE q == Dispose(r)
<1>1. <<>> \in Seq(1..n) /\ Len(<<>>) = 0
  BY EmptySeq
<1>2. /\ q \in QueueRecords(n, S) /\ q.listener = NoSub /\ q.disposed
      /\ q.buffer = <<>> /\ q.inFlight = r.inFlight /\ q.attempts = 0
  BY <1>1 DEF QueueRecords, RecordInv, Dispose
<1> HIDE DEF q
<1>3. Due(q) = 0
  <2>1. CASE Draining(r)
    BY <1>2, <2>1, RecordFacts DEF Due, Charged, RecordInv
  <2>2. CASE ~Draining(r)
    BY <1>2, <2>2, RecordFacts DEF Due, RecordInv
  <2> QED BY <2>1, <2>2
<1>4. MaxSize \in Nat
  BY QueueAssumption
<1> QED BY <1>1, <1>2, <1>3, <1>4 DEF RecordInv, Serving, q

LEMMA EnqueueKeeps ==
  ASSUME NEW n \in Nat, NEW b \in Nat, NEW S \in SUBSET Nat, NEW t \in Nat, NEW r, NEW s,
         RecordInv(r, s, n, b, S, t)
  PROVE  /\ RecordInv(Enqueue(r, n + 1), s, n + 1, b, S, t)
         /\ Enqueue(r, n + 1).listener = r.listener
         /\ Enqueue(r, n + 1).disposed = r.disposed
<1>1. CASE r.disposed
  BY <1>1, DisposedKeeps DEF Enqueue
<1>2. CASE ~r.disposed
  <2> DEFINE e == n + 1
             c == Trimmed(Append(r.buffer, e))
             q == [r EXCEPT !.buffer = c]
  <2>1. r \in QueueRecords(e, S) /\ s \in Seq(1..e)
    <3>1. e \in Nat /\ n <= e /\ 1..n \subseteq 1..e
      OBVIOUS
    <3> QED BY <3>1, WiderRecords, SeqMonotonic DEF RecordInv
  <2>2. e \in 1..e /\ r.buffer \in Seq(1..e) /\ r.buffer \in Seq(1..n)
        /\ Len(r.buffer) <= MaxSize /\ Len(r.buffer) \in Nat
    BY <2>1, LenProperties DEF QueueRecords, RecordInv
  <2>3. /\ c \in Seq(1..e) /\ Len(c) <= MaxSize /\ c # <<>>
        /\ Len(r.buffer) < MaxSize => c = Append(r.buffer, e)
    BY <2>2, TrimmedFacts
  <2> HIDE DEF c
  <2>4. /\ q \in QueueRecords(e, S) /\ q.listener = r.listener /\ q.disposed = r.disposed
        /\ q.buffer = c /\ q.inFlight = r.inFlight /\ q.attempts = r.attempts
    BY <2>1, <2>3 DEF QueueRecords
  <2>5. Enqueue(r, e) = StartDrain(q)
    BY <1>2 DEF Enqueue, c
  <2> HIDE DEF q
  <2>6. Enqueue(r, e).listener = r.listener /\ Enqueue(r, e).disposed = r.disposed
    BY <2>4, <2>5, StartDrainFields
  <2>7. Draining(q) <=> Draining(r)
    BY <2>4 DEF Draining
  <2>8. ASSUME e - b <= MaxSize
        PROVE  Contiguous(r, s, n, b) /\ Contiguous(q, s, e, b)
    <3>1. Contiguous(r, s, n, b) /\ n - b < MaxSize
      BY <1>2, <2>8, QueueAssumption DEF RecordInv
    <3>2. Len(r.buffer) < MaxSize /\ Gone(r, s) \in Nat
      BY <2>2, <3>1, QueueAssumption DEF Contiguous
    <3>3. c = Append(r.buffer, e)
      BY <2>3, <3>2
    <3>4. /\ Len(c) = Len(r.buffer) + 1 /\ c[Len(r.buffer) + 1] = e
          /\ \A k \in 1..Len(r.buffer) : c[k] = r.buffer[k]
      BY <2>2, <3>3, AppendFacts
    <3>5. Gone(q, s) = Gone(r, s)
      BY <2>4 DEF Gone
    <3>6. Gone(q, s) + Len(c) = e - b
      <4>1. Gone(r, s) + Len(r.buffer) = n - b
        BY <3>1 DEF Contiguous
      <4> QED BY <2>2, <3>2, <3>4, <3>5, <4>1
    <3>7. ASSUME NEW i \in 1..Len(c) PROVE c[i] = b + Gone(q, s) + i
      <4>1. CASE i \in 1..Len(r.buffer)
        <5>1. r.buffer[i] = b + Gone(r, s) + i
          BY <3>1, <4>1 DEF Contiguous
        <5> QED BY <3>4, <3>5, <4>1, <5>1
      <4>2. CASE i = Len(r.buffer) + 1
        <5>1. Gone(r, s) + Len(r.buffer) = n - b
          BY <3>1 DEF Contiguous
        <5> QED BY <2>2, <3>2, <3>4, <3>5, <4>2, <5>1
      <4> QED BY <2>2, <3>4, <3>7, <4>1, <4>2
    <3>8. Draining(q) => r.buffer # <<>> /\ c[1] = r.buffer[1] /\ q.inFlight.event = c[1]
      <4>1. r.buffer # <<>> => 1 \in 1..Len(r.buffer)
        BY <2>2, EmptySeq
      <4> QED BY <2>4, <2>7, <3>1, <3>4, <4>1 DEF Contiguous
    <3> QED BY <2>3, <2>4, <3>1, <3>2, <3>5, <3>6, <3>7, <3>8 DEF Contiguous
  <2>9. CASE Draining(r)
    <3>1. Enqueue(r, e) = q
      BY <2>5, <2>7, <2>9 DEF StartDrain
    <3>2. Due(q) = Due(r)
      BY <2>4 DEF Due, Charged
    <3>3. Serving(q)
      BY <2>7, <2>9 DEF Serving
    <3> QED BY <2>1, <2>3, <2>4, <2>6, <2>8, <3>1, <3>2, <3>3 DEF RecordInv
  <2>10. CASE ~Draining(r)
    <3>1. r.inFlight.outcome # "sent" /\ q.inFlight.outcome # "sent"
      BY <2>4, <2>1, <2>10, RecordFacts
    <3>2. Ready(r, s, n, b, S, t)
      BY <3>1, RestingIsReady
    <3>3. Gone(q, s) = Len(s)
      BY <3>1 DEF Gone
    <3>4. Ready(q, s, e, b, S, t)
      BY <2>1, <2>3, <2>4, <2>8, <3>2, <3>3 DEF Ready, Contiguous
    <3>5. RecordInv(Drain(q), s, e, b, S, t)
      BY <3>4, DrainKeeps
    <3>6. Enqueue(r, e) = Drain(q)
      BY <2>5, <2>7, <2>10 DEF StartDrain
    <3> QED BY <2>6, <3>5, <3>6
  <2> QED BY <2>9, <2>10
<1> QED BY <1>1, <1>2 DEF RecordInv, QueueRecords

\* The callback returned or threw.
LEMMA EndedFacts ==
  ASSUME NEW n, NEW S, NEW r \in QueueRecords(n, S), r.inFlight.outcome = "pending",
         NEW o \in {"sent", "failed"}
  PROVE  LET q == Ended(r, o)
         IN  /\ q \in QueueRecords(n, S) /\ q.listener = r.listener
             /\ q.disposed = r.disposed /\ q.buffer = r.buffer /\ q.attempts = r.attempts
             /\ q.inFlight.outcome = o /\ q.inFlight.sub = r.inFlight.sub
             /\ q.inFlight.event = r.inFlight.event
             /\ Draining(r) /\ Draining(q)
<1>1. Draining(r) /\ r.inFlight # NoSend
  BY RecordFacts DEF Draining
<1>2. r.inFlight \in [event : 1..n, sub : S, outcome : {"pending", "sent", "failed"}]
  BY <1>1 DEF QueueRecords
<1> DEFINE f == [r.inFlight EXCEPT !.outcome = o]
<1>3. /\ f \in [event : 1..n, sub : S, outcome : {"pending", "sent", "failed"}]
      /\ f.outcome = o /\ f.sub = r.inFlight.sub /\ f.event = r.inFlight.event
  BY <1>2
<1>4. Ended(r, o) = [r EXCEPT !.inFlight = f]
  BY DEF Ended
<1>5. f # NoSend
  BY <1>3 DEF NoSend
<1> HIDE DEF f
<1> QED BY <1>1, <1>3, <1>4, <1>5 DEF QueueRecords, Draining

LEMMA SentKeeps ==
  ASSUME NEW n \in Nat, NEW b \in Nat, NEW S \in SUBSET Nat, NEW t \in Nat, NEW r, NEW s,
         RecordInv(r, s, n, b, S, t), r.inFlight.outcome = "pending"
  PROVE  RecordInv(Ended(r, "sent"), Append(s, r.inFlight.event), n, b, S, t)
<1> DEFINE q == Ended(r, "sent")
           e == r.inFlight.event
<1>1. r \in QueueRecords(n, S) /\ s \in Seq(1..n)
  BY DEF RecordInv
<1>2. /\ q \in QueueRecords(n, S) /\ q.listener = r.listener
      /\ q.disposed = r.disposed /\ q.buffer = r.buffer /\ q.attempts = r.attempts
      /\ q.inFlight.outcome = "sent" /\ q.inFlight.event = e
      /\ Draining(r) /\ Draining(q)
  BY <1>1, EndedFacts
<1> HIDE DEF q
<1>3. e \in 1..n
  BY <1>1, <1>2, RecordFacts
<1>4. /\ Append(s, e) \in Seq(1..n) /\ Len(Append(s, e)) = Len(s) + 1 /\ Len(s) \in Nat
      /\ \A k \in 1..Len(s) : Append(s, e)[k] = s[k]
      /\ Append(s, e)[Len(s) + 1] = e
  BY <1>1, <1>3, AppendFacts
<1>5. Due(q) = 0
  BY <1>2 DEF Due
<1>6. q.attempts + Due(q) <= t
  BY <1>1, <1>2, <1>5, RecordFacts DEF RecordInv, Due
<1>7. ASSUME ~q.disposed, n - b <= MaxSize PROVE Contiguous(q, Append(s, e), n, b)
  <2>1. Contiguous(r, s, n, b)
    BY <1>2, <1>7 DEF RecordInv
  <2>2. Gone(r, s) = Len(s) /\ Gone(q, Append(s, e)) = Len(s)
    BY <1>2, <1>4 DEF Gone
  <2>3. /\ Len(s) + Len(r.buffer) = n - b
        /\ \A i \in 1..Len(s) : s[i] = b + i
        /\ \A i \in 1..Len(r.buffer) : r.buffer[i] = b + Len(s) + i
        /\ r.buffer # <<>> /\ e = r.buffer[1]
    BY <1>2, <2>1, <2>2 DEF Contiguous
  <2>4. 1 \in 1..Len(r.buffer)
    BY <1>1, <2>3, EmptySeq DEF QueueRecords
  <2>5. e = b + (Len(s) + 1)
    BY <1>4, <2>3, <2>4
  <2>6. ASSUME NEW i \in 1..Len(Append(s, e)) PROVE Append(s, e)[i] = b + i
    <3>1. CASE i \in 1..Len(s)
      BY <1>4, <2>3, <3>1
    <3>2. CASE i = Len(s) + 1
      BY <1>4, <2>5, <3>2
    <3> QED BY <1>4, <2>6, <3>1, <3>2
  <2> QED BY <1>2, <1>4, <2>2, <2>3, <2>6 DEF Contiguous
<1>8. Serving(q)
  BY <1>2 DEF Serving
<1> QED BY <1>2, <1>4, <1>6, <1>7, <1>8 DEF RecordInv, q

\* A throwing send is charged to throws, unless its subscription is gone.
LEMMA FailedKeeps ==
  ASSUME NEW n \in Nat, NEW b \in Nat, NEW S \in SUBSET Nat, NEW t \in Nat, NEW u \in Nat,
         NEW r, NEW s, RecordInv(r, s, n, b, S, t), r.inFlight.outcome = "pending",
         u = t + 1 \/ (u = t /\ r.listener # r.inFlight.sub)
  PROVE  RecordInv(Ended(r, "failed"), s, n, b, S, u)
<1> DEFINE q == Ended(r, "failed")
<1>1. r \in QueueRecords(n, S) /\ s \in Seq(1..n)
  BY DEF RecordInv
<1>2. /\ q \in QueueRecords(n, S) /\ q.listener = r.listener
      /\ q.disposed = r.disposed /\ q.buffer = r.buffer /\ q.attempts = r.attempts
      /\ q.inFlight.outcome = "failed" /\ q.inFlight.sub = r.inFlight.sub
      /\ q.inFlight.event = r.inFlight.event
      /\ Draining(r) /\ Draining(q)
  BY <1>1, EndedFacts
<1> HIDE DEF q
<1>3. r.attempts <= t /\ r.attempts \in Nat
  BY <1>1, RecordFacts DEF RecordInv, Due
<1>4. q.attempts + Due(q) <= u
  BY <1>2, <1>3 DEF Due, Charged
<1>5. Gone(q, s) = Gone(r, s)
  BY <1>2 DEF Gone
<1>6. Contiguous(r, s, n, b) => Contiguous(q, s, n, b)
  BY <1>2, <1>5 DEF Contiguous
<1>7. Serving(q)
  BY <1>2 DEF Serving
<1> QED BY <1>2, <1>4, <1>6, <1>7 DEF RecordInv, q

LEMMA DropHeadReady ==
  ASSUME NEW n \in Nat, NEW b \in Nat, NEW S \in SUBSET Nat, NEW t \in Nat, NEW r, NEW s,
         RecordInv(r, s, n, b, S, t), r.inFlight.outcome = "sent"
  PROVE  /\ Ready(DropHead(r), s, n, b, S, t)
         /\ DropHead(r).listener = r.listener /\ DropHead(r).disposed = r.disposed
<1> DEFINE c == IF r.buffer = <<>> THEN r.buffer ELSE Tail(r.buffer)
           q == DropHead(r)
<1>1. /\ r \in QueueRecords(n, S) /\ s \in Seq(1..n) /\ r.buffer \in Seq(1..n)
      /\ Len(r.buffer) \in Nat /\ Len(s) \in Nat /\ Len(r.buffer) <= MaxSize
  BY LenProperties DEF RecordInv, QueueRecords
<1>2. c \in Seq(1..n) /\ Len(c) <= MaxSize
  <2>1. r.buffer # <<>> => Tail(r.buffer) \in Seq(1..n) /\ Len(Tail(r.buffer)) = Len(r.buffer) - 1
    BY <1>1, TailFacts
  <2> QED BY <1>1, <2>1, QueueAssumption
<1>3. q = [r EXCEPT !.buffer = c, !.attempts = 0]
  BY DEF DropHead
<1> HIDE DEF c, q
<1>4. /\ q \in QueueRecords(n, S) /\ q.listener = r.listener /\ q.disposed = r.disposed
      /\ q.buffer = c /\ q.attempts = 0
  BY <1>1, <1>2, <1>3 DEF QueueRecords
<1>5. ASSUME ~q.disposed, n - b <= MaxSize
      PROVE  /\ Len(s) + Len(c) = n - b
             /\ \A i \in 1..Len(s) : s[i] = b + i
             /\ \A i \in 1..Len(c) : c[i] = b + Len(s) + i
  <2>1. Contiguous(r, s, n, b) /\ Draining(r)
    BY <1>1, <1>4, <1>5, RecordFacts DEF RecordInv
  <2>2. Gone(r, s) = Len(s) - 1
    BY DEF Gone
  <2>3. /\ Len(s) - 1 + Len(r.buffer) = n - b
        /\ \A i \in 1..Len(s) : s[i] = b + i
        /\ \A i \in 1..Len(r.buffer) : r.buffer[i] = b + (Len(s) - 1) + i
        /\ r.buffer # <<>>
    BY <2>1, <2>2 DEF Contiguous
  <2>4. c = Tail(r.buffer)
    BY <2>3 DEF c
  <2>5. Len(c) = Len(r.buffer) - 1 /\ \A k \in 1..Len(r.buffer) - 1 : c[k] = r.buffer[k + 1]
    BY <1>1, <2>3, <2>4, TailFacts
  <2>6. ASSUME NEW i \in 1..Len(c) PROVE c[i] = b + Len(s) + i
    <3>0. i \in 1..Len(r.buffer) - 1
      BY <2>5, <2>6
    <3>1. i + 1 \in 1..Len(r.buffer) /\ c[i] = r.buffer[i + 1]
      BY <1>1, <2>5, <3>0
    <3>2. r.buffer[i + 1] = b + (Len(s) - 1) + (i + 1)
      BY <2>3, <3>1
    <3> QED BY <1>1, <3>1, <3>2
  <2> QED BY <1>1, <2>3, <2>5, <2>6
<1> QED BY <1>1, <1>2, <1>4, <1>5 DEF Ready, RecordInv, q

LEMMA ResumeKeeps ==
  ASSUME NEW n \in Nat, NEW b \in Nat, NEW S \in SUBSET Nat, NEW t \in Nat,
         t <= MaxAttempts - 1, NEW r, NEW s, RecordInv(r, s, n, b, S, t),
         r.inFlight.outcome \in {"sent", "failed"}
  PROVE  /\ RecordInv(Resume(r), s, n, b, S, t)
         /\ Resume(r).listener = r.listener /\ Resume(r).disposed = r.disposed
<1>1. r \in QueueRecords(n, S) /\ s \in Seq(1..n) /\ r.attempts \in Nat
  BY RecordFacts DEF RecordInv
<1>2. CASE r.inFlight.outcome = "sent"
  <2>1. Resume(r) = Drain(DropHead(r))
    BY <1>2 DEF Resume
  <2>2. /\ Ready(DropHead(r), s, n, b, S, t)
        /\ DropHead(r).listener = r.listener /\ DropHead(r).disposed = r.disposed
    BY <1>2, DropHeadReady
  <2> DEFINE q == DropHead(r)
  <2> HIDE DEF q
  <2>3. RecordInv(Drain(q), s, n, b, S, t)
    BY <2>2, DrainKeeps DEF q
  <2>4. Drain(q).listener = q.listener /\ Drain(q).disposed = q.disposed
    BY <2>2, DrainFacts DEF Ready, q
  <2> QED BY <2>1, <2>2, <2>3, <2>4 DEF q
<1>3. CASE r.inFlight.outcome = "failed" /\ ~Charged(r)
  <2>1. Resume(r) = Drain(r)
    BY <1>3 DEF Resume
  <2>2. Ready(r, s, n, b, S, t)
    BY <1>1, <1>3, RestingIsReady
  <2>3. RecordInv(Drain(r), s, n, b, S, t)
    BY <2>2, DrainKeeps
  <2>4. Drain(r).listener = r.listener /\ Drain(r).disposed = r.disposed
    BY <1>1, DrainFacts
  <2> QED BY <2>1, <2>3, <2>4
<1>4. CASE r.inFlight.outcome = "failed" /\ Charged(r)
  <2> DEFINE a == r.attempts + 1
             q == [r EXCEPT !.attempts = a, !.inFlight = NoSend]
  <2>0. a \in Nat
    BY <1>1
  <2>1. r.attempts + 1 <= t
    BY <1>1, <1>4 DEF RecordInv, Due
  <2>2. ~IsPoison(r)
    BY <1>1, <2>1, QueueAssumption DEF IsPoison
  <2>3. Resume(r) = q
    BY <1>4, <2>2 DEF Resume
  <2>4. /\ q \in QueueRecords(n, S) /\ q.listener = r.listener /\ q.disposed = r.disposed
        /\ q.buffer = r.buffer /\ q.attempts = a /\ q.inFlight = NoSend
    BY <1>1, <2>0 DEF QueueRecords
  <2> HIDE DEF q
  <2>5. q.inFlight.outcome = "none" /\ ~Draining(q)
    BY <2>4 DEF NoSend, Draining
  <2>6. Ready(r, s, n, b, S, t)
    BY <1>1, <1>4, RestingIsReady
  <2>7. Due(q) = 0 /\ Gone(q, s) = Len(s) /\ Len(s) \in Nat /\ Serving(q)
    BY <1>1, <2>4, <2>5, LenProperties DEF Due, Gone, Serving
  <2>8. ~q.disposed /\ n - b <= MaxSize => Contiguous(q, s, n, b)
    BY <2>4, <2>5, <2>6, <2>7 DEF Ready, Contiguous
  <2> QED BY <1>1, <2>1, <2>3, <2>4, <2>6, <2>7, <2>8 DEF RecordInv, Ready
<1> QED BY <1>2, <1>3, <1>4

-------------------------------------------------------------------------------
(* Where the queues are.                                                      *)

SubsOf(m) == {s \in Subs : subs[s].mode = m}

\* Every queue made keeps its own invariant, and listens only to its mode.
RecordsKept ==
  \A q \in Made :
    RecordInv(queue[q], sent[q], events, born[q], SubsOf(modes[q]), throws)

Unmade == \A q \in Queues \ Made : queue[q] = EmptyQueue /\ sent[q] = <<>>

Typed ==
  /\ queue = [q \in Queues |-> queue[q]] /\ sent = [q \in Queues |-> sent[q]]
  /\ modes \in Seq(Modes) /\ Len(modes) <= MaxQueues
  /\ born \in Seq(Nat) /\ Len(born) = Len(modes)
  /\ subs \in Seq([conn : Conns, link : 1..link, mode : Modes])
  /\ subscriber \in [Conns -> Queues \cup {NoQueue}]
  /\ subscription \in [Conns -> Subs \cup {NoSub}]
  /\ orphans \in Seq(Queues) /\ expired \in 0..Len(orphans)
  /\ link \in Nat \ {0} /\ events \in Nat /\ throws \in 0..MaxThrows

\* The queue of a subscribed connection listens to it.
Serves(c) ==
  /\ subscriber[c] \in Made
  /\ queue[subscriber[c]].listener = subscription[c]
  /\ ~queue[subscriber[c]].disposed
  /\ subs[subscription[c]].conn = c

Waits(q) == q \in Made /\ queue[q].listener = NoSub /\ ~queue[q].disposed

Placed ==
  /\ \A c \in Conns : subscriber[c] = NoQueue <=> subscription[c] = NoSub
  /\ \A c \in Subscribed : Serves(c)
  /\ \A i \in DOMAIN orphans : Waits(orphans[i])
  /\ \A i, j \in DOMAIN orphans : orphans[i] = orphans[j] => i = j
  /\ \A q \in Made : queue[q].disposed \/ q \in Attached \/ q \in ToSet(orphans)

SseInv == Typed /\ RecordsKept /\ Unmade /\ Placed

LEMMA Facts ==
  ASSUME Typed
  PROVE  /\ Made = 1..Len(modes) /\ Len(modes) \in Nat /\ Made \subseteq Queues
         /\ \A q \in Made : modes[q] \in Modes /\ born[q] \in Nat
         /\ DOMAIN born = Made
         /\ Subs = 1..Len(subs) /\ Len(subs) \in Nat
         /\ Subs \subseteq Nat /\ NoSub \notin Nat /\ NoQueue \notin Nat
         /\ Queues \subseteq Nat
         /\ \A s \in Subs : subs[s].conn \in Conns /\ subs[s].mode \in Modes
                              /\ subs[s].link \in 1..link
         /\ \A m : SubsOf(m) \in SUBSET Nat /\ SubsOf(m) \subseteq Subs
         /\ throws \in Nat /\ throws <= MaxAttempts - 1
         /\ Len(orphans) \in Nat /\ DOMAIN orphans = 1..Len(orphans)
<1>1. /\ DOMAIN modes = 1..Len(modes) /\ Len(modes) \in Nat /\ MaxQueues \in Nat
      /\ modes \in [1..Len(modes) -> Modes]
  BY LenProperties, SseAssumption DEF Typed
<1>2. 1..Len(modes) \subseteq 1..MaxQueues
  BY <1>1 DEF Typed
<1>3. DOMAIN born = 1..Len(modes) /\ born \in [1..Len(modes) -> Nat]
  BY LenProperties DEF Typed
<1>4. /\ DOMAIN subs = 1..Len(subs) /\ Len(subs) \in Nat
      /\ subs \in [1..Len(subs) -> [conn : Conns, link : 1..link, mode : Modes]]
  BY LenProperties DEF Typed
<1>5. throws \in Nat /\ throws <= MaxAttempts - 1
  BY SseAssumption, QueueAssumption DEF Typed
<1>6. Len(orphans) \in Nat /\ DOMAIN orphans = 1..Len(orphans)
  BY LenProperties DEF Typed
<1>7. 1..Len(subs) \subseteq Nat /\ 1..MaxQueues \subseteq Nat
  BY <1>1, <1>4
<1> QED BY <1>1, <1>2, <1>3, <1>4, <1>5, <1>6, <1>7, SseAssumption
        DEF Made, Subs, SubsOf, Queues

LEMMA HoldersDiffer ==
  ASSUME Typed, Placed, NEW c \in Subscribed, NEW d \in Subscribed,
         subscriber[c] = subscriber[d]
  PROVE  c = d
<1>1. subscription[c] = subscription[d]
  BY DEF Placed, Serves
<1> QED BY <1>1 DEF Placed, Serves

LEMMA AttachedFacts ==
  ASSUME Typed, Placed
  PROVE  /\ Attached = {subscriber[c] : c \in Subscribed}
         /\ \A q \in Attached : /\ q \in Made /\ ~queue[q].disposed
                                /\ queue[q].listener # NoSub
         /\ \A c \in Subscribed : subscription[c] \in Subs /\ subscriber[c] \in Attached
<1>1. \A c \in Conns : c \in Subscribed <=> subscriber[c] # NoQueue
  BY DEF Placed, Subscribed
<1>2. \A c \in Subscribed : c \in Conns /\ subscription[c] \in Subs /\ subscription[c] # NoSub
  BY DEF Typed, Subscribed
<1>3. Attached = {subscriber[c] : c \in Subscribed}
  BY <1>1, <1>2 DEF Attached
<1>4. \A c \in Subscribed : Serves(c)
  BY DEF Placed
<1> QED BY <1>2, <1>3, <1>4 DEF Serves

LEMMA OrphanFacts ==
  ASSUME Typed, Placed
  PROVE  /\ LiveOrphans \in Seq(Queues)
         /\ Len(LiveOrphans) = Len(orphans) - expired /\ Len(LiveOrphans) \in Nat
         /\ DOMAIN LiveOrphans = 1..Len(LiveOrphans)
         /\ \A i \in DOMAIN LiveOrphans :
              expired + i \in DOMAIN orphans /\ LiveOrphans[i] = orphans[expired + i]
         /\ \A i, j \in DOMAIN LiveOrphans : LiveOrphans[i] = LiveOrphans[j] => i = j
         /\ \A q : q \in ToSet(orphans) <=> q \in Expired \/ q \in ToSet(LiveOrphans)
         /\ \A q \in Expired : q \notin ToSet(LiveOrphans)
         /\ \A q \in ToSet(orphans) : Waits(q) /\ q \notin Attached
<1>1. /\ orphans \in Seq(Queues) /\ Len(orphans) \in Nat /\ DOMAIN orphans = 1..Len(orphans)
      /\ expired \in 0..Len(orphans) /\ \A i \in 1..Len(orphans) : orphans[i] \in Queues
  BY LenProperties DEF Typed
<1> DEFINE n == Len(orphans)
           lo == LiveOrphans
<1>2. \A i \in expired + 1..n : orphans[i] \in Queues
  BY <1>1
<1>3. /\ lo \in Seq(Queues)
      /\ Len(lo) = IF expired + 1 <= n THEN n - (expired + 1) + 1 ELSE 0
      /\ \A i \in 1..n - (expired + 1) + 1 : lo[i] = orphans[expired + 1 + i - 1]
  <2>1. expired + 1 \in Int /\ n \in Int
    BY <1>1
  <2> QED BY <1>2, <2>1, SubSeqProperties DEF LiveOrphans
<1> HIDE DEF lo
<1>4. Len(lo) = n - expired /\ Len(lo) \in Nat /\ DOMAIN lo = 1..Len(lo)
  BY <1>1, <1>3, LenProperties
<1>5. ASSUME NEW i \in DOMAIN lo
      PROVE  expired + i \in DOMAIN orphans /\ lo[i] = orphans[expired + i]
  <2>1. i \in 1..n - (expired + 1) + 1 /\ expired + 1 + i - 1 = expired + i
    BY <1>1, <1>4, <1>5
  <2>2. lo[i] = orphans[expired + i]
    BY <1>3, <2>1
  <2>3. expired + i \in 1..n
    BY <1>1, <2>1
  <2> QED BY <1>1, <2>2, <2>3
<1>6. ASSUME NEW i \in DOMAIN lo, NEW j \in DOMAIN lo, lo[i] = lo[j] PROVE i = j
  <2>1. expired + i = expired + j
    BY <1>5, <1>6 DEF Placed
  <2> QED BY <1>1, <1>4, <2>1
<1>7. ASSUME NEW q PROVE q \in ToSet(orphans) <=> q \in Expired \/ q \in ToSet(lo)
  <2>1. ASSUME q \in ToSet(orphans) PROVE q \in Expired \/ q \in ToSet(lo)
    <3>1. PICK k \in DOMAIN orphans : q = orphans[k]
      BY <2>1 DEF ToSet
    <3>2. CASE k <= expired
      BY <1>1, <3>1, <3>2 DEF Expired
    <3>3. CASE k > expired
      <4>1. k - expired \in DOMAIN lo /\ expired + (k - expired) = k
        BY <1>1, <1>4, <3>1, <3>3
      <4> QED BY <1>5, <3>1, <4>1 DEF ToSet
    <3> QED BY <1>1, <3>1, <3>2, <3>3
  <2>2. q \in Expired => q \in ToSet(orphans)
    BY <1>1 DEF Expired, ToSet
  <2>3. q \in ToSet(lo) => q \in ToSet(orphans)
    BY <1>5 DEF ToSet
  <2> QED BY <2>1, <2>2, <2>3
<1>8. ASSUME NEW q \in Expired PROVE q \notin ToSet(lo)
  <2> SUFFICES ASSUME NEW j \in DOMAIN lo, lo[j] = q PROVE FALSE
    BY DEF ToSet
  <2>1. PICK i \in 1..expired : q = orphans[i]
    BY <1>8 DEF Expired
  <2>2. i \in DOMAIN orphans
    BY <1>1, <2>1
  <2>3. i = expired + j
    BY <1>5, <2>1, <2>2 DEF Placed
  <2> QED BY <1>1, <1>4, <2>1, <2>3
<1>9. ASSUME NEW q \in ToSet(orphans) PROVE Waits(q) /\ q \notin Attached
  <2>1. Waits(q)
    BY <1>9 DEF ToSet, Placed
  <2> QED BY <2>1, AttachedFacts DEF Waits
<1> QED BY <1>3, <1>4, <1>5, <1>6, <1>7, <1>8, <1>9 DEF lo

\* What an orphaning of the connections C makes of the list of orphans.
LEMMA OrphanPlaces ==
  ASSUME Typed, Placed, NEW C \in SUBSET Subscribed, Orphan(C)
  PROVE  /\ orphans' \in Seq(Queues) /\ expired' \in 0..Len(orphans')
         /\ \A q : q \in ToSet(orphans') <=> q \in ToSet(orphans) \/ \E c \in C : q = subscriber[c]
         /\ \A i, j \in DOMAIN orphans' : orphans'[i] = orphans'[j] => i = j
<1> DEFINE k == Cardinality(C)
           n == Len(orphans)
<1>1. k \in Nat
  <2>1. C \subseteq Conns
    BY DEF Subscribed
  <2>2. IsFiniteSet(C)
    BY <2>1, SseAssumption, FS_Subset
  <2> QED BY <2>2, FS_CardinalityType
<1>2. PICK ordered \in [1..k -> C] :
        /\ ToSet(ordered) = C
        /\ \A i, j \in DOMAIN ordered :
             i < j => subscription[ordered[i]] < subscription[ordered[j]]
        /\ orphans' = orphans \o [i \in DOMAIN ordered |-> subscriber[ordered[i]]]
  BY DEF Orphan
<1> DEFINE added == [i \in 1..k |-> subscriber[ordered[i]]]
<1> HIDE DEF k
<1>3. \A c \in C : subscriber[c] \in Queues /\ subscriber[c] \in Attached
                     /\ subscription[c] \in Nat /\ c \in Subscribed
  BY AttachedFacts, Facts
<1>4. added \in [1..k -> Queues]
  BY <1>2, <1>3
<1>5. added \in Seq(Queues) /\ Len(added) = k
  <2>1. added \in Seq(Queues)
    BY <1>1, <1>4, SeqDef
  <2> QED BY <1>1, <1>4, <2>1, LenProperties
<1>6. orphans' = orphans \o added /\ \A i \in 1..k : added[i] = subscriber[ordered[i]]
  BY <1>2
<1> HIDE DEF added
<1>7. /\ orphans \in Seq(Queues) /\ n \in Nat /\ DOMAIN orphans = 1..n /\ expired \in 0..n
  BY Facts DEF Typed
<1>8. /\ orphans' \in Seq(Queues) /\ Len(orphans') = n + k
      /\ \A i \in 1..n + k : orphans'[i] = IF i <= n THEN orphans[i] ELSE added[i - n]
  BY <1>5, <1>6, <1>7, ConcatProperties
<1>9. DOMAIN orphans' = 1..n + k
  BY <1>8, LenProperties
<1>10. \A i \in 1..n : i \in 1..n + k /\ orphans'[i] = orphans[i]
  BY <1>1, <1>7, <1>8
<1>11. ASSUME NEW i \in 1..k PROVE n + i \in 1..n + k /\ orphans'[n + i] = added[i]
  <2>1. n + i \in 1..n + k /\ ~(n + i <= n) /\ (n + i) - n = i
    BY <1>1, <1>7, <1>11
  <2>2. orphans'[n + i] = added[(n + i) - n]
    BY <1>8, <2>1
  <2> QED BY <2>1, <2>2
<1>12. \A i \in 1..n + k : i \in 1..n \/ (i - n \in 1..k /\ i = n + (i - n))
  BY <1>1, <1>7
<1>13. ASSUME NEW q
       PROVE  q \in ToSet(orphans') <=> q \in ToSet(orphans) \/ \E c \in C : q = subscriber[c]
  <2>1. ASSUME q \in ToSet(orphans')
        PROVE  q \in ToSet(orphans) \/ \E c \in C : q = subscriber[c]
    <3>1. PICK i \in 1..n + k : q = orphans'[i]
      BY <1>9, <2>1 DEF ToSet
    <3>2. CASE i \in 1..n
      BY <1>7, <1>10, <3>1, <3>2 DEF ToSet
    <3>3. CASE i - n \in 1..k /\ i = n + (i - n)
      <4>1. q = subscriber[ordered[i - n]] /\ ordered[i - n] \in C
        BY <1>2, <1>6, <1>11, <3>1, <3>3
      <4> QED BY <4>1
    <3> QED BY <1>12, <3>2, <3>3
  <2>2. q \in ToSet(orphans) => q \in ToSet(orphans')
    BY <1>7, <1>9, <1>10 DEF ToSet
  <2>3. ASSUME NEW c \in C, q = subscriber[c] PROVE q \in ToSet(orphans')
    <3>1. PICK i \in 1..k : c = ordered[i]
      BY <1>2 DEF ToSet
    <3>2. orphans'[n + i] = q
      BY <1>6, <1>11, <2>3, <3>1
    <3> QED BY <1>9, <1>11, <3>2 DEF ToSet
  <2> QED BY <2>1, <2>2, <2>3
<1>14. ASSUME NEW i \in 1..k, NEW j \in 1..k, added[i] = added[j] PROVE i = j
  <2>1. ordered[i] = ordered[j]
    BY <1>2, <1>3, <1>6, <1>14, HoldersDiffer
  <2>2. ~(i < j) /\ ~(j < i)
    <3>1. DOMAIN ordered = 1..k /\ ordered[i] \in C
      BY <1>2
    <3>2. subscription[ordered[i]] \in Nat /\ subscription[ordered[j]] = subscription[ordered[i]]
      BY <1>3, <2>1, <3>1
    <3>3. i < j => subscription[ordered[i]] < subscription[ordered[j]]
      BY <1>2, <3>1
    <3>4. j < i => subscription[ordered[j]] < subscription[ordered[i]]
      BY <1>2, <3>1
    <3> QED BY <3>2, <3>3, <3>4
  <2> QED BY <2>2
<1>15. ASSUME NEW i \in DOMAIN orphans', NEW j \in DOMAIN orphans', orphans'[i] = orphans'[j]
       PROVE  i = j
  <2>1. \A x \in 1..n, y \in 1..k : orphans[x] # added[y]
    <3> SUFFICES ASSUME NEW x \in 1..n, NEW y \in 1..k PROVE orphans[x] # added[y]
      OBVIOUS
    <3>1. orphans[x] \in ToSet(orphans)
      BY <1>7 DEF ToSet
    <3>2. added[y] \in Attached
      BY <1>2, <1>3, <1>6
    <3> QED BY <3>1, <3>2, OrphanFacts
  <2>2. CASE i \in 1..n /\ j \in 1..n
    BY <1>7, <1>10, <1>15, <2>2 DEF Placed
  <2>3. CASE i \in 1..n /\ j \notin 1..n
    BY <1>9, <1>10, <1>11, <1>12, <1>15, <2>1, <2>3
  <2>4. CASE i \notin 1..n /\ j \in 1..n
    BY <1>9, <1>10, <1>11, <1>12, <1>15, <2>1, <2>4
  <2>5. CASE i \notin 1..n /\ j \notin 1..n
    <3>1. /\ i - n \in 1..k /\ i = n + (i - n)
          /\ j - n \in 1..k /\ j = n + (j - n)
      BY <1>9, <1>12, <2>5
    <3>2. added[i - n] = added[j - n]
      BY <1>11, <1>15, <3>1
    <3>3. i - n = j - n
      BY <1>14, <3>1, <3>2
    <3> QED BY <3>1, <3>3
  <2> QED BY <2>2, <2>3, <2>4, <2>5
<1>16. expired' \in 0..Len(orphans')
  <2>1. expired' = expired
    BY DEF Orphan
  <2> QED BY <1>1, <1>7, <1>8, <2>1
<1> QED BY <1>8, <1>13, <1>15, <1>16

\* A set of places has a first one.
LEMMA LeastIndex ==
  ASSUME NEW I \in SUBSET Nat, I # {}
  PROVE  Min(I) \in I /\ \A i \in I : Min(I) <= i
<1>1. PICK m \in I : \A i \in I : ~(<<i, m>> \in OpToRel(<, Nat))
  BY NatLessThanWellFounded, WFMin
<1>2. \A i \in I : m <= i
  <2> SUFFICES ASSUME NEW i \in I PROVE m <= i
    OBVIOUS
  <2>1. <<i, m>> \in Nat \X Nat
    OBVIOUS
  <2>2. ~(i < m)
    BY <1>1, <2>1 DEF OpToRel
  <2> QED BY <2>2
<1> QED BY <1>2 DEF Min

\* _popValidOrphan returns a live orphan of the mode, unless there is none.
LEMMA OldestOrphanFacts ==
  ASSUME Typed, Placed, NEW m, OldestOrphan(m) > 0
  PROVE  /\ OldestOrphan(m) \in 1..Len(LiveOrphans)
         /\ modes[LiveOrphans[OldestOrphan(m)]] = m
<1> DEFINE I == {i \in 1..Len(LiveOrphans) : modes[LiveOrphans[i]] = m}
<1>1. OldestOrphan(m) = IF I # {} THEN Min(I) ELSE 0
  BY DEF OldestOrphan, SelectInSeq
<1> HIDE DEF I
<1>2. I \in SUBSET Nat
  BY OrphanFacts DEF I
<1>3. OldestOrphan(m) \in I
  BY <1>1, <1>2, LeastIndex
<1> QED BY <1>3 DEF I

LEMMA RemoveAtFacts ==
  ASSUME NEW T, NEW s \in Seq(T), NEW k \in 1..Len(s),
         \A i, j \in DOMAIN s : s[i] = s[j] => i = j
  PROVE  /\ RemoveAt(s, k) \in Seq(T)
         /\ \A q : q \in ToSet(RemoveAt(s, k)) <=> q \in ToSet(s) /\ q # s[k]
         /\ \A i, j \in DOMAIN RemoveAt(s, k) : RemoveAt(s, k)[i] = RemoveAt(s, k)[j] => i = j
<1> DEFINE n == Len(s)
           r == RemoveAt(s, k)
           u == SubSeq(s, 1, k - 1)
           v == SubSeq(s, k + 1, n)
<1>1. n \in Nat /\ DOMAIN s = 1..n /\ \A i \in 1..n : s[i] \in T
  BY LenProperties
<1>2. k \in 1..n /\ k \in Nat
  BY <1>1
<1> HIDE DEF n
<1>3. /\ u \in Seq(T) /\ Len(u) = k - 1
      /\ \A i \in 1..k - 1 : u[i] = s[i]
  <2>1. \A i \in 1..k - 1 : s[i] \in T
    BY <1>1, <1>2
  <2>2. 1 \in Int /\ k - 1 \in Int
    BY <1>2
  <2>3. /\ u \in Seq(T) /\ Len(u) = IF 1 <= k - 1 THEN k - 1 - 1 + 1 ELSE 0
        /\ \A i \in 1..k - 1 - 1 + 1 : u[i] = s[1 + i - 1]
    BY <2>1, <2>2, SubSeqProperties
  <2> HIDE DEF u
  <2>4. Len(u) = k - 1
    BY <1>2, <2>3
  <2>5. ASSUME NEW i \in 1..k - 1 PROVE u[i] = s[i]
    <3>1. i \in 1..k - 1 - 1 + 1 /\ 1 + i - 1 = i
      BY <1>2, <2>5
    <3> QED BY <2>3, <3>1
  <2> QED BY <2>3, <2>4, <2>5
<1>4. /\ v \in Seq(T) /\ Len(v) = n - k
      /\ \A i \in 1..n - k : v[i] = s[k + i]
  <2>1. \A i \in k + 1..n : s[i] \in T
    BY <1>1, <1>2
  <2>2. k + 1 \in Int /\ n \in Int
    BY <1>1, <1>2
  <2>3. /\ v \in Seq(T) /\ Len(v) = IF k + 1 <= n THEN n - (k + 1) + 1 ELSE 0
        /\ \A i \in 1..n - (k + 1) + 1 : v[i] = s[k + 1 + i - 1]
    BY <2>1, <2>2, SubSeqProperties
  <2> HIDE DEF v
  <2>4. Len(v) = n - k
    <3>1. k + 1 <= n => n - (k + 1) + 1 = n - k
      BY <1>1, <1>2
    <3>2. k + 1 <= n \/ n = k
      BY <1>1, <1>2
    <3>3. n = k => ~(k + 1 <= n) /\ n - k = 0
      BY <1>1, <1>2
    <3> QED BY <2>3, <3>1, <3>2, <3>3
  <2>5. ASSUME NEW i \in 1..n - k PROVE v[i] = s[k + i]
    <3>1. i \in 1..n - (k + 1) + 1 /\ k + 1 + i - 1 = k + i
      BY <1>1, <1>2, <2>5
    <3> QED BY <2>3, <3>1
  <2> QED BY <2>3, <2>4, <2>5
<1>5. r = u \o v
  BY DEF RemoveAt, n
<1> HIDE DEF r, u, v
<1>6. /\ r \in Seq(T) /\ Len(r) = (k - 1) + (n - k)
      /\ \A i \in 1..(k - 1) + (n - k) : r[i] = IF i <= k - 1 THEN u[i] ELSE v[i - (k - 1)]
  <2>1. /\ r \in Seq(T) /\ Len(r) = Len(u) + Len(v)
        /\ \A i \in 1..Len(u) + Len(v) : r[i] = IF i <= Len(u) THEN u[i] ELSE v[i - Len(u)]
    BY <1>3, <1>4, <1>5, ConcatProperties
  <2>2. Len(u) = k - 1 /\ Len(v) = n - k
    BY <1>3, <1>4
  <2> QED BY <2>1, <2>2
<1>7. DOMAIN r = 1..n - 1
  BY <1>1, <1>2, <1>6, LenProperties
<1> DEFINE from(i) == IF i < k THEN i ELSE i + 1
<1>8. ASSUME NEW i \in 1..n - 1 PROVE from(i) \in 1..n /\ from(i) # k /\ r[i] = s[from(i)]
  <2>1. i \in 1..(k - 1) + (n - k)
    BY <1>1, <1>2, <1>8
  <2>2. CASE i < k
    <3>1. i <= k - 1 /\ i \in 1..k - 1
      BY <1>2, <1>8, <2>2
    <3> QED BY <1>1, <1>2, <1>3, <1>6, <1>8, <2>1, <2>2, <3>1
  <2>3. CASE ~(i < k)
    <3>1. ~(i <= k - 1) /\ i - (k - 1) \in 1..n - k /\ k + (i - (k - 1)) = i + 1
      BY <1>1, <1>2, <1>8, <2>3
    <3>2. r[i] = v[i - (k - 1)]
      BY <1>6, <2>1, <3>1
    <3>3. r[i] = s[i + 1]
      BY <1>4, <3>1, <3>2
    <3> QED BY <1>1, <1>2, <1>8, <2>3, <3>3
  <2> QED BY <2>2, <2>3
<1>9. ASSUME NEW q PROVE q \in ToSet(r) <=> q \in ToSet(s) /\ q # s[k]
  <2>1. ASSUME q \in ToSet(r) PROVE q \in ToSet(s) /\ q # s[k]
    <3>1. PICK i \in 1..n - 1 : q = r[i]
      BY <1>7, <2>1 DEF ToSet
    <3>2. from(i) \in DOMAIN s /\ from(i) # k /\ q = s[from(i)] /\ k \in DOMAIN s
      BY <1>1, <1>2, <1>8, <3>1
    <3> HIDE DEF from
    <3> QED BY <3>2 DEF ToSet
  <2>2. ASSUME q \in ToSet(s), q # s[k] PROVE q \in ToSet(r)
    <3>1. PICK j \in 1..n : q = s[j]
      BY <1>1, <2>2 DEF ToSet
    <3>2. j # k
      BY <2>2, <3>1
    <3>3. PICK i \in 1..n - 1 : from(i) = j
      <4>1. CASE j < k
        <5>1. j \in 1..n - 1 /\ from(j) = j
          BY <1>1, <1>2, <4>1
        <5> QED BY <5>1
      <4>2. CASE j > k
        <5>1. j - 1 \in 1..n - 1 /\ from(j - 1) = j
          BY <1>1, <1>2, <4>2
        <5> QED BY <5>1
      <4> QED BY <1>1, <1>2, <3>2, <4>1, <4>2
    <3>4. r[i] = q
      BY <1>8, <3>1, <3>3
    <3> QED BY <1>7, <3>4 DEF ToSet
  <2> QED BY <2>1, <2>2
<1>10. ASSUME NEW i \in DOMAIN r, NEW j \in DOMAIN r, r[i] = r[j] PROVE i = j
  <2>1. from(i) \in DOMAIN s /\ from(j) \in DOMAIN s /\ s[from(i)] = s[from(j)]
    BY <1>1, <1>7, <1>8, <1>10
  <2>2. from(i) = from(j)
    <3> HIDE DEF from
    <3> QED BY <2>1
  <2> QED BY <1>2, <1>7, <1>10, <2>2
<1> QED BY <1>6, <1>9, <1>10 DEF r, n

-------------------------------------------------------------------------------
(* Steps that leave every queue where it is.                                  *)

LEMMA SamePlaces ==
  ASSUME Typed, Placed, UNCHANGED <<modes, subs, subscriber, subscription, orphans>>,
         \A p \in Made : /\ queue'[p].listener = queue[p].listener
                         /\ queue'[p].disposed = queue[p].disposed
  PROVE  Placed'
<1>1. Made' = Made /\ Subscribed' = Subscribed /\ Attached' = Attached
  BY DEF Made, Subscribed, Attached
<1>2. \A c \in Subscribed : Serves(c)'
  BY DEF Placed, Serves, Made
<1>3. \A i \in DOMAIN orphans : Waits(orphans[i])'
  BY DEF Placed, Waits, Made
<1>4. \A q \in Made : queue'[q].disposed \/ q \in Attached \/ q \in ToSet(orphans)
  BY DEF Placed
<1>5. ToSet(orphans') = ToSet(orphans)
  OBVIOUS
<1> QED BY <1>1, <1>2, <1>3, <1>4, <1>5 DEF Placed

\* One queue's loop goes on, or its callback ends.
LEMMA OneQueueKeeps ==
  ASSUME SseInv, NEW q \in Made, NEW x, NEW y,
         queue' = [queue EXCEPT ![q] = x], sent' = [sent EXCEPT ![q] = y],
         x.listener = queue[q].listener, x.disposed = queue[q].disposed,
         throws' \in 0..MaxThrows, throws <= throws',
         RecordInv(x, y, events, born[q], SubsOf(modes[q]), throws'),
         UNCHANGED <<modes, subs, registry, born, link, events>>
  PROVE  SseInv'
<1> USE DEF SseInv
<1>1. Made \subseteq Queues /\ \A p \in Made : born[p] \in Nat
  BY Facts
<1>2. DOMAIN queue = Queues /\ DOMAIN sent = Queues
  BY DEF Typed
<1>3. \A p \in Queues : /\ queue'[p] = IF p = q THEN x ELSE queue[p]
                        /\ sent'[p] = IF p = q THEN y ELSE sent[p]
  BY <1>2
<1>4. Typed'
  <2>1. queue' = [p \in Queues |-> queue'[p]] /\ sent' = [p \in Queues |-> sent'[p]]
    BY <1>2
  <2>2. UNCHANGED <<modes, subs, subscriber, subscription, orphans, expired, born, link,
                    events>>
    BY DEF registry
  <2> QED BY <2>1, <2>2 DEF Typed, Subs
<1>5. RecordsKept'
  <2> SUFFICES ASSUME NEW p \in Made
               PROVE  RecordInv(queue'[p], sent'[p], events, born[p], SubsOf(modes[p]), throws')
    BY DEF RecordsKept, Made, SubsOf, Subs
  <2>1. CASE p = q
    BY <1>1, <1>3, <2>1
  <2>2. CASE p # q
    <3>1. RecordInv(queue[p], sent[p], events, born[p], SubsOf(modes[p]), throws)
      BY DEF RecordsKept
    <3>2. throws \in Nat /\ throws' \in Nat /\ events \in Nat /\ born[p] \in Nat
      BY <1>1, SseAssumption DEF Typed
    <3>3. queue'[p] = queue[p] /\ sent'[p] = sent[p]
      BY <1>1, <1>3, <2>2
    <3> QED BY <3>1, <3>2, <3>3, IdleKeeps
  <2> QED BY <2>1, <2>2
<1>6. Unmade'
  BY <1>3 DEF Unmade, Made
<1>7. Placed'
  <2>1. \A p \in Made : /\ queue'[p].listener = queue[p].listener
                        /\ queue'[p].disposed = queue[p].disposed
    BY <1>1, <1>3
  <2> QED BY <2>1, SamePlaces DEF registry
<1> QED BY <1>4, <1>5, <1>6, <1>7

\* A queue whose delivery is awaited has been made.
LEMMA DrainingIsMade ==
  ASSUME SseInv, NEW q \in Queues, queue[q].inFlight.outcome # "none"
  PROVE  q \in Made
<1>1. EmptyQueue.inFlight.outcome = "none"
  BY DEF EmptyQueue, NoSend
<1> QED BY <1>1 DEF SseInv, Unmade

LEMMA SendSucceedsKeeps ==
  ASSUME SseInv, NEW q \in Queues, SendSucceeds(q)
  PROVE  SseInv'
<1> DEFINE r == queue[q]
           x == Ended(r, "sent")
           y == Append(sent[q], r.inFlight.event)
<1>1. r.inFlight.outcome = "pending"
  BY DEF SendSucceeds, Sending
<1>2. q \in Made
  BY <1>1, DrainingIsMade
<1>3. /\ born[q] \in Nat /\ SubsOf(modes[q]) \in SUBSET Nat /\ throws \in Nat /\ events \in Nat
      /\ throws \in 0..MaxThrows /\ RecordInv(r, sent[q], events, born[q], SubsOf(modes[q]), throws)
  BY <1>2, Facts DEF SseInv, RecordsKept, Typed
<1>4. RecordInv(x, y, events, born[q], SubsOf(modes[q]), throws)
  BY <1>1, <1>3, SentKeeps
<1>5. x.listener = r.listener /\ x.disposed = r.disposed
  <2>1. r \in QueueRecords(events, SubsOf(modes[q]))
    BY <1>3 DEF RecordInv
  <2> QED BY <1>1, <2>1, EndedFacts
<1>6. queue' = [queue EXCEPT ![q] = x] /\ sent' = [sent EXCEPT ![q] = y]
      /\ throws' = throws /\ UNCHANGED <<modes, subs, registry, born, link, events>>
  BY DEF SendSucceeds, relay, Ended
<1> HIDE DEF x, y
<1>7. throws' \in 0..MaxThrows /\ throws <= throws'
  BY <1>3, <1>6
<1> QED BY <1>2, <1>4, <1>5, <1>6, <1>7, OneQueueKeeps

LEMMA SendThrowsKeeps ==
  ASSUME SseInv, NEW q \in Queues, SendThrows(q)
  PROVE  SseInv'
<1> DEFINE r == queue[q]
           x == Ended(r, "failed")
           y == sent[q]
<1>1. r.inFlight.outcome = "pending"
  BY DEF SendThrows, Sending
<1>2. q \in Made
  BY <1>1, DrainingIsMade
<1>3. /\ born[q] \in Nat /\ SubsOf(modes[q]) \in SUBSET Nat /\ throws \in Nat /\ events \in Nat
      /\ throws \in 0..MaxThrows /\ RecordInv(r, sent[q], events, born[q], SubsOf(modes[q]), throws)
  BY <1>2, Facts DEF SseInv, RecordsKept, Typed
<1>4. RecordInv(x, y, events, born[q], SubsOf(modes[q]), throws + 1)
  BY <1>1, <1>3, FailedKeeps
<1>5. x.listener = r.listener /\ x.disposed = r.disposed
  <2>1. r \in QueueRecords(events, SubsOf(modes[q]))
    BY <1>3 DEF RecordInv
  <2> QED BY <1>1, <2>1, EndedFacts
<1>6. /\ queue' = [queue EXCEPT ![q] = x] /\ sent' = sent
      /\ throws' = throws + 1 /\ throws < MaxThrows
      /\ UNCHANGED <<modes, subs, registry, born, link, events>>
  BY DEF SendThrows, Ended
<1>7. sent' = [sent EXCEPT ![q] = y]
  BY <1>6 DEF SseInv, Typed
<1> HIDE DEF x, y
<1>8. throws' \in 0..MaxThrows /\ throws <= throws'
  BY <1>3, <1>6, SseAssumption
<1> QED BY <1>2, <1>4, <1>5, <1>6, <1>7, <1>8, OneQueueKeeps

LEMMA DrainResumesKeeps ==
  ASSUME SseInv, NEW q \in Queues, DrainResumes(q)
  PROVE  SseInv'
<1> DEFINE r == queue[q]
           x == Resume(r)
           y == sent[q]
<1>1. r.inFlight.outcome \in {"sent", "failed"}
  BY DEF DrainResumes
<1>2. q \in Made
  BY <1>1, DrainingIsMade
<1>3. /\ born[q] \in Nat /\ SubsOf(modes[q]) \in SUBSET Nat /\ throws \in Nat /\ events \in Nat
      /\ throws \in 0..MaxThrows /\ RecordInv(r, sent[q], events, born[q], SubsOf(modes[q]), throws)
      /\ throws <= MaxAttempts - 1
  BY <1>2, Facts DEF SseInv, RecordsKept, Typed
<1>4. /\ RecordInv(x, y, events, born[q], SubsOf(modes[q]), throws)
      /\ x.listener = r.listener /\ x.disposed = r.disposed
  BY <1>1, <1>3, ResumeKeeps
<1>5. /\ queue' = [queue EXCEPT ![q] = x] /\ sent' = sent /\ throws' = throws
      /\ UNCHANGED <<modes, subs, registry, born, link, events>>
  BY DEF DrainResumes, relay
<1>6. sent' = [sent EXCEPT ![q] = y]
  BY <1>5 DEF SseInv, Typed
<1> HIDE DEF x, y
<1>7. throws' \in 0..MaxThrows /\ throws <= throws'
  BY <1>3, <1>5
<1> QED BY <1>2, <1>4, <1>5, <1>6, <1>7, OneQueueKeeps

\* The link is lost or replaced, or a replay window passes.
LEMMA RelayStepKeeps ==
  ASSUME SseInv, WindowPasses \/ LinkDrops \/ Reconnect
  PROVE  SseInv'
<1> USE DEF SseInv
<1>1. UNCHANGED <<queue, modes, subs, subscriber, subscription, orphans, events, throws, born,
                  sent>>
  BY DEF WindowPasses, LinkDrops, Reconnect, registry
<1>2. /\ expired' \in 0..Len(orphans)
      /\ link' \in Nat \ {0} /\ subs \in Seq([conn : Conns, link : 1..link', mode : Modes])
  <2>1. CASE WindowPasses
    BY <2>1, Facts DEF WindowPasses, relay, Typed
  <2>2. CASE LinkDrops
    BY <2>2 DEF LinkDrops, registry, Typed
  <2>3. CASE Reconnect
    <3>1. link' = link + 1 /\ link \in Nat \ {0} /\ expired' = expired
      BY <2>3 DEF Reconnect, registry, Typed
    <3>2. 1..link \subseteq 1..link'
      BY <3>1
    <3>3. [conn : Conns, link : 1..link, mode : Modes] \subseteq
            [conn : Conns, link : 1..link', mode : Modes]
      BY <3>2
    <3>4. subs \in Seq([conn : Conns, link : 1..link', mode : Modes])
      BY <3>3, SeqMonotonic DEF Typed
    <3> QED BY <3>1, <3>4 DEF Typed
  <2> QED BY <2>1, <2>2, <2>3
<1>3. Typed'
  BY <1>1, <1>2 DEF Typed, Subs
<1>4. RecordsKept' /\ Unmade'
  BY <1>1 DEF RecordsKept, Unmade, Made, SubsOf, Subs
<1>5. Placed'
  BY <1>1, SamePlaces
<1> QED BY <1>3, <1>4, <1>5

-------------------------------------------------------------------------------
(* Steps that end subscriptions.                                              *)

LEMMA OrphanKeeps ==
  ASSUME SseInv, NEW C \in SUBSET Subscribed, Orphan(C),
         queue' = [q \in Queues |-> queue'[q]],
         \A q \in Made :
           /\ queue'[q].disposed = queue[q].disposed
           /\ queue'[q].listener = IF \E c \in C : q = subscriber[c] THEN NoSub
                                   ELSE queue[q].listener
           /\ RecordInv(queue'[q], sent[q], events, born[q], SubsOf(modes[q]), throws),
         \A q \in Queues \ Made : queue'[q] = queue[q],
         UNCHANGED <<modes, subs, link, events, throws, born, sent>>
  PROVE  SseInv'
<1> USE DEF SseInv
<1>1. /\ orphans' \in Seq(Queues) /\ expired' \in 0..Len(orphans')
      /\ \A q : q \in ToSet(orphans') <=> q \in ToSet(orphans) \/ \E c \in C : q = subscriber[c]
      /\ \A i, j \in DOMAIN orphans' : orphans'[i] = orphans'[j] => i = j
  BY OrphanPlaces
<1>2. /\ subscriber' = [c \in Conns |-> IF c \in C THEN NoQueue ELSE subscriber[c]]
      /\ subscription' = [c \in Conns |-> IF c \in C THEN NoSub ELSE subscription[c]]
  BY DEF Orphan
<1>3. /\ \A c \in Conns : subscriber'[c] = IF c \in C THEN NoQueue ELSE subscriber[c]
      /\ \A c \in Conns : subscription'[c] = IF c \in C THEN NoSub ELSE subscription[c]
  BY <1>2
<1>4. Made' = Made
  BY DEF Made
<1>5. /\ Subscribed' = Subscribed \ C
      /\ Subscribed \subseteq Conns
  BY <1>3 DEF Subscribed
<1>6. Typed'
  <2>1. /\ subscriber' \in [Conns -> Queues \cup {NoQueue}]
        /\ subscription' \in [Conns -> Subs \cup {NoSub}]
    BY <1>2 DEF Typed
  <2> QED BY <1>1, <2>1 DEF Typed, Subs
<1>7. RecordsKept'
  BY DEF RecordsKept, Made, SubsOf, Subs
<1>8. Unmade'
  BY DEF Unmade, Made
<1>9. Placed'
  <2>1. \A c \in Conns : subscriber'[c] = NoQueue <=> subscription'[c] = NoSub
    BY <1>3 DEF Placed
  <2>2. ASSUME NEW c \in Subscribed' PROVE Serves(c)'
    <3>1. c \in Subscribed /\ c \notin C /\ Serves(c)
      BY <1>5, <2>2 DEF Placed
    <3>2. subscriber'[c] = subscriber[c] /\ subscription'[c] = subscription[c]
      BY <1>3, <1>5, <3>1
    <3>3. ~ \E d \in C : subscriber[c] = subscriber[d]
      BY <3>1, HoldersDiffer
    <3> QED BY <1>4, <3>1, <3>2, <3>3 DEF Serves
  <2>3. ASSUME NEW i \in DOMAIN orphans'
        PROVE  LET q == orphans'[i]
               IN  q \in Made /\ queue'[q].listener = NoSub /\ ~queue'[q].disposed
    <3>1. orphans'[i] \in ToSet(orphans')
      BY DEF ToSet
    <3>2. CASE orphans'[i] \in ToSet(orphans)
      BY <3>2, OrphanFacts DEF Waits
    <3>3. CASE \E c \in C : orphans'[i] = subscriber[c]
      BY <3>3, AttachedFacts
    <3> QED BY <1>1, <3>1, <3>2, <3>3
  <2>4. ASSUME NEW q \in Made
        PROVE  queue'[q].disposed \/ q \in Attached' \/ q \in ToSet(orphans')
    <3>1. CASE queue[q].disposed \/ q \in ToSet(orphans)
      BY <1>1, <3>1
    <3>2. CASE q \in Attached
      <4>1. PICK c \in Subscribed : q = subscriber[c]
        BY <3>2, AttachedFacts
      <4>2. CASE c \in C
        BY <1>1, <4>1, <4>2
      <4>3. CASE c \notin C
        <5>1. c \in Conns /\ subscriber'[c] = q /\ q # NoQueue
          BY <1>3, <1>5, <4>1, <4>3, Facts
        <5> QED BY <5>1 DEF Attached
      <4> QED BY <4>2, <4>3
    <3> QED BY <3>1, <3>2 DEF Placed
  <2>5. \A i \in DOMAIN orphans' : Waits(orphans[i])'
    BY <1>4, <2>3 DEF Waits
  <2> QED BY <1>1, <1>4, <2>1, <2>2, <2>4, <2>5 DEF Placed
<1> QED BY <1>6, <1>7, <1>8, <1>9

\* The queues of C without their listeners.
LEMMA ReleasedFacts ==
  ASSUME SseInv, NEW C \in SUBSET Conns
  PROVE  /\ Released(C) = [q \in Queues |-> Released(C)[q]]
         /\ \A q \in Made :
              /\ Released(C)[q].disposed = queue[q].disposed
              /\ Released(C)[q].inFlight = queue[q].inFlight
              /\ Released(C)[q].listener = IF \E c \in C : q = subscriber[c] THEN NoSub
                                           ELSE queue[q].listener
              /\ RecordInv(Released(C)[q], sent[q], events, born[q], SubsOf(modes[q]), throws)
         /\ \A q \in Queues \ Made :
              (\A c \in C : subscriber[c] \in Made) => Released(C)[q] = queue[q]
<1> DEFINE released == {subscriber[c] : c \in C}
<1>1. \A q \in Queues : Released(C)[q] = IF q \in released THEN Detach(queue[q]) ELSE queue[q]
  BY DEF Released
<1>2. Released(C) = [q \in Queues |-> Released(C)[q]]
  BY DEF Released
<1>3. ASSUME NEW q \in Made
      PROVE  /\ Released(C)[q].disposed = queue[q].disposed
             /\ Released(C)[q].inFlight = queue[q].inFlight
             /\ Released(C)[q].listener = IF \E c \in C : q = subscriber[c] THEN NoSub
                                          ELSE queue[q].listener
             /\ RecordInv(Released(C)[q], sent[q], events, born[q], SubsOf(modes[q]), throws)
  <2>1. /\ q \in Queues /\ born[q] \in Nat /\ SubsOf(modes[q]) \in SUBSET Nat
        /\ throws \in Nat /\ events \in Nat /\ NoSub \notin Nat
        /\ RecordInv(queue[q], sent[q], events, born[q], SubsOf(modes[q]), throws)
    BY Facts DEF SseInv, RecordsKept, Typed
  <2>2. CASE q \in released
    <3> DEFINE d == Detach(queue[q])
               r == queue[q]
               s == sent[q]
               b == born[q]
               S == SubsOf(modes[q])
    <3>1. /\ S \in SUBSET Nat /\ b \in Nat /\ throws \in Nat /\ events \in Nat
          /\ NoSub \notin Nat /\ RecordInv(r, s, events, b, S, throws)
      BY <2>1
    <3> HIDE DEF r, s, b, S
    <3>2. /\ RecordInv(Detach(r), s, events, b, S, throws)
          /\ Detach(r).listener = NoSub /\ Detach(r).disposed = r.disposed
          /\ Detach(r).inFlight = r.inFlight
      BY <3>1, DetachKeeps
    <3>3. /\ RecordInv(d, sent[q], events, born[q], SubsOf(modes[q]), throws)
          /\ d.listener = NoSub /\ d.disposed = queue[q].disposed
          /\ d.inFlight = queue[q].inFlight
      BY <3>2 DEF r, s, b, S
    <3>4. Released(C)[q] = d /\ \E c \in C : q = subscriber[c]
      BY <1>1, <2>1, <2>2
    <3> HIDE DEF d
    <3> QED BY <3>3, <3>4
  <2>3. CASE q \notin released
    BY <1>1, <2>1, <2>3
  <2> QED BY <2>2, <2>3
<1>4. ASSUME NEW q \in Queues \ Made, \A c \in C : subscriber[c] \in Made
      PROVE  Released(C)[q] = queue[q]
  BY <1>1, <1>4
<1> QED BY <1>2, <1>3, <1>4

LEMMA LeavingKeeps ==
  ASSUME SseInv, NEW C \in SUBSET Subscribed, Orphan(C), queue' = Released(C),
         UNCHANGED <<modes, subs, link, events, throws, born, sent>>
  PROVE  SseInv'
<1>1. C \in SUBSET Conns /\ \A c \in C : subscriber[c] \in Made
  BY AttachedFacts DEF Subscribed, SseInv
<1> QED BY <1>1, ReleasedFacts, OrphanKeeps

\* _unsubscribeIfOwned: whoever the sender is, its queue no longer listens to it.
LEMMA StaleSendEndsSubscription ==
  ASSUME SseInv, NEW q \in Made, Draining(queue[q]),
         NEW C, C = IF Owns(Sender(q)) THEN Leaving(subs[Sender(q)].conn) ELSE {}
  PROVE  /\ C \in SUBSET Subscribed
         /\ Released(C)[q].listener # Released(C)[q].inFlight.sub
<1> DEFINE s == Sender(q)
<1>1. C \in SUBSET Subscribed
  BY DEF Leaving
<1>2. /\ s \in Nat /\ NoSub \notin Nat /\ s \in Subs
      /\ queue[q].disposed => queue[q].listener = NoSub
  BY Facts, RecordFacts DEF SseInv, RecordsKept, RecordInv, Sender
<1>3. /\ Released(C)[q].listener = IF \E c \in C : q = subscriber[c] THEN NoSub
                                  ELSE queue[q].listener
      /\ Released(C)[q].inFlight.sub = s
  BY <1>1, ReleasedFacts DEF Subscribed, Sender
<1>4. ASSUME queue[q].listener = s PROVE \E c \in C : q = subscriber[c]
  <2>1. ~queue[q].disposed /\ queue[q].listener # NoSub
    BY <1>2, <1>4
  <2>2. q \in Attached
    BY <2>1, OrphanFacts DEF SseInv, Placed, Waits
  <2>3. PICK c \in Subscribed : q = subscriber[c]
    BY <2>2, AttachedFacts DEF SseInv
  <2>4. subscription[c] = s /\ subs[s].conn = c
    BY <1>4, <2>3 DEF SseInv, Placed, Serves
  <2>5. Owns(s)
    BY <2>4 DEF Owns
  <2>6. c \in C
    BY <2>3, <2>4, <2>5 DEF Leaving
  <2> QED BY <2>3, <2>6
<1> QED BY <1>1, <1>2, <1>3, <1>4

LEMMA SendIsStaleKeeps ==
  ASSUME SseInv, NEW q \in Queues, SendIsStale(q)
  PROVE  SseInv'
<1> DEFINE C == IF Owns(Sender(q)) THEN Leaving(subs[Sender(q)].conn) ELSE {}
           r == Released(C)
           x == Ended(r[q], "failed")
<1>1. /\ queue[q].inFlight.outcome = "pending" /\ Orphan(C)
      /\ queue' = [r EXCEPT ![q] = x]
      /\ UNCHANGED <<modes, subs, link, events, throws, born, sent>>
  BY DEF SendIsStale, Sending, relay, Ended
<1>2. q \in Made
  BY <1>1, DrainingIsMade
<1>3. /\ born[q] \in Nat /\ SubsOf(modes[q]) \in SUBSET Nat /\ throws \in Nat /\ events \in Nat
      /\ Made \subseteq Queues
      /\ RecordInv(queue[q], sent[q], events, born[q], SubsOf(modes[q]), throws)
  BY <1>2, Facts DEF SseInv, RecordsKept, Typed
<1>4. Draining(queue[q])
  BY <1>1, <1>3, RecordFacts DEF RecordInv
<1>5. C \in SUBSET Subscribed /\ r[q].listener # r[q].inFlight.sub
  BY <1>2, <1>4, StaleSendEndsSubscription
<1> HIDE DEF C
<1>6. C \in SUBSET Conns /\ \A c \in C : subscriber[c] \in Made
  BY <1>5, AttachedFacts DEF Subscribed, SseInv
<1>7. /\ r = [p \in Queues |-> r[p]]
      /\ \A p \in Made :
           /\ r[p].disposed = queue[p].disposed
           /\ r[p].inFlight = queue[p].inFlight
           /\ r[p].listener = IF \E c \in C : p = subscriber[c] THEN NoSub
                              ELSE queue[p].listener
           /\ RecordInv(r[p], sent[p], events, born[p], SubsOf(modes[p]), throws)
      /\ \A p \in Queues \ Made : r[p] = queue[p]
  BY <1>6, ReleasedFacts
<1> HIDE DEF r
<1>8. r[q] \in QueueRecords(events, SubsOf(modes[q])) /\ r[q].inFlight.outcome = "pending"
  BY <1>1, <1>2, <1>7 DEF RecordInv
<1>9. x.listener = r[q].listener /\ x.disposed = r[q].disposed
  BY <1>8, EndedFacts
<1>10. RecordInv(x, sent[q], events, born[q], SubsOf(modes[q]), throws)
  BY <1>2, <1>3, <1>5, <1>7, <1>8, FailedKeeps
<1> HIDE DEF x
<1>11. DOMAIN r = Queues
  BY <1>7
<1>12. queue' = [p \in Queues |-> queue'[p]]
       /\ \A p \in Queues : queue'[p] = IF p = q THEN x ELSE r[p]
  BY <1>1, <1>11
<1>13. \A p \in Made :
         /\ queue'[p].disposed = queue[p].disposed
         /\ queue'[p].listener = IF \E c \in C : p = subscriber[c] THEN NoSub
                                 ELSE queue[p].listener
         /\ RecordInv(queue'[p], sent[p], events, born[p], SubsOf(modes[p]), throws)
  BY <1>2, <1>3, <1>7, <1>9, <1>10, <1>12
<1>14. \A p \in Queues \ Made : queue'[p] = queue[p]
  BY <1>2, <1>7, <1>12
<1> QED BY <1>1, <1>5, <1>12, <1>13, <1>14, OrphanKeeps

LEMMA UnsubscribeKeeps ==
  ASSUME SseInv, NEW c \in Conns, Unsubscribe(c)
  PROVE  SseInv'
<1>1. Leaving(c) \in SUBSET Subscribed
  BY DEF Leaving
<1>2. /\ Orphan(Leaving(c)) /\ queue' = Released(Leaving(c))
      /\ UNCHANGED <<modes, subs, link, events, throws, born, sent>>
  BY DEF Unsubscribe, relay
<1> QED BY <1>1, <1>2, LeavingKeeps

LEMMA ReadLoopEndsKeeps ==
  ASSUME SseInv, ReadLoopEnds
  PROVE  SseInv'
<1>1. /\ Orphan(Subscribed) /\ queue' = Released(Subscribed)
      /\ UNCHANGED <<modes, subs, link, events, throws, born, sent>>
  BY DEF ReadLoopEnds
<1> QED BY <1>1, LeavingKeeps

LEMMA StopKeeps ==
  ASSUME SseInv, Stop
  PROVE  SseInv'
<1> USE DEF SseInv
<1> DEFINE disposed == Attached \cup ToSet(orphans)
<1>1. /\ queue' = [q \in Queues |-> IF q \in disposed THEN Dispose(queue[q]) ELSE queue[q]]
      /\ subscriber' = [c \in Conns |-> NoQueue]
      /\ subscription' = [c \in Conns |-> NoSub]
      /\ orphans' = <<>> /\ expired' = 0
      /\ UNCHANGED <<modes, subs, link, events, throws, born, sent>>
  BY DEF Stop
<1>2. \A q \in Queues : queue'[q] = IF q \in disposed THEN Dispose(queue[q]) ELSE queue[q]
  BY <1>1
<1>3. disposed \subseteq Made /\ Made' = Made /\ Made \subseteq Queues
  BY <1>1, Facts, AttachedFacts, OrphanFacts DEF Waits, Made
<1>4. ASSUME NEW q \in Made
      PROVE  /\ RecordInv(queue'[q], sent[q], events, born[q], SubsOf(modes[q]), throws)
             /\ queue'[q].disposed
  <2> DEFINE r == queue[q]
             s == sent[q]
             b == born[q]
             S == SubsOf(modes[q])
  <2>1. /\ q \in Queues /\ b \in Nat /\ S \in SUBSET Nat
        /\ throws \in Nat /\ events \in Nat /\ NoSub \notin Nat
        /\ RecordInv(r, s, events, b, S, throws)
    BY Facts DEF RecordsKept, Typed
  <2> HIDE DEF r, s, b, S
  <2>2. RecordInv(Dispose(r), s, events, b, S, throws) /\ Dispose(r).disposed
    BY <2>1, DisposeKeeps
  <2>3. q \notin disposed => r.disposed
    BY DEF Placed, r
  <2>4. queue'[q] = IF q \in disposed THEN Dispose(r) ELSE r
    BY <1>2, <2>1 DEF r
  <2> QED BY <2>1, <2>2, <2>3, <2>4 DEF s, b, S
<1> HIDE DEF disposed
<1>5. \A q \in Queues \ Made : queue'[q] = queue[q]
  BY <1>2, <1>3
<1>6. Typed'
  <2>1. <<>> \in Seq(Queues) /\ Len(<<>>) = 0
    BY EmptySeq
  <2> QED BY <1>1, <2>1 DEF Typed, Subs
<1>7. RecordsKept' /\ Unmade'
  BY <1>1, <1>3, <1>4, <1>5 DEF RecordsKept, Unmade, SubsOf, Subs
<1>8. Placed'
  <2>1. Subscribed' = {}
    BY <1>1 DEF Subscribed
  <2>2. DOMAIN orphans' = {}
    <3>1. <<>> \in Seq(Queues) /\ Len(<<>>) = 0 /\ DOMAIN <<>> = 1..0
      BY EmptySeq, LenProperties
    <3> QED BY <1>1, <3>1
  <2>3. \A q \in Made : queue'[q].disposed
    BY <1>4
  <2>4. \A c \in Conns : subscriber'[c] = NoQueue /\ subscription'[c] = NoSub
    BY <1>1
  <2> QED BY <1>3, <2>1, <2>2, <2>3, <2>4 DEF Placed
<1> QED BY <1>6, <1>7, <1>8

-------------------------------------------------------------------------------
(* Steps that prune the orphans whose window has passed.                      *)

\* An event goes to every queue that is served or still waits in its window.
LEMMA EnqueueEventKeeps ==
  ASSUME SseInv, EnqueueEvent
  PROVE  SseInv'
<1> USE DEF SseInv
<1> DEFINE live == Attached \cup ToSet(LiveOrphans)
<1>1. /\ queue' = [q \in Queues |-> IF q \in live THEN Enqueue(queue[q], events + 1)
                                    ELSE IF q \in Expired THEN Dispose(queue[q])
                                    ELSE queue[q]]
      /\ orphans' = LiveOrphans /\ expired' = 0 /\ events' = events + 1
      /\ UNCHANGED <<modes, subs, subscriber, subscription, link, throws, born, sent>>
  BY DEF EnqueueEvent, relay
<1>2. \A q \in Queues : queue'[q] = IF q \in live THEN Enqueue(queue[q], events + 1)
                                     ELSE IF q \in Expired THEN Dispose(queue[q])
                                     ELSE queue[q]
  BY <1>1
<1>3. /\ Made' = Made /\ Made \subseteq Queues /\ Attached' = Attached
      /\ Subscribed' = Subscribed
  BY <1>1, Facts DEF Made, Attached, Subscribed
<1>4. /\ \A q \in live : q \in Made /\ ~queue[q].disposed /\ q \notin Expired
      /\ \A q \in Expired : Waits(q) /\ q \notin live
      /\ \A q \in Made : queue[q].disposed \/ q \in live \/ q \in Expired
  BY AttachedFacts, OrphanFacts DEF Waits, Placed
<1>5. ASSUME NEW q \in Made
      PROVE  /\ RecordInv(queue'[q], sent[q], events + 1, born[q], SubsOf(modes[q]), throws)
             /\ queue'[q].listener = queue[q].listener
             /\ queue'[q].disposed <=> q \notin live
  <2> DEFINE r == queue[q]
             s == sent[q]
             b == born[q]
             S == SubsOf(modes[q])
  <2>1. /\ q \in Queues /\ b \in Nat /\ S \in SUBSET Nat
        /\ throws \in Nat /\ events \in Nat /\ NoSub \notin Nat
        /\ RecordInv(r, s, events, b, S, throws)
    BY Facts DEF RecordsKept, Typed
  <2>2. queue'[q] = IF q \in live THEN Enqueue(r, events + 1)
                    ELSE IF q \in Expired THEN Dispose(r) ELSE r
    BY <1>2, <2>1 DEF r
  <2>3. /\ q \in live => ~r.disposed
        /\ q \in Expired => r.listener = NoSub
        /\ q \notin live /\ q \notin Expired => r.disposed
    BY <1>4 DEF Waits
  <2> HIDE DEF r, s, b, S, live
  <2>4. CASE q \in live
    <3>1. /\ RecordInv(Enqueue(r, events + 1), s, events + 1, b, S, throws)
          /\ Enqueue(r, events + 1).listener = r.listener
          /\ Enqueue(r, events + 1).disposed = r.disposed
      BY <2>1, EnqueueKeeps
    <3> QED BY <2>2, <2>3, <2>4, <3>1 DEF r, s, b, S
  <2>5. CASE q \notin live /\ q \in Expired
    <3>1. RecordInv(Dispose(r), s, events, b, S, throws) /\ Dispose(r).disposed
          /\ Dispose(r).listener = NoSub
      BY <2>1, DisposeKeeps
    <3>2. RecordInv(Dispose(r), s, events + 1, b, S, throws)
      BY <2>1, <3>1, DisposedKeeps
    <3> QED BY <2>2, <2>3, <2>5, <3>1, <3>2 DEF r, s, b, S
  <2>6. CASE q \notin live /\ q \notin Expired
    <3>1. RecordInv(r, s, events + 1, b, S, throws)
      BY <2>1, <2>3, <2>6, DisposedKeeps
    <3> QED BY <2>2, <2>3, <2>6, <3>1 DEF r, s, b, S
  <2> QED BY <2>4, <2>5, <2>6
<1>6. \A q \in Queues \ Made : queue'[q] = queue[q]
  BY <1>2, <1>4 DEF Waits
<1>7. Typed'
  <2>1. LiveOrphans \in Seq(Queues) /\ Len(LiveOrphans) \in Nat
    BY OrphanFacts
  <2>2. events + 1 \in Nat
    BY DEF Typed
  <2> HIDE DEF live
  <2> QED BY <1>1, <2>1, <2>2 DEF Typed, Subs
<1>8. RecordsKept' /\ Unmade'
  BY <1>1, <1>3, <1>5, <1>6 DEF RecordsKept, Unmade, SubsOf, Subs
<1>9. Placed'
  <2>1. \A c \in Subscribed : Serves(c)'
    <3> SUFFICES ASSUME NEW c \in Subscribed PROVE Serves(c)'
      OBVIOUS
    <3>1. Serves(c) /\ subscriber[c] \in live
      BY AttachedFacts DEF Placed
    <3> QED BY <1>1, <1>3, <1>5, <3>1 DEF Serves
  <2>2. \A i \in DOMAIN orphans' : Waits(orphans[i])'
    <3> SUFFICES ASSUME NEW i \in DOMAIN LiveOrphans
                 PROVE  /\ LiveOrphans[i] \in Made /\ queue'[LiveOrphans[i]].listener = NoSub
                        /\ ~queue'[LiveOrphans[i]].disposed
      BY <1>1, <1>3 DEF Waits
    <3>1. LiveOrphans[i] \in ToSet(LiveOrphans)
      BY DEF ToSet
    <3>2. Waits(LiveOrphans[i])
      BY <3>1, OrphanFacts
    <3> QED BY <1>5, <3>1, <3>2 DEF Waits
  <2>3. \A i, j \in DOMAIN orphans' : orphans'[i] = orphans'[j] => i = j
    BY <1>1, OrphanFacts
  <2>4. \A q \in Made : queue'[q].disposed \/ q \in Attached' \/ q \in ToSet(orphans')
    BY <1>1, <1>3, <1>5
  <2> QED BY <1>1, <1>3, <2>1, <2>2, <2>3, <2>4 DEF Placed
<1> QED BY <1>7, <1>8, <1>9

-------------------------------------------------------------------------------
(* Subscribing.                                                               *)

\* What Register does: the subscription s is c's, on the link being read.
Registered(c, m, q, s) ==
  /\ s \in Nat /\ s \notin Subs /\ Subs' = Subs \cup {s}
  /\ subs' \in Seq([conn : Conns, link : 1..link, mode : Modes])
  /\ \A k \in Subs : subs'[k] = subs[k]
  /\ subs'[s].conn = c /\ subs'[s].mode = m
  /\ \A d \in Conns : subscriber'[d] = IF d = c THEN q ELSE subscriber[d]
  /\ \A d \in Conns : subscription'[d] = IF d = c THEN s ELSE subscription[d]
  /\ subscriber' \in [Conns -> Queues \cup {NoQueue}]
  /\ subscription' \in [Conns -> Subs' \cup {NoSub}]
  /\ queue' = [r \in Queues |-> queue'[r]]
  /\ \A r \in Queues : queue'[r] = IF r = q THEN Listen(queue[r], s)
                                   ELSE IF r \in Expired THEN Dispose(queue[r])
                                   ELSE queue[r]
  /\ UNCHANGED <<link, events, throws, sent>> /\ expired' = 0

LEMMA RegisterFacts ==
  ASSUME Typed, NEW c \in Conns, NEW m \in Modes, NEW q \in Queues, Register(c, m, q),
         NEW s, s = Len(subs) + 1
  PROVE  Registered(c, m, q, s)
<1> DEFINE x == [conn |-> c, link |-> link, mode |-> m]
<1>1. /\ subs' = Append(subs, x)
      /\ subscriber' = [subscriber EXCEPT ![c] = q]
      /\ subscription' = [subscription EXCEPT ![c] = s]
      /\ queue' = [r \in Queues |-> IF r = q THEN Listen(queue[r], s)
                                    ELSE IF r \in Expired THEN Dispose(queue[r])
                                    ELSE queue[r]]
      /\ UNCHANGED <<link, events, throws, sent>> /\ expired' = 0
  BY DEF Register, relay
<1>2. x \in [conn : Conns, link : 1..link, mode : Modes]
  BY DEF Typed
<1>3. Subs = 1..Len(subs) /\ Len(subs) \in Nat
  BY Facts
<1>4. /\ subs' \in Seq([conn : Conns, link : 1..link, mode : Modes])
      /\ Len(subs') = Len(subs) + 1 /\ DOMAIN subs' = 1..Len(subs')
      /\ \A k \in 1..Len(subs) : subs'[k] = subs[k]
      /\ subs'[s] = x
  BY <1>1, <1>2, AppendFacts, LenProperties DEF Typed
<1>5. s \in Nat /\ s \notin Subs /\ Subs' = Subs \cup {s}
  <2>1. Subs' = 1..Len(subs) + 1
    BY <1>4 DEF Subs
  <2>2. 1..Len(subs) + 1 = 1..Len(subs) \cup {s} /\ s \in Nat /\ s \notin 1..Len(subs)
    BY <1>3
  <2> QED BY <1>3, <2>1, <2>2
<1>6. subs'[s].conn = c /\ subs'[s].mode = m
  BY <1>4
<1> HIDE DEF x
<1>7. /\ \A d \in Conns : subscriber'[d] = IF d = c THEN q ELSE subscriber[d]
      /\ \A d \in Conns : subscription'[d] = IF d = c THEN s ELSE subscription[d]
      /\ subscriber' \in [Conns -> Queues \cup {NoQueue}]
      /\ subscription' \in [Conns -> Subs' \cup {NoSub}]
  BY <1>1, <1>5 DEF Typed
<1>8. /\ queue' = [r \in Queues |-> queue'[r]]
      /\ \A r \in Queues : queue'[r] = IF r = q THEN Listen(queue[r], s)
                                       ELSE IF r \in Expired THEN Dispose(queue[r])
                                       ELSE queue[r]
  BY <1>1
<1> QED BY <1>1, <1>3, <1>4, <1>5, <1>6, <1>7, <1>8 DEF Registered

\* c gets the queue q, which is a live orphan of the mode or has just been made.
LEMMA RegisterKeeps ==
  ASSUME SseInv, NEW c \in Conns, NEW m \in Modes, NEW q \in Queues, Register(c, m, q),
         subscription[c] = NoSub,
         q \notin Attached, q \notin Expired, ~queue[q].disposed,
         modes' \in Seq(Modes), Len(modes') <= MaxQueues, Made' = Made \cup {q},
         born' \in Seq(Nat), Len(born') = Len(modes'),
         \A p \in Made : modes'[p] = modes[p] /\ born'[p] = born[p],
         modes'[q] = m, born'[q] \in Nat,
         RecordInv(queue[q], sent[q], events, born'[q], SubsOf(m), throws),
         orphans' \in Seq(Queues),
         \A p : p \in ToSet(orphans') <=> p \in ToSet(LiveOrphans) /\ p # q,
         \A i, j \in DOMAIN orphans' : orphans'[i] = orphans'[j] => i = j
  PROVE  SseInv'
<1> USE DEF SseInv
<1>0. PICK s : s = Len(subs) + 1
  OBVIOUS
<1>1. /\ s \in Nat /\ s \notin Subs /\ Subs' = Subs \cup {s}
      /\ subs' \in Seq([conn : Conns, link : 1..link, mode : Modes])
      /\ \A k \in Subs : subs'[k] = subs[k]
      /\ subs'[s].conn = c /\ subs'[s].mode = m
      /\ \A d \in Conns : subscriber'[d] = IF d = c THEN q ELSE subscriber[d]
      /\ \A d \in Conns : subscription'[d] = IF d = c THEN s ELSE subscription[d]
      /\ subscriber' \in [Conns -> Queues \cup {NoQueue}]
      /\ subscription' \in [Conns -> Subs' \cup {NoSub}]
      /\ queue' = [r \in Queues |-> queue'[r]]
      /\ \A r \in Queues : queue'[r] = IF r = q THEN Listen(queue[r], s)
                                       ELSE IF r \in Expired THEN Dispose(queue[r])
                                       ELSE queue[r]
      /\ UNCHANGED <<link, events, throws, sent>> /\ expired' = 0
  <2>1. Registered(c, m, q, s)
    BY <1>0, RegisterFacts
  <2> QED BY <2>1 DEF Registered
<1>2. /\ throws \in Nat /\ events \in Nat /\ NoSub \notin Nat /\ NoQueue \notin Nat
      /\ Queues \subseteq Nat /\ Made \subseteq Queues
      /\ Subs \subseteq Nat /\ \A k : SubsOf(k) \in SUBSET Nat /\ SubsOf(k) \subseteq Subs
  BY Facts DEF Typed
<1>3. /\ \A k : SubsOf(k)' \in SUBSET Nat /\ SubsOf(k) \subseteq SubsOf(k)'
      /\ s \notin SubsOf(m) /\ SubsOf(m)' = SubsOf(m) \cup {s}
  <2>1. ASSUME NEW k PROVE SubsOf(k)' = IF k = m THEN SubsOf(k) \cup {s} ELSE SubsOf(k)
    <3>1. SubsOf(k)' = {i \in Subs \cup {s} : subs'[i].mode = k}
      BY <1>1 DEF SubsOf
    <3> QED BY <1>1, <3>1 DEF SubsOf
  <2> QED BY <1>1, <1>2, <2>1
<1>4. /\ RecordInv(queue'[q], sent[q], events, born'[q], SubsOf(m)', throws)
      /\ queue'[q].listener = s /\ ~queue'[q].disposed
  <2> DEFINE r == queue[q]
             b == born'[q]
             S == SubsOf(m)
  <2>1. /\ S \in SUBSET Nat /\ b \in Nat /\ s \in Nat /\ s \notin S /\ ~r.disposed
        /\ RecordInv(r, sent[q], events, b, S, throws)
    BY <1>1, <1>2, <1>3
  <2>2. queue'[q] = Listen(r, s) /\ SubsOf(m)' = S \cup {s}
    BY <1>1, <1>3
  <2> HIDE DEF r, b, S
  <2>3. /\ RecordInv(Listen(r, s), sent[q], events, b, S \cup {s}, throws)
        /\ Listen(r, s).listener = s /\ ~Listen(r, s).disposed
    BY <1>2, <2>1, ListenKeeps
  <2> QED BY <2>2, <2>3 DEF r, b, S
<1>5. ASSUME NEW p \in Made, p # q
      PROVE  /\ RecordInv(queue'[p], sent[p], events, born[p], SubsOf(modes[p])', throws)
             /\ queue'[p].listener = queue[p].listener
             /\ queue'[p].disposed <=> queue[p].disposed \/ p \in Expired
  <2> DEFINE r == queue[p]
             b == born[p]
             S == SubsOf(modes[p])
             T == SubsOf(modes[p])'
  <2>1. S \in SUBSET Nat /\ S \subseteq T /\ p \in Queues
    BY <1>2, <1>3
  <2>2. b \in Nat /\ RecordInv(r, sent[p], events, b, S, throws)
    BY Facts DEF RecordsKept
  <2>3. p \in Expired => r.listener = NoSub
    BY OrphanFacts DEF Waits
  <2>4. queue'[p] = IF p \in Expired THEN Dispose(r) ELSE r
    BY <1>1, <1>5, <2>1
  <2> HIDE DEF r, b, S, T
  <2>5. CASE p \in Expired
    <3>1. /\ RecordInv(Dispose(r), sent[p], events, b, S, throws)
          /\ Dispose(r).listener = NoSub /\ Dispose(r).disposed
      BY <1>2, <2>1, <2>2, DisposeKeeps
    <3> DEFINE x == Dispose(r)
    <3>2. RecordInv(x, sent[p], events, b, S, throws)
      BY <3>1
    <3>3. throws <= throws
      BY <1>2
    <3> HIDE DEF x
    <3>4. RecordInv(x, sent[p], events, b, T, throws)
      BY <1>2, <2>1, <2>2, <3>2, <3>3, IdleKeeps
    <3> QED BY <2>3, <2>4, <2>5, <3>1, <3>4 DEF r, b, T, x
  <2>6. CASE p \notin Expired
    <3>1. RecordInv(r, sent[p], events, b, T, throws)
      BY <1>2, <2>1, <2>2, IdleKeeps
    <3> QED BY <2>4, <2>6, <3>1 DEF r, b, T
  <2> QED BY <2>5, <2>6
<1>6. Typed'
  <2>1. orphans' \in Seq(Queues) /\ 0 \in 0..Len(orphans')
    BY LenProperties
  <2> QED BY <1>1, <2>1 DEF Typed
<1>7. RecordsKept'
  <2> SUFFICES ASSUME NEW p \in Made'
               PROVE  RecordInv(queue'[p], sent[p], events, born'[p], SubsOf(modes[p])', throws)
    BY <1>1 DEF RecordsKept
  <2>1. CASE p = q
    BY <1>4, <2>1
  <2>2. CASE p # q
    <3>1. p \in Made /\ modes'[p] = modes[p] /\ born'[p] = born[p]
      BY <2>2
    <3> QED BY <1>5, <2>2, <3>1
  <2> QED BY <2>1, <2>2
<1>8. Unmade'
  <2> SUFFICES ASSUME NEW p \in Queues, p \notin Made, p # q
               PROVE  queue'[p] = EmptyQueue /\ sent[p] = <<>>
    BY <1>1 DEF Unmade
  <2>1. p \notin Expired
    BY OrphanFacts DEF Waits
  <2> QED BY <1>1, <2>1 DEF Unmade
<1>9. subscriber[c] = NoQueue /\ Subscribed \subseteq Conns /\ c \notin Subscribed
      /\ Subscribed' = Subscribed \cup {c} /\ q # NoQueue /\ s # NoSub
  <2>1. subscriber[c] = NoQueue /\ Subscribed \subseteq Conns /\ c \notin Subscribed
        /\ q # NoQueue /\ s # NoSub
    BY <1>1, <1>2 DEF Placed, Subscribed
  <2>2. \A d \in Conns : subscription'[d] # NoSub <=> (d = c \/ subscription[d] # NoSub)
    BY <1>1, <2>1
  <2> QED BY <2>1, <2>2 DEF Subscribed
<1>10. Attached' = Attached \cup {q}
  <2>1. ASSUME NEW p \in Attached PROVE p \in Attached'
    <3>1. PICK d \in Conns : p = subscriber[d] /\ p # NoQueue
      BY <2>1 DEF Attached
    <3>2. d # c /\ subscriber'[d] = p
      BY <1>1, <1>9, <3>1
    <3> QED BY <3>1, <3>2 DEF Attached
  <2>2. q \in Attached'
    BY <1>1, <1>9 DEF Attached
  <2>3. ASSUME NEW p \in Attached', p # q PROVE p \in Attached
    <3>1. PICK d \in Conns : p = subscriber'[d] /\ p # NoQueue
      BY <2>3 DEF Attached
    <3>2. p = subscriber[d]
      BY <1>1, <2>3, <3>1
    <3> QED BY <3>1, <3>2 DEF Attached
  <2> QED BY <2>1, <2>2, <2>3
<1>11. Placed'
  <2>1. \A d \in Conns : subscriber'[d] = NoQueue <=> subscription'[d] = NoSub
    <3> SUFFICES ASSUME NEW d \in Conns
                 PROVE  subscriber'[d] = NoQueue <=> subscription'[d] = NoSub
      OBVIOUS
    <3>1. d = c => subscriber'[d] = q /\ subscription'[d] = s
      BY <1>1
    <3>2. d # c => subscriber'[d] = subscriber[d] /\ subscription'[d] = subscription[d]
      BY <1>1
    <3> QED BY <1>9, <3>1, <3>2 DEF Placed
  <2>2. ASSUME NEW d \in Subscribed' PROVE Serves(d)'
    <3>1. CASE d = c
      BY <1>1, <1>4, <3>1 DEF Serves
    <3>2. CASE d # c
      <4>1. d \in Subscribed /\ d \in Conns /\ Serves(d) /\ subscription[d] \in Subs
            /\ subscriber[d] \in Attached
        BY <1>9, <3>2, AttachedFacts DEF Placed
      <4>2. subscriber[d] # q /\ subscriber[d] \notin Expired
        BY <4>1, OrphanFacts
      <4>3. subscriber'[d] = subscriber[d] /\ subscription'[d] = subscription[d]
            /\ subs'[subscription[d]] = subs[subscription[d]]
        BY <1>1, <3>2, <4>1
      <4> QED BY <1>5, <4>1, <4>2, <4>3 DEF Serves
    <3> QED BY <3>1, <3>2
  <2>3. ASSUME NEW i \in DOMAIN orphans' PROVE Waits(orphans[i])'
    <3> DEFINE p == orphans'[i]
    <3>1. p \in ToSet(orphans')
      BY <2>3 DEF ToSet
    <3>2. p \in ToSet(LiveOrphans) /\ p # q
      BY <3>1
    <3>3. Waits(p) /\ p \notin Expired
      BY <3>2, OrphanFacts
    <3> HIDE DEF p
    <3>4. p \in Made' /\ queue'[p].listener = NoSub /\ ~queue'[p].disposed
      BY <1>5, <3>2, <3>3 DEF Waits
    <3> QED BY <3>4 DEF Waits, p
  <2>4. ASSUME NEW p \in Made'
        PROVE  queue'[p].disposed \/ p \in Attached' \/ p \in ToSet(orphans')
    <3>1. CASE p = q
      BY <1>10, <3>1
    <3>2. CASE p # q
      <4>1. p \in Made
        BY <3>2
      <4>2. queue[p].disposed \/ p \in Attached \/ p \in Expired \/ p \in ToSet(LiveOrphans)
        BY <4>1, OrphanFacts DEF Placed
      <4> QED BY <1>5, <1>10, <3>2, <4>1, <4>2
    <3> QED BY <3>1, <3>2
  <2> QED BY <2>1, <2>2, <2>3, <2>4 DEF Placed
<1> QED BY <1>6, <1>7, <1>8, <1>11

LEMMA SubscribeAdoptingKeeps ==
  ASSUME SseInv, NEW c \in Conns, NEW m \in Modes, SubscribeAdopting(c, m)
  PROVE  SseInv'
<1> USE DEF SseInv
<1> DEFINE i == OldestOrphan(m)
           q == LiveOrphans[i]
<1>1. /\ i > 0 /\ subscription[c] = NoSub /\ Register(c, m, q)
      /\ orphans' = RemoveAt(LiveOrphans, i) /\ UNCHANGED <<modes, born>>
  BY DEF SubscribeAdopting, CanSubscribe
<1>2. i \in 1..Len(LiveOrphans) /\ modes[q] = m
  BY <1>1, OldestOrphanFacts
<1> HIDE DEF i
<1>3. /\ LiveOrphans \in Seq(Queues) /\ DOMAIN LiveOrphans = 1..Len(LiveOrphans)
      /\ \A j, k \in DOMAIN LiveOrphans : LiveOrphans[j] = LiveOrphans[k] => j = k
  BY OrphanFacts
<1>4. q \in ToSet(LiveOrphans)
  BY <1>2, <1>3 DEF ToSet
<1> HIDE DEF q
<1>5. Waits(q) /\ q \notin Attached /\ q \notin Expired
  BY <1>4, OrphanFacts
<1>6. q \in Made /\ q \in Queues /\ ~queue[q].disposed /\ born[q] \in Nat
      /\ Made' = Made /\ Made = Made \cup {q}
  BY <1>1, <1>5, Facts DEF Waits, Made
<1>7. RecordInv(queue[q], sent[q], events, born[q], SubsOf(m), throws)
  BY <1>2, <1>6 DEF RecordsKept, q
<1>8. /\ orphans' \in Seq(Queues)
      /\ \A p : p \in ToSet(orphans') <=> p \in ToSet(LiveOrphans) /\ p # q
      /\ \A j, k \in DOMAIN orphans' : orphans'[j] = orphans'[k] => j = k
  BY <1>1, <1>2, <1>3, RemoveAtFacts DEF q
<1>9. modes' = modes /\ born' = born /\ modes[q] = m
  BY <1>1, <1>2 DEF q
<1>10. /\ modes \in Seq(Modes) /\ Len(modes) <= MaxQueues
       /\ born \in Seq(Nat) /\ Len(born) = Len(modes)
  BY DEF Typed
<1> QED BY <1>1, <1>5, <1>6, <1>7, <1>8, <1>9, <1>10, RegisterKeeps

LEMMA EmptyQueueFacts ==
  ASSUME NEW n \in Nat, NEW S, NEW t \in Nat
  PROVE  RecordInv(EmptyQueue, <<>>, n, n, S, t)
<1>1. <<>> \in Seq(1..n) /\ Len(<<>>) = 0 /\ MaxSize \in Nat
  BY EmptySeq, QueueAssumption
<1>2. /\ EmptyQueue \in QueueRecords(n, S) /\ EmptyQueue.buffer = <<>>
      /\ EmptyQueue.inFlight = NoSend /\ EmptyQueue.attempts = 0
      /\ EmptyQueue.listener = NoSub
  BY <1>1 DEF EmptyQueue, QueueRecords
<1>3. EmptyQueue.inFlight.outcome = "none" /\ ~Draining(EmptyQueue)
  BY <1>2 DEF NoSend, Draining
<1>4. Due(EmptyQueue) = 0 /\ Gone(EmptyQueue, <<>>) = 0 /\ Serving(EmptyQueue)
  BY <1>1, <1>2, <1>3 DEF Due, Gone, Serving
<1>5. Contiguous(EmptyQueue, <<>>, n, n)
  BY <1>1, <1>2, <1>3, <1>4 DEF Contiguous
<1> HIDE DEF EmptyQueue
<1> QED BY <1>1, <1>2, <1>4, <1>5 DEF RecordInv

LEMMA SubscribeFreshKeeps ==
  ASSUME SseInv, NEW c \in Conns, NEW m \in Modes, SubscribeFresh(c, m)
  PROVE  SseInv'
<1> USE DEF SseInv
<1> DEFINE q == Len(modes) + 1
<1>1. /\ subscription[c] = NoSub /\ Register(c, m, q) /\ orphans' = LiveOrphans
      /\ Len(modes) < MaxQueues
      /\ modes' = Append(modes, m) /\ born' = Append(born, events)
  BY DEF SubscribeFresh, CanSubscribe
<1>2. /\ Made = 1..Len(modes) /\ Len(modes) \in Nat /\ Made \subseteq Queues
      /\ Len(born) = Len(modes) /\ MaxQueues \in Nat /\ events \in Nat /\ throws \in Nat
  BY Facts, SseAssumption DEF Typed
<1>3. q \in Queues /\ q \notin Made /\ 1..q = 1..Len(modes) \cup {q}
  BY <1>1, <1>2 DEF Queues
<1>4. /\ modes' \in Seq(Modes) /\ Len(modes') = q
      /\ \A p \in Made : modes'[p] = modes[p]
      /\ modes'[q] = m
  BY <1>1, <1>2, AppendFacts DEF Typed
<1>5. /\ born' \in Seq(Nat) /\ Len(born') = q
      /\ \A p \in Made : born'[p] = born[p]
      /\ born'[q] = events
  BY <1>1, <1>2, AppendFacts DEF Typed
<1>6. Made' = Made \cup {q} /\ q <= MaxQueues
  <2>1. DOMAIN modes' = 1..q
    BY <1>4, LenProperties
  <2> QED BY <1>1, <1>2, <1>3, <2>1 DEF Made
<1>7. q \notin Attached /\ q \notin Expired /\ q \notin ToSet(LiveOrphans)
  BY <1>3, AttachedFacts, OrphanFacts DEF Waits
<1>8. ~queue[q].disposed /\ RecordInv(queue[q], sent[q], events, events, SubsOf(m), throws)
  <2>1. queue[q] = EmptyQueue /\ sent[q] = <<>>
    BY <1>3 DEF Unmade
  <2>2. ~EmptyQueue.disposed
    BY DEF EmptyQueue
  <2> QED BY <1>2, <2>1, <2>2, EmptyQueueFacts
<1>9. /\ orphans' \in Seq(Queues)
      /\ \A p : p \in ToSet(orphans') <=> p \in ToSet(LiveOrphans)
      /\ \A j, k \in DOMAIN orphans' : orphans'[j] = orphans'[k] => j = k
  BY <1>1, OrphanFacts
<1> HIDE DEF q
<1>10. \A p : p \in ToSet(orphans') <=> p \in ToSet(LiveOrphans) /\ p # q
  BY <1>7, <1>9
<1> QED BY <1>1, <1>2, <1>3, <1>4, <1>5, <1>6, <1>7, <1>8, <1>9, <1>10, RegisterKeeps

-------------------------------------------------------------------------------
(* The invariant.                                                             *)

LEMMA SseInvInit ==
  Init => SseInv
<1> SUFFICES ASSUME Init PROVE SseInv
  OBVIOUS
<1> USE DEF Init
<1>1. /\ \A T : <<>> \in Seq(T)
      /\ Len(<<>>) = 0 /\ DOMAIN <<>> = {}
  <2>1. \A T : <<>> \in Seq(T) /\ Len(<<>>) = 0
    BY EmptySeq
  <2>2. DOMAIN <<>> = 1..0
    BY <2>1, LenProperties
  <2> QED BY <2>1, <2>2
<1>2. Made = {} /\ Subscribed = {} /\ DOMAIN orphans = {}
  BY <1>1 DEF Made, Subscribed
<1>3. Typed
  BY <1>1, SseAssumption DEF Typed, Subs
<1>4. RecordsKept /\ Unmade
  BY <1>2 DEF RecordsKept, Unmade
<1>5. Placed
  BY <1>2 DEF Placed
<1> QED BY <1>3, <1>4, <1>5 DEF SseInv

LEMMA SseInvNext ==
  SseInv /\ [Next]_vars => SseInv'
<1> SUFFICES ASSUME SseInv, [Next]_vars PROVE SseInv'
  OBVIOUS
<1>1. CASE \E c \in Conns, m \in Modes : SubscribeAdopting(c, m)
  BY <1>1, SubscribeAdoptingKeeps
<1>2. CASE \E c \in Conns, m \in Modes : SubscribeFresh(c, m)
  BY <1>2, SubscribeFreshKeeps
<1>3. CASE \E c \in Conns : Unsubscribe(c)
  BY <1>3, UnsubscribeKeeps
<1>4. CASE EnqueueEvent
  BY <1>4, EnqueueEventKeeps
<1>5. CASE WindowPasses \/ LinkDrops \/ Reconnect
  BY <1>5, RelayStepKeeps
<1>6. CASE ReadLoopEnds
  BY <1>6, ReadLoopEndsKeeps
<1>7. CASE Stop
  BY <1>7, StopKeeps
<1>8. CASE \E q \in Queues : SendSucceeds(q)
  BY <1>8, SendSucceedsKeeps
<1>9. CASE \E q \in Queues : SendIsStale(q)
  BY <1>9, SendIsStaleKeeps
<1>10. CASE \E q \in Queues : SendThrows(q)
  BY <1>10, SendThrowsKeeps
<1>11. CASE \E q \in Queues : DrainResumes(q)
  BY <1>11, DrainResumesKeeps
<1>12. CASE UNCHANGED vars
  <2>1. UNCHANGED <<queue, modes, subs, subscriber, subscription, orphans, expired, link,
                    events, throws, born, sent>>
    BY <1>12 DEF vars, registry, relay
  <2>2. Typed'
    BY <2>1 DEF SseInv, Typed, Subs
  <2>3. RecordsKept' /\ Unmade'
    BY <2>1 DEF SseInv, RecordsKept, Unmade, Made, SubsOf, Subs
  <2>4. Placed'
    BY <2>1, SamePlaces DEF SseInv
  <2> QED BY <2>2, <2>3, <2>4 DEF SseInv
<1> QED BY <1>1, <1>2, <1>3, <1>4, <1>5, <1>6, <1>7, <1>8, <1>9, <1>10, <1>11, <1>12 DEF Next

-------------------------------------------------------------------------------
(* What the invariant gives.                                                  *)

LEMMA SseInvAlways ==
  Spec => []SseInv
BY SseInvInit, SseInvNext, PTL DEF Spec

LEMMA InvTypes ==
  SseInv => TypeOK
<1> SUFFICES ASSUME SseInv PROVE TypeOK
  OBVIOUS
<1>1. ASSUME NEW q \in Queues
      PROVE  /\ queue[q].buffer \in Seq(1..events)
             /\ Len(queue[q].buffer) <= MaxSize
             /\ queue[q].listener \in Subs \cup {NoSub}
             /\ queue[q].attempts \in 0..MaxAttempts - 1
             /\ Draining(queue[q]) => queue[q].inFlight.sub \in Subs
             /\ queue[q].inFlight.event \in 0..events
             /\ sent[q] \in Seq(1..events)
  <2>1. CASE q \in Made
    <3> DEFINE S == SubsOf(modes[q])
    <3>1. RecordInv(queue[q], sent[q], events, born[q], S, throws) /\ S \subseteq Subs
      BY <2>1, Facts DEF SseInv, RecordsKept
    <3> HIDE DEF S
    <3>2. queue[q] \in QueueRecords(events, S) /\ throws \in Nat /\ throws <= MaxAttempts - 1
          /\ events \in Nat
      BY <3>1, Facts DEF RecordInv, SseInv, Typed
    <3>3. queue[q].attempts \in Nat /\ queue[q].attempts <= throws
      BY <3>1, <3>2, RecordFacts DEF RecordInv, Due
    <3>4. queue[q].inFlight.event \in 0..events
      <4>1. CASE Draining(queue[q])
        BY <3>2, <4>1, RecordFacts
      <4>2. CASE ~Draining(queue[q])
        BY <3>2, <4>2, RecordFacts DEF NoSend
      <4> QED BY <4>1, <4>2
    <3>5. /\ queue[q].buffer \in Seq(1..events) /\ queue[q].listener \in S \cup {NoSub}
          /\ Draining(queue[q]) => queue[q].inFlight.sub \in S
      BY <3>2, RecordFacts
    <3>6. queue[q].attempts \in 0..MaxAttempts - 1
      BY <3>2, <3>3, QueueAssumption
    <3> QED BY <3>1, <3>4, <3>5, <3>6 DEF RecordInv
  <2>2. CASE q \notin Made
    <3>1. queue[q] = EmptyQueue /\ sent[q] = <<>>
      BY <2>2 DEF SseInv, Unmade
    <3>2. <<>> \in Seq(1..events) /\ Len(<<>>) = 0
      BY EmptySeq
    <3>3. /\ 0 \in 0..MaxAttempts - 1 /\ 0 \in 0..events /\ 0 <= MaxSize
      BY QueueAssumption DEF SseInv, Typed
    <3>4. /\ queue[q].buffer = <<>> /\ queue[q].listener = NoSub /\ queue[q].attempts = 0
          /\ queue[q].inFlight = NoSend /\ NoSend.event = 0 /\ ~Draining(queue[q])
      BY <3>1 DEF EmptyQueue, Draining, NoSend
    <3> QED BY <3>1, <3>2, <3>3, <3>4
  <2> QED BY <2>1, <2>2
<1>2. /\ modes \in Seq(Modes) /\ Len(modes) <= MaxQueues
      /\ subs \in Seq([conn : Conns, link : 1..link, mode : Modes])
      /\ subscriber \in [Conns -> Queues \cup {NoQueue}]
      /\ subscription \in [Conns -> Subs \cup {NoSub}]
      /\ orphans \in Seq(Queues) /\ expired \in 0..Len(orphans)
      /\ throws \in 0..MaxThrows
  BY DEF SseInv, Typed
<1> QED BY <1>1, <1>2 DEF TypeOK

LEMMA InvPlaces ==
  SseInv => QueuesPlaced
<1> SUFFICES ASSUME SseInv, NEW q \in Made
             PROVE  LET holders == {c \in Conns : subscriber[c] = q}
                        places  == {i \in DOMAIN orphans : orphans[i] = q}
                    IN  /\ queue[q].disposed => holders = {} /\ places = {}
                        /\ ~queue[q].disposed /\ holders = {} =>
                             (\E i \in places : places = {i}) /\ queue[q].listener = NoSub
                        /\ holders # {} =>
                             /\ places = {}
                             /\ \E c \in holders : /\ holders = {c}
                                                  /\ queue[q].listener = subscription[c]
                                                  /\ subscription[c] # NoSub
  BY InvTypes DEF QueuesPlaced
<1> USE DEF SseInv
<1> DEFINE holders == {c \in Conns : subscriber[c] = q}
           places  == {i \in DOMAIN orphans : orphans[i] = q}
<1>1. q # NoQueue
  BY Facts
<1>2. \A c \in holders : c \in Subscribed /\ Serves(c) /\ subscriber[c] = q /\ q \in Attached
                          /\ subscription[c] # NoSub
  BY <1>1, AttachedFacts DEF Placed, Subscribed
<1>3. \A i \in places : Waits(q) /\ q \in ToSet(orphans) /\ q \notin Attached
  BY OrphanFacts DEF ToSet
<1>4. queue[q].disposed => holders = {} /\ places = {}
  BY <1>2, <1>3 DEF Serves, Waits
<1>5. ASSUME ~queue[q].disposed, holders = {}
      PROVE  (\E i \in places : places = {i}) /\ queue[q].listener = NoSub
  <2>1. q \notin Attached
    BY <1>5 DEF Attached
  <2>2. PICK i \in DOMAIN orphans : orphans[i] = q
    BY <1>5, <2>1 DEF Placed, ToSet
  <2>3. i \in places /\ places = {i}
    BY <2>2 DEF Placed
  <2>4. queue[q].listener = NoSub
    BY <1>3, <2>3 DEF Waits
  <2> QED BY <2>3, <2>4
<1>6. ASSUME holders # {}
      PROVE  /\ places = {}
             /\ \E c \in holders : /\ holders = {c}
                                   /\ queue[q].listener = subscription[c]
                                   /\ subscription[c] # NoSub
  <2>1. PICK c \in holders : TRUE
    BY <1>6
  <2>2. holders = {c}
    BY <1>2, <2>1, HoldersDiffer
  <2>3. places = {}
    BY <1>2, <1>3, <2>1
  <2>4. queue[q].listener = subscription[c] /\ subscription[c] # NoSub
    BY <1>2, <2>1 DEF Serves
  <2> QED BY <2>1, <2>2, <2>3, <2>4
<1> HIDE DEF holders, places
<1> QED BY <1>4, <1>5, <1>6 DEF holders, places

LEMMA InvIsolates ==
  SseInv => ModeIsolation
<1> SUFFICES ASSUME SseInv, NEW q \in Queues, Draining(queue[q])
             PROVE  subs[Sender(q)].mode = modes[q]
  BY DEF ModeIsolation
<1>1. q \in Made
  <2>1. ~Draining(EmptyQueue)
    BY DEF Draining, EmptyQueue
  <2> QED BY <2>1 DEF SseInv, Unmade
<1>2. queue[q] \in QueueRecords(events, SubsOf(modes[q]))
  BY <1>1 DEF SseInv, RecordsKept, RecordInv
<1>3. Sender(q) \in SubsOf(modes[q])
  BY <1>2, RecordFacts DEF Sender
<1> QED BY <1>3 DEF SubsOf

LEMMA InvServes ==
  SseInv => BacklogIsServed
<1> SUFFICES ASSUME SseInv, NEW q \in Attached, queue[q].buffer # <<>>, ~Draining(queue[q])
             PROVE  queue[q].attempts > 0
  BY DEF BacklogIsServed
<1>1. q \in Made /\ ~queue[q].disposed /\ queue[q].listener # NoSub
  BY AttachedFacts DEF SseInv
<1> QED BY <1>1 DEF SseInv, RecordsKept, RecordInv, Serving

\* Contiguous, as one sequence.
LEMMA ContiguousFacts ==
  ASSUME NEW n \in Nat, NEW b \in Nat, NEW S, NEW r \in QueueRecords(n, S), NEW s \in Seq(1..n),
         Contiguous(r, s, n, b)
  PROVE  s \o (IF r.inFlight.outcome = "sent" THEN Tail(r.buffer) ELSE r.buffer)
           = [i \in 1..n - b |-> b + i]
<1> DEFINE u == IF r.inFlight.outcome = "sent" THEN Tail(r.buffer) ELSE r.buffer
           k == Len(s)
<1>1. /\ r.buffer \in Seq(1..n) /\ Len(r.buffer) \in Nat
      /\ k \in Nat /\ Gone(r, s) \in Nat
      /\ Gone(r, s) + Len(r.buffer) = n - b
      /\ \A i \in 1..k : s[i] = b + i
      /\ \A i \in 1..Len(r.buffer) : r.buffer[i] = b + Gone(r, s) + i
  BY RecordFacts, LenProperties DEF Contiguous
<1>2. /\ u \in Seq(1..n) /\ Len(u) \in Nat /\ k + Len(u) = n - b
      /\ \A i \in 1..Len(u) : u[i] = b + k + i
  <2>1. CASE r.inFlight.outcome = "sent"
    <3>1. r.buffer # <<>> /\ Gone(r, s) = k - 1
      BY <2>1, RecordFacts DEF Contiguous, Gone
    <3>2. /\ Tail(r.buffer) \in Seq(1..n) /\ Len(r.buffer) \in Nat \ {0}
          /\ Len(Tail(r.buffer)) = Len(r.buffer) - 1
          /\ \A i \in 1..Len(r.buffer) - 1 : Tail(r.buffer)[i] = r.buffer[i + 1]
      BY <1>1, <3>1, TailFacts
    <3>3. ASSUME NEW i \in 1..Len(r.buffer) - 1 PROVE Tail(r.buffer)[i] = b + k + i
      <4>1. i + 1 \in 1..Len(r.buffer) /\ b + (k - 1) + (i + 1) = b + k + i
        BY <1>1, <3>2, <3>3
      <4>2. r.buffer[i + 1] = b + Gone(r, s) + (i + 1)
        BY <1>1, <4>1
      <4> QED BY <3>1, <3>2, <4>1, <4>2
    <3> QED BY <1>1, <2>1, <3>1, <3>2, <3>3
  <2>2. CASE r.inFlight.outcome # "sent"
    <3>1. Gone(r, s) = k
      BY <2>2 DEF Gone
    <3> QED BY <1>1, <2>2, <3>1
  <2> QED BY <2>1, <2>2
<1> HIDE DEF u, k
<1>3. /\ s \o u \in Seq(1..n) /\ Len(s \o u) = k + Len(u)
      /\ \A i \in 1..k + Len(u) : (s \o u)[i] = IF i <= k THEN s[i] ELSE u[i - k]
  BY <1>2, ConcatProperties DEF k
<1>4. ASSUME NEW i \in 1..n - b PROVE (s \o u)[i] = b + i
  <2>1. (s \o u)[i] = IF i <= k THEN s[i] ELSE u[i - k]
    BY <1>2, <1>3
  <2>2. CASE i <= k
    <3>1. i \in 1..k
      BY <1>1, <1>2, <2>2
    <3> QED BY <1>1, <2>1, <2>2, <3>1
  <2>3. CASE ~(i <= k)
    <3>1. i - k \in 1..Len(u) /\ b + k + (i - k) = b + i
      BY <1>1, <1>2, <2>3
    <3>2. u[i - k] = b + k + (i - k)
      BY <1>2, <3>1
    <3> QED BY <2>1, <2>3, <3>1, <3>2
  <2> QED BY <2>2, <2>3
<1>5. s \o u \in [1..n - b -> 1..n]
  BY <1>2, <1>3, LenProperties
<1>6. s \o u = [i \in 1..n - b |-> b + i]
  BY <1>4, <1>5
<1> QED BY <1>6 DEF u

LEMMA InvLosesNothing ==
  SseInv => TurnoverLosesNothing
<1> SUFFICES ASSUME SseInv, NEW q \in Made, ~queue[q].disposed, events - born[q] <= MaxSize
             PROVE  sent[q] \o (IF queue[q].inFlight.outcome = "sent"
                                THEN Tail(queue[q].buffer) ELSE queue[q].buffer)
                      = [i \in 1..events - born[q] |-> born[q] + i]
  BY DEF TurnoverLosesNothing
<1> DEFINE r == queue[q]
           s == sent[q]
           b == born[q]
           S == SubsOf(modes[q])
<1>1. /\ b \in Nat /\ events \in Nat /\ r \in QueueRecords(events, S) /\ s \in Seq(1..events)
      /\ Contiguous(r, s, events, b)
  BY Facts DEF SseInv, Typed, RecordsKept, RecordInv
<1> HIDE DEF r, s, b, S
<1>2. s \o (IF r.inFlight.outcome = "sent" THEN Tail(r.buffer) ELSE r.buffer)
        = [i \in 1..events - b |-> b + i]
  BY <1>1, ContiguousFacts
<1> QED BY <1>2 DEF r, s, b

\* Only a stale send drops a subscription as it fails: its own, which is not on the current link.
LEMMA NextSpares ==
  ASSUME SseInv, Next, NEW q \in Queues, NEW c \in Subscribed,
         Sending(q), queue'[q].inFlight.outcome = "failed", OnCurrentLink(subscription[c])
  PROVE  subscription'[c] = subscription[c]
<1>1. /\ c \in Conns /\ subscription[c] # NoSub /\ q \in Made
      /\ queue[q].inFlight.outcome = "pending"
  BY DrainingIsMade DEF Subscribed, Sending
<1>2. ASSUME NEW C \in SUBSET Conns PROVE queue' # Released(C)
  BY <1>1, ReleasedFacts
<1>3. CASE \E d \in Conns, m \in Modes : SubscribeAdopting(d, m) \/ SubscribeFresh(d, m)
  <2>1. PICK d \in Conns : /\ subscription[d] = NoSub
                           /\ \E s : subscription' = [subscription EXCEPT ![d] = s]
    BY <1>3 DEF SubscribeAdopting, SubscribeFresh, CanSubscribe, Register
  <2>2. c # d
    BY <1>1, <2>1
  <2> QED BY <1>1, <2>1, <2>2 DEF SseInv, Typed
<1>4. CASE \E d \in Conns : Unsubscribe(d)
  <2>1. PICK d \in Conns : queue' = Released(Leaving(d)) /\ Leaving(d) \in SUBSET Conns
    BY <1>4 DEF Unsubscribe, Leaving
  <2> QED BY <1>2, <2>1
<1>5. CASE EnqueueEvent \/ WindowPasses \/ LinkDrops \/ Reconnect
  BY <1>5 DEF EnqueueEvent, WindowPasses, LinkDrops, Reconnect, registry
<1>6. CASE ReadLoopEnds
  <2>1. queue' = Released(Subscribed) /\ Subscribed \in SUBSET Conns
    BY <1>6 DEF ReadLoopEnds, Subscribed
  <2> QED BY <1>2, <2>1
<1>7. CASE Stop
  <2>1. queue'[q] = Dispose(queue[q]) \/ queue'[q] = queue[q]
    BY <1>7 DEF Stop
  <2>2. /\ queue[q] \in QueueRecords(events, SubsOf(modes[q]))
    BY <1>1 DEF SseInv, RecordsKept, RecordInv
  <2>3. Dispose(queue[q]).inFlight = queue[q].inFlight
    BY <2>2 DEF Dispose, QueueRecords
  <2> QED BY <1>1, <2>1, <2>3
<1>8. CASE \E p \in Queues : SendSucceeds(p) \/ SendThrows(p) \/ DrainResumes(p)
  BY <1>8 DEF SendSucceeds, SendThrows, DrainResumes, registry
<1>9. CASE \E p \in Queues : SendIsStale(p)
  <2>1. PICK p \in Queues : SendIsStale(p)
    BY <1>9
  <2> DEFINE s == Sender(p)
             C == IF Owns(s) THEN Leaving(subs[s].conn) ELSE {}
  <2>2. ~OnCurrentLink(s) /\ Orphan(C)
    BY <2>1 DEF SendIsStale
  <2>3. c \in C => subscription[c] = s
    BY DEF Owns, Leaving
  <2>4. c \notin C
    BY <2>2, <2>3
  <2>5. subscription' = [d \in Conns |-> IF d \in C THEN NoSub ELSE subscription[d]]
    BY <2>2 DEF Orphan
  <2> HIDE DEF C
  <2> QED BY <1>1, <2>4, <2>5
<1> QED BY <1>3, <1>4, <1>5, <1>6, <1>7, <1>8, <1>9 DEF Next

-------------------------------------------------------------------------------
(* The theorems.                                                              *)

\* Every variable has its type; a buffer is never longer than it may be, and no queue
\* has been charged as many failures as make an event poison.
THEOREM SseTypes ==
  Spec => []TypeOK
BY SseInvAlways, InvTypes, PTL

\* Through subscriptions, link turnovers, passing windows and stale sends, every live
\* queue serves one connection, which listens to it, or is one orphan without a listener.
THEOREM SseQueuesPlaced ==
  Spec => []QueuesPlaced
BY SseInvAlways, InvPlaces, PTL

\* No event is delivered to a subscription of another attachment mode than its queue's.
THEOREM SseModeIsolation ==
  Spec => []ModeIsolation
BY SseInvAlways, InvIsolates, PTL

\* A live queue that was not given more than it retains has sent, in order and once,
\* everything enqueued since it was made, but for what it still has.
THEOREM SseTurnoverLosesNothing ==
  Spec => []TurnoverLosesNothing
BY SseInvAlways, InvLosesNothing, PTL

\* A subscribed queue with a backlog is sending it, or its last send threw.
THEOREM SseBacklogIsServed ==
  Spec => []BacklogIsServed
BY SseInvAlways, InvServes, PTL

\* A send that fails never ends a subscription that was made over the current link.
THEOREM SseSuccessorIsSpared ==
  Spec => SuccessorIsSpared
<1>1. SseInv /\ [Next]_vars =>
        [\A q \in Queues, c \in Subscribed :
           Sending(q) /\ queue'[q].inFlight.outcome = "failed" /\ OnCurrentLink(subscription[c])
             => subscription'[c] = subscription[c]]_vars
  BY NextSpares
<1> QED BY <1>1, SseInvAlways, PTL DEF Spec, SuccessorIsSpared
===============================================================================
