---------------------------- MODULE QueueDelivery ----------------------------
(***************************************************************************)
(* One EventQueue under every interleaving of its callers: a producer that *)
(* enqueues, an owner that attaches and cancels listeners and disposes of  *)
(* the queue, and the awaited callback of a delivery, which may end long   *)
(* after the subscription it was started for is gone.  Events are numbered *)
(* in the order they are enqueued.                                         *)
(***************************************************************************)
EXTENDS EventQueue, FiniteSets

CONSTANTS MaxEvents,   \* bound: events enqueued
          MaxListens   \* bound: listeners attached, numbered from 1

ASSUME DeliveryAssumption == MaxEvents \in Nat /\ MaxListens \in Nat /\ NoSub \notin Nat

VARIABLES queue,      \* the queue's record
          enqueued,   \* events enqueued so far
          listens,    \* listeners attached so far
          sent,       \* events whose delivery succeeded, in order (auxiliary)
          overflows,  \* events dropped because the buffer was full (auxiliary)
          poisoned,   \* events dropped after failures, in order (auxiliary)
          failures    \* failures[e]: failures of e reported to onError (auxiliary)

vars == <<queue, enqueued, listens, sent, overflows, poisoned, failures>>

Events == 1..MaxEvents
Subs == 1..MaxListens

Init == /\ queue = EmptyQueue
        /\ enqueued = 0
        /\ listens = 0
        /\ sent = <<>>
        /\ overflows = 0
        /\ poisoned = <<>>
        /\ failures = [e \in Events |-> 0]

Produce == /\ enqueued < MaxEvents
           /\ ~queue.disposed
           /\ enqueued' = enqueued + 1
           /\ queue' = Enqueue(queue, enqueued + 1)
           /\ overflows' = IF Len(queue.buffer) = MaxSize THEN overflows + 1 ELSE overflows
           /\ UNCHANGED <<listens, sent, poisoned, failures>>

Attach == /\ listens < MaxListens
          /\ CanListen(queue)
          /\ listens' = listens + 1
          /\ queue' = Listen(queue, listens + 1)
          /\ UNCHANGED <<enqueued, sent, overflows, poisoned, failures>>

Cancel == /\ queue.listener # NoSub
          /\ queue' = Detach(queue)
          /\ UNCHANGED <<enqueued, listens, sent, overflows, poisoned, failures>>

DisposeQueue == /\ ~queue.disposed
                /\ queue' = Dispose(queue)
                /\ UNCHANGED <<enqueued, listens, sent, overflows, poisoned, failures>>

Pending == queue.inFlight.outcome = "pending"

CallbackReturns == /\ Pending
                   /\ queue' = Ended(queue, "sent")
                   /\ sent' = Append(sent, queue.inFlight.event)
                   /\ UNCHANGED <<enqueued, listens, overflows, poisoned, failures>>

CallbackThrows == /\ Pending
                  /\ queue' = Ended(queue, "failed")
                  /\ UNCHANGED <<enqueued, listens, sent, overflows, poisoned, failures>>

\* The loop resumes after a success: the head is removed.
ResumeSent == /\ queue.inFlight.outcome = "sent"
              /\ queue' = Resume(queue)
              /\ UNCHANGED <<enqueued, listens, sent, overflows, poisoned, failures>>

\* The loop resumes after a failure of a detached listener: the head is kept.
ResumeDetached == /\ queue.inFlight.outcome = "failed"
                  /\ ~Charged(queue)
                  /\ queue' = Resume(queue)
                  /\ UNCHANGED <<enqueued, listens, sent, overflows, poisoned, failures>>

\* The loop resumes after a failure that counts: report it, then drop or keep the head.
ResumeFailed == /\ queue.inFlight.outcome = "failed"
                /\ Charged(queue)
                /\ queue' = Resume(queue)
                /\ failures' = [failures EXCEPT ![queue.inFlight.event] = @ + 1]
                /\ poisoned' = IF IsPoison(queue) THEN Append(poisoned, Head(queue.buffer))
                                                  ELSE poisoned
                /\ UNCHANGED <<enqueued, listens, sent, overflows>>

Resumes == ResumeSent \/ ResumeDetached \/ ResumeFailed

Next == \/ Produce \/ Attach \/ Cancel \/ DisposeQueue
        \/ CallbackReturns \/ CallbackThrows
        \/ ResumeSent \/ ResumeDetached \/ ResumeFailed

Spec == Init /\ [][Next]_vars

\* The microtask queue resumes the loop; a callback ends, one way or the other.
FairSpec == Spec /\ WF_vars(CallbackReturns \/ CallbackThrows) /\ WF_vars(Resumes)

-------------------------------------------------------------------------------
QueueRecords ==
  [buffer : Seq(Events), listener : Subs \cup {NoSub},
   inFlight : [event : Events, sub : Subs, outcome : {"pending", "sent", "failed"}]
                \cup {NoSend},
   attempts : 0..MaxAttempts - 1, disposed : BOOLEAN]

(* The values of the variables; the buffer never exceeds its limit, nor the *)
(* failure count the number of attempts.                                     *)
TypeOK ==
  /\ queue \in QueueRecords
  /\ Len(queue.buffer) <= MaxSize
  /\ enqueued \in 0..MaxEvents
  /\ listens \in 0..MaxListens
  /\ sent \in Seq(Events)
  /\ overflows \in Nat
  /\ poisoned \in Seq(Events)
  /\ failures \in [Events -> Nat]

Increasing(s) == \A i, j \in DOMAIN s : i < j => s[i] < s[j]

(* Events reach the listeners in the order they were enqueued and none twice,  *)
(* whichever listeners take over in between and whenever a callback ends.       *)
InOrderOnce == Increasing(sent)

(* Nothing vanishes unpaid: of a live queue's events, those neither delivered   *)
(* nor buffered are as many as overflow and the attempt limit dropped, at most.  *)
LossIsAccounted ==
  ~queue.disposed =>
      enqueued <= Len(sent) + Len(queue.buffer) + overflows + Len(poisoned)

(* A queue with a listener and a backlog is either delivering or waiting for a  *)
(* retry after a failure: no interleaving of attach, cancel and completion loses *)
(* the wakeup of the drain loop.                                                 *)
NoLostWakeup ==
  queue.listener # NoSub /\ queue.buffer # <<>> /\ ~Draining(queue) => queue.attempts > 0

\* Buffer and deliveries are in order, and numbered up to n.
Sorted(q, n, s) ==
  /\ Increasing(q.buffer) /\ Increasing(s)
  /\ \A k \in DOMAIN q.buffer : q.buffer[k] <= n
  /\ \A k \in DOMAIN s : s[k] <= n
  /\ q.disposed => q.buffer = <<>> /\ q.listener = NoSub

Fresh(q, s) == \A i \in DOMAIN s, k \in DOMAIN q.buffer : s[i] < q.buffer[k]

\* A delivery in flight is for the head, or for an event evicted meanwhile.
FlightOK(q, n, s) ==
  LET event == q.inFlight.event
  IN  /\ event <= n
      /\ \A k \in DOMAIN q.buffer : event <= q.buffer[k]
      /\ q.disposed \/ q.buffer # <<>>
      /\ IF q.inFlight.outcome = "sent"
         THEN s # <<>> /\ s[Len(s)] = event
         ELSE Fresh(q, s) /\ \A i \in DOMAIN s : s[i] < event

Consistent(q, n, s) ==
  Sorted(q, n, s) /\ IF Draining(q) THEN FlightOK(q, n, s) ELSE Fresh(q, s)

\* Every event of a live queue is in exactly one account.
Accounted ==
  ~queue.disposed =>
     enqueued + (IF queue.inFlight.outcome = "sent" THEN 1 ELSE 0)
       = Len(sent) + Len(queue.buffer) + overflows + Len(poisoned)

(* The inductive invariant: the buffer is in order and younger than everything *)
(* delivered, but for a head whose delivery has just succeeded and is about to  *)
(* be removed; a delivery in flight is younger than everything delivered.       *)
DeliveryInv == Consistent(queue, enqueued, sent) /\ Accounted

(* While callbacks succeed and the listener stays, the backlog is delivered.     *)
BacklogDrains ==
  queue.buffer # <<>> /\ queue.listener # NoSub
     ~> queue.buffer = <<>> \/ queue.listener = NoSub \/ queue.attempts > 0

(* The class comment: an event is dropped after maxAttempts consecutive failures *)
(* on the same event.                                                            *)
PoisonedAfterMaxAttempts ==
  \A i \in DOMAIN poisoned : failures[poisoned[i]] >= MaxAttempts
===============================================================================
