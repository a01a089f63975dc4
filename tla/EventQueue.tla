------------------------------ MODULE EventQueue ------------------------------
(***************************************************************************)
(* EventQueue<T>: a buffered FIFO with at most one listener.  A queue is a *)
(* record; an operator is one method, or one stretch of _drain() between   *)
(* two awaits.  _draining holds exactly while a delivery is awaited, so it *)
(* is inFlight # NoSend here.  An awaited delivery remembers its event and *)
(* the subscription it was started for, and how the callback ended once it *)
(* has: the drain loop resumes in a later microtask.                       *)
(***************************************************************************)
EXTENDS Naturals, Sequences

CONSTANTS MaxSize,      \* events retained at most (50000 for a subscriber queue)
          MaxAttempts,  \* charged failures of a head before it is dropped (5)
          NoSub         \* no active subscription

ASSUME QueueAssumption == MaxSize \in Nat \ {0} /\ MaxAttempts \in Nat \ {0}

NoSend == [event |-> 0, sub |-> NoSub, outcome |-> "none"]

EmptyQueue == [buffer |-> <<>>, listener |-> NoSub, inFlight |-> NoSend,
               attempts |-> 0, disposed |-> FALSE]

Draining(q) == q.inFlight # NoSend

\* The drain loop up to its next await: deliver the head, or stop.
Drain(q) ==
  [q EXCEPT !.inFlight =
     IF q.buffer # <<>> /\ ~q.disposed /\ q.listener # NoSub
     THEN [event |-> Head(q.buffer), sub |-> q.listener, outcome |-> "pending"]
     ELSE NoSend]

\* Fault: a second drain loop is started beside the suspended one.
RestartDrain(q) == Drain(q)

StartDrain(q) == IF Draining(q) THEN q ELSE Drain(q)

\* Fault: a listener is attached without draining the backlog.
ListenQuietly(q, s) == [q EXCEPT !.listener = s]

\* listen(): refused while another listener is attached or after dispose().
CanListen(q) == q.listener = NoSub /\ ~q.disposed
Listen(q, s) == StartDrain([q EXCEPT !.listener = s])

Trimmed(b) == IF Len(b) > MaxSize THEN Tail(b) ELSE b

Enqueue(q, e) ==
  IF q.disposed THEN q
  ELSE StartDrain([q EXCEPT !.buffer = Trimmed(Append(q.buffer, e))])

\* EventQueueSubscription.cancel() of the active subscription.
Detach(q) == [q EXCEPT !.listener = NoSub]

\* Disposal leaves an awaited delivery to end on its own.
Dispose(q) == [q EXCEPT !.buffer = <<>>, !.attempts = 0, !.listener = NoSub,
                        !.disposed = TRUE]

\* The callback returned or threw; the loop has not resumed yet.
Ended(q, outcome) == [q EXCEPT !.inFlight.outcome = outcome]

\* Fault: a delivered head stays.
KeepHead(q) == [q EXCEPT !.attempts = 0]

DropHead(q) == [q EXCEPT !.buffer = IF @ = <<>> THEN @ ELSE Tail(@), !.attempts = 0]

\* Fault: every failure counts, whoever listens by now.
ChargedAnyway(q) == TRUE

\* A failure counts against the head only while its own subscription is active.
Charged(q) == q.listener = q.inFlight.sub

IsPoison(q) == q.attempts + 1 >= MaxAttempts

\* Fault: the head is removed before its delivery is known to have succeeded.
ResumeRemoving(q) == Drain(DropHead(q))

\* Fault: the loop ends after one delivery instead of going on.
ResumeOnce(q) ==
  IF q.inFlight.outcome = "sent" THEN [DropHead(q) EXCEPT !.inFlight = NoSend]
  ELSE IF ~Charged(q) THEN Drain(q)
  ELSE IF IsPoison(q) THEN Drain(DropHead(q))
  ELSE [q EXCEPT !.attempts = @ + 1, !.inFlight = NoSend]

\* The loop resumes behind the awaited callback.
Resume(q) ==
  IF q.inFlight.outcome = "sent" THEN Drain(DropHead(q))
  ELSE IF ~Charged(q) THEN Drain(q)
  ELSE IF IsPoison(q) THEN Drain(DropHead(q))
  ELSE [q EXCEPT !.attempts = @ + 1, !.inFlight = NoSend]
===============================================================================
