------------------------------ MODULE SseManager ------------------------------
(***************************************************************************)
(* SSEManager and the relay link it sends over.  Each phone connection     *)
(* that subscribes has an EventQueue; when the connection or the link goes *)
(* the queue becomes an orphan that keeps buffering, until a subscriber of *)
(* the same attachment mode adopts it or its replay window passes.  A send *)
(* awaits the encryption of its frame, so it may end when its connection,  *)
(* its link or its subscription is gone.                                   *)
(* Links, queues and subscriptions are numbered as they are made; the link *)
(* being read is the last, and open says whether the client still holds it.*)
(***************************************************************************)
EXTENDS EventQueue, SequencesExt

CONSTANTS Conns,      \* connection ids the relay assigns
          Modes,      \* MessageAttachmentDelivery
          NoQueue,
          MaxEvents, MaxSubs, MaxQueues, MaxLinks,   \* bounds on what is numbered
          MaxThrows   \* bound: sends that throw, below the attempt limit

ASSUME SseAssumption ==
  /\ MaxEvents \in Nat /\ MaxSubs \in Nat /\ MaxQueues \in Nat /\ MaxLinks \in Nat
  /\ MaxThrows \in 0..MaxAttempts - 1
  /\ NoQueue \notin Nat /\ NoSub \notin Nat
  /\ IsFiniteSet(Conns)

VARIABLES queue,         \* queue[q]: the EventQueue's record
          modes,         \* the attachment mode of each queue made
          subs,          \* the subscriptions made: connection, link, mode
          subscriber,    \* _subscribers: connection -> queue
          subscription,  \* _subscriptions and _subscriptionOwners: connection -> subscription
          orphans,       \* _orphanQueues, oldest first
          expired,       \* how many of them, from the oldest, are past their window
          link, open,    \* the link read by the relay loop; the client holds it
          reading,       \* the relay loop reads it
          stopped,
          events,        \* events enqueued so far
          throws,        \* sends that threw so far
          born, sent     \* events before q was made; events it sent, in order (auxiliary)

registry == <<subscriber, subscription, orphans, expired>>
relay == <<link, open, reading, stopped>>
vars == <<queue, modes, subs, registry, relay, events, throws, born, sent>>

Queues == 1..MaxQueues
Subs == DOMAIN subs
Attached == {subscriber[c] : c \in Conns} \ {NoQueue}
Expired == {orphans[i] : i \in 1..expired}
LiveOrphans == SubSeq(orphans, expired + 1, Len(orphans))
Made == DOMAIN modes

Init == /\ queue = [q \in Queues |-> EmptyQueue]
        /\ modes = <<>> /\ subs = <<>>
        /\ subscriber = [c \in Conns |-> NoQueue]
        /\ subscription = [c \in Conns |-> NoSub]
        /\ orphans = <<>> /\ expired = 0
        /\ link = 1 /\ open = TRUE /\ reading = TRUE /\ stopped = FALSE
        /\ events = 0 /\ throws = 0
        /\ born = <<>>
        /\ sent = [q \in Queues |-> <<>>]

-------------------------------------------------------------------------------
\* Fault: an orphan is adopted whatever mode it was queued for.
OldestOfAnyMode(m) == IF LiveOrphans = <<>> THEN 0 ELSE 1

\* _popValidOrphan: the place of the oldest live orphan of the mode, or 0.
OldestOrphan(m) == SelectInSeq(LiveOrphans, LAMBDA q : modes[q] = m)

\* A subscription of c for queue q, on the link being read; expired orphans are disposed of.
Register(c, m, q) ==
  LET s == Len(subs) + 1
  IN  /\ Len(subs) < MaxSubs
      /\ subs' = Append(subs, [conn |-> c, link |-> link, mode |-> m])
      /\ subscriber' = [subscriber EXCEPT ![c] = q]
      /\ subscription' = [subscription EXCEPT ![c] = s]
      /\ queue' = [r \in Queues |-> IF r = q THEN Listen(queue[r], s)
                                    ELSE IF r \in Expired THEN Dispose(queue[r])
                                    ELSE queue[r]]
      /\ expired' = 0
      /\ UNCHANGED <<relay, events, throws, sent>>

\* A client subscribes once per connection: c has no subscription.
CanSubscribe(c) == reading /\ subscription[c] = NoSub

SubscribeAdopting(c, m) ==
  LET i == OldestOrphan(m)
  IN  /\ CanSubscribe(c)
      /\ i > 0
      /\ Register(c, m, LiveOrphans[i])
      /\ orphans' = RemoveAt(LiveOrphans, i)
      /\ UNCHANGED <<modes, born>>

SubscribeFresh(c, m) ==
  /\ CanSubscribe(c)
  /\ OldestOrphan(m) = 0
  /\ Len(modes) < MaxQueues
  /\ modes' = Append(modes, m)
  /\ born' = Append(born, events)
  /\ Register(c, m, Len(modes) + 1)
  /\ orphans' = LiveOrphans

\* Fault: the queues of C keep their listeners.
StillListening(C) == queue

\* The queues without the listeners of the connections C.
Released(C) ==
  [q \in Queues |-> IF q \in {subscriber[c] : c \in C} THEN Detach(queue[q]) ELSE queue[q]]

\* The queues of the subscribed connections C become orphans, in the order they subscribed.
Orphan(C) ==
  /\ \E ordered \in [1..Cardinality(C) -> C] :
       /\ ToSet(ordered) = C
       /\ \A i, j \in DOMAIN ordered :
            i < j => subscription[ordered[i]] < subscription[ordered[j]]
       /\ orphans' = orphans \o [i \in DOMAIN ordered |-> subscriber[ordered[i]]]
  /\ subscriber' = [c \in Conns |-> IF c \in C THEN NoQueue ELSE subscriber[c]]
  /\ subscription' = [c \in Conns |-> IF c \in C THEN NoSub ELSE subscription[c]]
  /\ UNCHANGED expired

Subscribed == {c \in Conns : subscription[c] # NoSub}

\* unsubscribe(c) finds a queue, or does nothing.
Leaving(c) == {c} \cap Subscribed

\* phone_disconnected or sse_unsubscribe of c is read.
Unsubscribe(c) ==
  /\ reading
  /\ queue' = Released(Leaving(c))
  /\ Orphan(Leaving(c))
  /\ UNCHANGED <<modes, subs, relay, events, throws, born, sent>>

EnqueueEvent ==
  /\ events < MaxEvents
  /\ events' = events + 1
  /\ queue' = [q \in Queues |->
       IF q \in Attached \cup ToSet(LiveOrphans) THEN Enqueue(queue[q], events + 1)
       ELSE IF q \in Expired THEN Dispose(queue[q])
       ELSE queue[q]]
  /\ orphans' = LiveOrphans
  /\ expired' = 0
  /\ UNCHANGED <<modes, subs, subscriber, subscription, relay, throws, born, sent>>

\* The replay window of the oldest live orphan passes; nothing notices yet.
WindowPasses ==
  /\ expired < Len(orphans)
  /\ expired' = expired + 1
  /\ UNCHANGED <<queue, modes, subs, subscriber, subscription, orphans, relay, events,
                 throws, born, sent>>

\* The socket closes, or its connection is closed for re-authentication.
LinkDrops ==
  /\ open
  /\ open' = FALSE
  /\ UNCHANGED <<queue, modes, subs, registry, link, reading, stopped, events, throws,
                 born, sent>>

\* The relay loop ends, at the end of its stream or by an error: orphanAll().
ReadLoopEnds ==
  /\ reading
  /\ reading' = FALSE
  /\ queue' = Released(Subscribed)
  /\ Orphan(Subscribed)
  /\ UNCHANGED <<modes, subs, link, open, stopped, events, throws, born, sent>>

\* The old connection, if still held, is closed; the loop reads a new one.
Reconnect ==
  /\ ~reading /\ ~stopped
  /\ link < MaxLinks
  /\ link' = link + 1
  /\ open' = TRUE /\ reading' = TRUE
  /\ UNCHANGED <<queue, modes, subs, registry, stopped, events, throws, born, sent>>

\* SSEManager.stop(), after the relay loop was cancelled.
Stop ==
  /\ ~stopped
  /\ stopped' = TRUE /\ reading' = FALSE
  /\ queue' = [q \in Queues |-> IF q \in Attached \cup ToSet(orphans) THEN Dispose(queue[q])
                                                                     ELSE queue[q]]
  /\ subscriber' = [c \in Conns |-> NoQueue]
  /\ subscription' = [c \in Conns |-> NoSub]
  /\ orphans' = <<>> /\ expired' = 0
  /\ UNCHANGED <<modes, subs, link, open, events, throws, born, sent>>

-------------------------------------------------------------------------------
\* The awaited send of q: its subscription, and whether that one's link is still current.
Sending(q) == queue[q].inFlight.outcome = "pending"
Sender(q) == queue[q].inFlight.sub
OnCurrentLink(s) == open /\ subs[s].link = link

\* Fault: whoever holds the connection now is unsubscribed.
HoldsConnection(s) == subscription[subs[s].conn] # NoSub

\* _unsubscribeIfOwned: the connection is still held by this very subscription.
Owns(s) == subscription[subs[s].conn] = s

SendSucceeds(q) ==
  /\ Sending(q)
  /\ OnCurrentLink(Sender(q))
  /\ queue' = [queue EXCEPT ![q] = Ended(@, "sent")]
  /\ sent' = [sent EXCEPT ![q] = Append(@, queue[q].inFlight.event)]
  /\ UNCHANGED <<modes, subs, registry, relay, events, throws, born>>

\* sendIfCurrent is stale: the sender's own subscription is dropped before it throws.
SendIsStale(q) ==
  LET C == IF Owns(Sender(q)) THEN Leaving(subs[Sender(q)].conn) ELSE {}
  IN  /\ Sending(q)
      /\ ~OnCurrentLink(Sender(q))
      /\ queue' = [Released(C) EXCEPT ![q] = Ended(@, "failed")]
      /\ Orphan(C)
      /\ UNCHANGED <<modes, subs, relay, events, throws, born, sent>>

\* The frame cannot be made, or the socket refuses it and the connection is closed.
SendThrows(q) ==
  /\ Sending(q)
  /\ throws < MaxThrows
  /\ throws' = throws + 1
  /\ queue' = [queue EXCEPT ![q] = Ended(@, "failed")]
  /\ open' \in {open, open /\ ~OnCurrentLink(Sender(q))}
  /\ UNCHANGED <<modes, subs, registry, link, reading, stopped, events, born, sent>>

DrainResumes(q) ==
  /\ queue[q].inFlight.outcome \in {"sent", "failed"}
  /\ queue' = [queue EXCEPT ![q] = Resume(@)]
  /\ UNCHANGED <<modes, subs, registry, relay, events, throws, born, sent>>

Next ==
  \/ \E c \in Conns, m \in Modes : SubscribeAdopting(c, m) \/ SubscribeFresh(c, m)
  \/ \E c \in Conns : Unsubscribe(c)
  \/ EnqueueEvent \/ WindowPasses \/ LinkDrops \/ ReadLoopEnds \/ Reconnect \/ Stop
  \/ \E q \in Queues : SendSucceeds(q) \/ SendIsStale(q) \/ SendThrows(q) \/ DrainResumes(q)

Spec == Init /\ [][Next]_vars

-------------------------------------------------------------------------------
(* The values of the variables. *)
TypeOK ==
  /\ \A q \in Queues :
       /\ queue[q].buffer \in Seq(1..events)
       /\ Len(queue[q].buffer) <= MaxSize
       /\ queue[q].listener \in Subs \cup {NoSub}
       /\ queue[q].attempts \in 0..MaxAttempts - 1
       /\ Draining(queue[q]) => queue[q].inFlight.sub \in Subs
       /\ queue[q].inFlight.event \in 0..events
       /\ sent[q] \in Seq(1..events)
  /\ modes \in Seq(Modes) /\ Len(modes) <= MaxQueues
  /\ subs \in Seq([conn : Conns, link : 1..link, mode : Modes])
  /\ subscriber \in [Conns -> Queues \cup {NoQueue}]
  /\ subscription \in [Conns -> Subs \cup {NoSub}]
  /\ orphans \in Seq(Queues) /\ expired \in 0..Len(orphans)
  /\ throws \in 0..MaxThrows

(* Through subscriptions, link turnovers and stale sends, every live queue is in one  *)
(* place: it serves one connection, whose own subscription is its listener, or it is  *)
(* one orphan without a listener.  None leaks, and none is served twice.  (Its first  *)
(* conjunct is the type invariant.)                                                   *)
QueuesPlaced ==
  /\ TypeOK
  /\ \A q \in Made :
       LET holders == {c \in Conns : subscriber[c] = q}
           places  == {i \in DOMAIN orphans : orphans[i] = q}
       IN  /\ queue[q].disposed => holders = {} /\ places = {}
           /\ ~queue[q].disposed /\ holders = {} =>
                (\E i \in places : places = {i}) /\ queue[q].listener = NoSub
           /\ holders # {} =>
                /\ places = {}
                /\ \E c \in holders : /\ holders = {c}
                                      /\ queue[q].listener = subscription[c]
                                      /\ subscription[c] # NoSub

(* subscribePath's promise: an event queued for one attachment mode is never sent, not  *)
(* even by a send still awaited, to a subscription that asked for the other.             *)
ModeIsolation ==
  \A q \in Queues : Draining(queue[q]) => subs[Sender(q)].mode = modes[q]

(* Whatever links and connections come and go, a live queue that was not given more      *)
(* events than it retains has sent, in order and once, everything enqueued since it was  *)
(* made, but for its buffer: a stale send costs neither the event nor an attempt.         *)
TurnoverLosesNothing ==
  \A q \in Made : ~queue[q].disposed /\ events - born[q] <= MaxSize =>
    LET buffer == queue[q].buffer
        unsent == IF queue[q].inFlight.outcome = "sent" THEN Tail(buffer) ELSE buffer
    IN  sent[q] \o unsent = [i \in 1..events - born[q] |-> born[q] + i]

(* A subscribed queue with a backlog is sending it or waiting after a send that threw,   *)
(* also when its listener changed hands during an awaited send.                           *)
BacklogIsServed ==
  \A q \in Attached :
    queue[q].buffer # <<>> /\ ~Draining(queue[q]) => queue[q].attempts > 0

(* _unsubscribeIfOwned: a send that fails late never ends a subscription made over the   *)
(* current link, though it may be of the same connection.                                 *)
SuccessorIsSpared ==
  [][\A q \in Queues, c \in Subscribed :
       Sending(q) /\ queue'[q].inFlight.outcome = "failed" /\ OnCurrentLink(subscription[c])
         => subscription'[c] = subscription[c]]_vars
===============================================================================
