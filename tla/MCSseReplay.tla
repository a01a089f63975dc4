------------------------------ MODULE MCSseReplay ------------------------------
(***************************************************************************)
(* The replay promise of SSEManager.unsubscribe, seen from the phones: each *)
(* connection id is one phone, which comes back under the same id.          *)
(***************************************************************************)
EXTENDS SseManager

VARIABLES home,    \* home[q]: the phone q served last
          handed,  \* handed[c]: the events sent to c's connections
          since    \* since[c]: the events up to there came before c's queue

history == <<home, handed, since>>

PhoneOf(s) == subs[s].conn

\* A live orphan that phone c left, of the mode it asks for again.
LeftBehind(c, m) == {q \in ToSet(LiveOrphans) : home[q] = c /\ modes[q] = m}

InitHistory == /\ home = [q \in Queues |-> NoQueue]
               /\ handed = [c \in Conns |-> {}]
               /\ since = [c \in Conns |-> 0]

RecordHistory ==
  /\ home' = [q \in Queues |-> IF \E c \in Conns : subscriber'[c] = q
                               THEN CHOOSE c \in Conns : subscriber'[c] = q
                               ELSE home[q]]
  /\ handed' = [c \in Conns |-> handed[c] \cup
       {queue[q].inFlight.event : q \in {r \in Queues : /\ Sending(r)
                                                        /\ sent'[r] # sent[r]
                                                        /\ PhoneOf(Sender(r)) = c}}]
  /\ since' = [c \in Conns |->
       IF subs' # subs /\ subs'[Len(subs')].conn = c
            /\ LeftBehind(c, subs'[Len(subs')].mode) = {}
       THEN events ELSE since[c]]

ReplaySpec == Init /\ InitHistory /\ [][Next /\ RecordHistory]_<<vars, history>>

(* The comment of unsubscribe: a phone that reconnects within the window gets all the  *)
(* events its orphan buffered.  So a subscribed phone whose queues never expired has   *)
(* been sent, or will be sent from the queue it holds, every event since it first came. *)
ReplayReachesPhone ==
  \A c \in Subscribed :
    (since[c] + 1)..events \subseteq handed[c] \cup ToSet(queue[subscriber[c]].buffer)
===============================================================================
