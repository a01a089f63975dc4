------------------------------ MODULE FamilyFifo ------------------------------
(***************************************************************************)
(* What the bridge promises about session work, whatever the machinery:    *)
(* operations are admitted in arrival order, each is placed on the lane of *)
(* its session family in that order, the operations of one lane run one at *)
(* a time in arrival order, lanes do not wait for one another, and once    *)
(* admission is closed and the drain has answered nothing is still to run. *)
(* SessionLanes.tla, the dispatcher's own state machine, implements it.    *)
(***************************************************************************)
EXTENDS Naturals

CONSTANTS Ops,      \* the operations a client or a timer may ask for
          Lanes,    \* the session families
          NoLane    \* the lane of an operation that has none yet

VARIABLES open,     \* operations are still admitted
          drained,  \* the drain has answered
          arrived,  \* how many operations were admitted
          arrival,  \* arrival[o]: o's place in arrival order, 0 before
          status,   \* status[o] \in {"new", "admitted", "placed", "running", "over"}
          lane      \* lane[o]: the family lane o was placed on

fifoVars == <<open, drained, arrived, arrival, status, lane>>

Earlier(o) == {p \in Ops : arrival[p] \in 1..(arrival[o] - 1)}

FifoInit == /\ open = TRUE
            /\ drained = FALSE
            /\ arrived = 0
            /\ arrival = [o \in Ops |-> 0]
            /\ status = [o \in Ops |-> "new"]
            /\ lane = [o \in Ops |-> NoLane]

Admit(o) == /\ open
            /\ status[o] = "new"
            /\ arrived' = arrived + 1
            /\ arrival' = [arrival EXCEPT ![o] = arrived + 1]
            /\ status' = [status EXCEPT ![o] = "admitted"]
            /\ UNCHANGED <<open, drained, lane>>

\* An operation is placed only when every earlier one is placed or over.
Place(o, l) == /\ status[o] = "admitted"
               /\ \A p \in Earlier(o) : status[p] # "admitted"
               /\ status' = [status EXCEPT ![o] = "placed"]
               /\ lane' = [lane EXCEPT ![o] = l]
               /\ UNCHANGED <<open, drained, arrived, arrival>>

\* An operation whose family cannot be told ends without running.
Drop(o) == /\ status[o] = "admitted"
           /\ \A p \in Earlier(o) : status[p] # "admitted"
           /\ status' = [status EXCEPT ![o] = "over"]
           /\ UNCHANGED <<open, drained, arrived, arrival, lane>>

Start(o) == /\ status[o] = "placed"
            /\ \A p \in Earlier(o) : lane[p] = lane[o] => status[p] = "over"
            /\ status' = [status EXCEPT ![o] = "running"]
            /\ UNCHANGED <<open, drained, arrived, arrival, lane>>

Finish(o) == /\ status[o] = "running"
             /\ status' = [status EXCEPT ![o] = "over"]
             /\ UNCHANGED <<open, drained, arrived, arrival, lane>>

Close == /\ open' = FALSE
         /\ UNCHANGED <<drained, arrived, arrival, status, lane>>

Drained == /\ ~open
           /\ \A o \in Ops : status[o] \in {"new", "over"}
           /\ drained' = TRUE
           /\ UNCHANGED <<open, arrived, arrival, status, lane>>

FifoNext == \/ \E o \in Ops : \/ Admit(o) \/ Drop(o) \/ Start(o) \/ Finish(o)
                              \/ \E l \in Lanes : Place(o, l)
            \/ Close
            \/ Drained

FifoSpec == FifoInit /\ [][FifoNext]_fifoVars
===============================================================================
