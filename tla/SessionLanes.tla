----------------------------- MODULE SessionLanes -----------------------------
(***************************************************************************)
(* SessionOperationDispatcher: every mutation of a session (a prompt, a    *)
(* command, a reply, an abort, a rename, a delete, a quota continuation)   *)
(* is dispatched here.  dispatch() queues a resolution of the session's    *)
(* family behind _resolutionTail; the resolution walks the catalog from    *)
(* the session to its root, one awaited row at a time; the operation is    *)
(* then chained behind the tail of its family's lane and its body runs     *)
(* when its predecessor's token completes.                                 *)
(*                                                                         *)
(* A step is the code between two awaits.  The catalog is shared: a        *)
(* deletion body removes rows and a catalog import changes parents while   *)
(* resolutions are under way and operations wait.  A family key of the     *)
(* code is (pluginId, rootSessionId); a session belongs to one plugin, so  *)
(* the root alone is the key here.                                         *)
(***************************************************************************)
EXTENDS Naturals, FiniteSets

CONSTANTS Ops,           \* calls of dispatch()
          Sessions,      \* catalog session ids
          PluginOf,      \* PluginOf[s]: the plugin session s is bound to
          NoSession,     \* a null parent, and the family of an unplaced operation
          NoOp,          \* an already completed future: no predecessor
          MaxDepth,      \* the bound of the ancestry walk (256 in the code)
          MaxReparents   \* bound: parent changes committed by catalog imports

ASSUME LanesAssumption == /\ NoOp \notin Ops
                          /\ NoSession \notin Sessions
                          /\ MaxDepth \in Nat \ {0}
                          /\ MaxReparents \in Nat

VARIABLES
  \* the catalog (sessions_table)
  present,         \* sessions that have a row
  parent,          \* parent[s]: parentSessionId of s's row
  reparents,       \* parent changes so far, bounded by MaxReparents
  \* one dispatch() call per operation
  phase,           \* idle, queued, resolving, waiting, running, settled, failed, refused
  target,          \* the session the operation names
  cursor,          \* currentSessionId of the walk
  visited,         \* visited of the walk
  arrived,         \* operations accepted so far
  ticket,          \* ticket[o]: o's place in arrival order, 0 before (auxiliary)
  \* the chain of resolutions
  resolutionTail,  \* the operation whose release _resolutionTail is
  previous,        \* previous[o]: the resolution o's own awaits
  released,        \* operations whose release completer is complete
  \* the family lanes
  laneTail,        \* _familyLanes: the operation whose token a family's entry is
  predecessor,     \* predecessor[o]: the operation whose token o awaits
  family,          \* the family o was registered with
  completed,       \* operations whose token is complete
  \* admission and drain
  accepting, inFlight, drain, drainTail, drainWaits

catalogVars == <<present, parent, reparents>>
walkVars == <<target, cursor, visited>>
orderVars == <<arrived, ticket>>
chainVars == <<resolutionTail, previous, released>>
laneVars == <<laneTail, predecessor, family, completed>>
drainVars == <<drain, drainTail, drainWaits>>
vars == <<catalogVars, phase, walkVars, orderVars, chainVars, laneVars,
          accepting, inFlight, drainVars>>

Phases == {"idle", "queued", "resolving", "waiting", "running", "settled",
           "failed", "refused"}

(* Sessions whose ancestry reaches s: the rows a deletion of s cascades to.  *)
IsSubtree(gone, s) == gone = {s} \cup {t \in present : parent[t] \in gone}

Init ==
  /\ present = Sessions
  /\ parent \in [Sessions -> Sessions \cup {NoSession}]
  /\ \A s \in Sessions : parent[s] # NoSession => PluginOf[parent[s]] = PluginOf[s]
  /\ \A s \in Sessions : \E gone \in SUBSET Sessions :
        IsSubtree(gone, s) /\ parent[s] \notin gone
  /\ reparents = 0
  /\ phase = [o \in Ops |-> "idle"]
  /\ target \in [Ops -> Sessions]
  /\ cursor = target
  /\ visited = [o \in Ops |-> {}]
  /\ arrived = 0
  /\ ticket = [o \in Ops |-> 0]
  /\ resolutionTail = NoOp
  /\ previous = [o \in Ops |-> NoOp]
  /\ released = {}
  /\ laneTail = [f \in Sessions |-> NoOp]
  /\ predecessor = [o \in Ops |-> NoOp]
  /\ family = [o \in Ops |-> NoSession]
  /\ completed = {}
  /\ accepting = TRUE
  /\ inFlight = {}
  /\ drain = "none"
  /\ drainTail = NoOp
  /\ drainWaits = {}

-------------------------------------------------------------------------------
(* dispatch(): track the result, then chain a resolution behind the tail. *)

Dispatch(o) ==
  /\ phase[o] = "idle"
  /\ accepting
  /\ phase' = [phase EXCEPT ![o] = "queued"]
  /\ arrived' = arrived + 1
  /\ ticket' = [ticket EXCEPT ![o] = arrived + 1]
  /\ inFlight' = inFlight \cup {o}
  /\ previous' = [previous EXCEPT ![o] = resolutionTail]
  /\ resolutionTail' = o
  /\ UNCHANGED <<catalogVars, walkVars, released, laneVars, accepting, drainVars>>

\* A dispatch after shutdown began throws at the caller and leaves no trace.
Refuse(o) ==
  /\ phase[o] = "idle"
  /\ ~accepting
  /\ phase' = [phase EXCEPT ![o] = "refused"]
  /\ UNCHANGED <<catalogVars, walkVars, orderVars, chainVars, laneVars,
                 accepting, inFlight, drainVars>>

\* Fault: resolutions run concurrently, none awaits the one before it.
ResolutionsOverlap(o) == TRUE

PreviousReleased(o) == previous[o] = NoOp \/ previous[o] \in released

EnterResolution(o) ==
  /\ phase[o] = "queued"
  /\ PreviousReleased(o)
  /\ phase' = [phase EXCEPT ![o] = "resolving"]
  /\ UNCHANGED <<catalogVars, walkVars, orderVars, chainVars, laneVars,
                 accepting, inFlight, drainVars>>

-------------------------------------------------------------------------------
(* resolveSessionFamily(): one row of the walk is read and acted upon. *)

\* A cycle, a missing row, a row of another plugin, or too long an ancestry.
WalkFails(o) ==
  LET here == cursor[o]
  IN  \/ here \in visited[o]
      \/ here \notin present
      \/ PluginOf[here] # PluginOf[target[o]]
      \/ parent[here] # NoSession /\ Cardinality(visited[o]) + 1 = MaxDepth

ClimbToParent(o) ==
  /\ phase[o] = "resolving"
  /\ ~WalkFails(o)
  /\ parent[cursor[o]] # NoSession
  /\ cursor' = [cursor EXCEPT ![o] = parent[cursor[o]]]
  /\ visited' = [visited EXCEPT ![o] = @ \cup {cursor[o]}]
  /\ UNCHANGED <<catalogVars, phase, target, orderVars, chainVars, laneVars,
                 accepting, inFlight, drainVars>>

\* Fault: the release completes on the path that registers only.
FailHoldingTurn(o) ==
  /\ phase[o] = "resolving"
  /\ WalkFails(o)
  /\ phase' = [phase EXCEPT ![o] = "failed"]
  /\ UNCHANGED <<catalogVars, walkVars, orderVars, chainVars, laneVars,
                 accepting, inFlight, drainVars>>

\* The walk threw: the error settles the result and the next walk may begin.
FailResolution(o) ==
  /\ phase[o] = "resolving"
  /\ WalkFails(o)
  /\ phase' = [phase EXCEPT ![o] = "failed"]
  /\ released' = released \cup {o}
  /\ UNCHANGED <<catalogVars, walkVars, orderVars, resolutionTail, previous,
                 laneVars, accepting, inFlight, drainVars>>

\* The root is reached: _registerOperation chains the body behind the lane's
\* tail, in the same step that releases the next resolution.
RegisterOperation(o) ==
  LET root == cursor[o]
  IN  /\ phase[o] = "resolving"
      /\ ~WalkFails(o)
      /\ parent[root] = NoSession
      /\ phase' = [phase EXCEPT ![o] = "waiting"]
      /\ family' = [family EXCEPT ![o] = root]
      /\ predecessor' = [predecessor EXCEPT ![o] = laneTail[root]]
      /\ laneTail' = [laneTail EXCEPT ![root] = o]
      /\ released' = released \cup {o}
      /\ UNCHANGED <<catalogVars, walkVars, orderVars, resolutionTail, previous,
                     completed, accepting, inFlight, drainVars>>

-------------------------------------------------------------------------------
(* The body of an operation, behind its predecessor's token. *)

\* Fault: the body does not await its predecessor's token.
StartBodyAtOnce(o) ==
  /\ phase[o] = "waiting"
  /\ phase' = [phase EXCEPT ![o] = "running"]
  /\ UNCHANGED <<catalogVars, walkVars, orderVars, chainVars, laneVars,
                 accepting, inFlight, drainVars>>

StartBody(o) ==
  /\ phase[o] = "waiting"
  /\ predecessor[o] = NoOp \/ predecessor[o] \in completed
  /\ phase' = [phase EXCEPT ![o] = "running"]
  /\ UNCHANGED <<catalogVars, walkVars, orderVars, chainVars, laneVars,
                 accepting, inFlight, drainVars>>

\* Fault: the entry is removed without the identity check.
ForgetLane(o) == [laneTail EXCEPT ![family[o]] = NoOp]

\* The lane's entry once o's token completes: gone only if o still is its tail.
LaneAfter(o) ==
  IF laneTail[family[o]] = o
  THEN [laneTail EXCEPT ![family[o]] = NoOp]
  ELSE laneTail

\* The body returned or threw; either way the token completes.
FinishBody(o) ==
  /\ phase[o] = "running"
  /\ phase' = [phase EXCEPT ![o] = "settled"]
  /\ completed' = completed \cup {o}
  /\ laneTail' = LaneAfter(o)
  /\ UNCHANGED <<catalogVars, walkVars, orderVars, chainVars, predecessor,
                 family, accepting, inFlight, drainVars>>

\* A body that deletes its session: the row goes, and its descendants' rows.
DeleteSession(o) ==
  /\ phase[o] = "running"
  /\ target[o] \in present
  /\ \E gone \in SUBSET present :
        /\ IsSubtree(gone, target[o])
        /\ present' = present \ gone
  /\ UNCHANGED <<parent, reparents, phase, walkVars, orderVars, chainVars,
                 laneVars, accepting, inFlight, drainVars>>

\* Fault: the settlement of a failed result is never handled.
UntrackReturned(o) ==
  /\ o \in inFlight
  /\ phase[o] = "settled"
  /\ inFlight' = inFlight \ {o}
  /\ UNCHANGED <<catalogVars, phase, walkVars, orderVars, chainVars, laneVars,
                 accepting, drainVars>>

\* The bookkeeping future of a settled result leaves the in-flight set.
Untrack(o) ==
  /\ o \in inFlight
  /\ phase[o] \in {"settled", "failed"}
  /\ inFlight' = inFlight \ {o}
  /\ UNCHANGED <<catalogVars, phase, walkVars, orderVars, chainVars, laneVars,
                 accepting, drainVars>>

-------------------------------------------------------------------------------
(* A catalog import commits what the backend reports, outside every lane.  *)

Reparent(s, p) ==
  /\ reparents < MaxReparents
  /\ s \in present
  /\ p \in present \cup {NoSession}
  /\ p # parent[s]
  /\ p # NoSession => PluginOf[p] = PluginOf[s]
  /\ \E subtree \in SUBSET present : IsSubtree(subtree, s) /\ p \notin subtree
  /\ parent' = [parent EXCEPT ![s] = p]
  /\ reparents' = reparents + 1
  /\ UNCHANGED <<present, phase, walkVars, orderVars, chainVars, laneVars,
                 accepting, inFlight, drainVars>>

-------------------------------------------------------------------------------
(* beginShutdown() and drain(). *)

BeginShutdown ==
  /\ accepting
  /\ accepting' = FALSE
  /\ UNCHANGED <<catalogVars, phase, walkVars, orderVars, chainVars, laneVars,
                 inFlight, drainVars>>

\* Fault: drain() leaves admission open.
DrainStillAdmitting ==
  /\ drain = "none"
  /\ drain' = "resolutions"
  /\ drainTail' = resolutionTail
  /\ UNCHANGED <<catalogVars, phase, walkVars, orderVars, chainVars, laneVars,
                 accepting, inFlight, drainWaits>>

\* drain() closes admission and awaits the last resolution queued so far.
BeginDrain ==
  /\ drain = "none"
  /\ accepting' = FALSE
  /\ drain' = "resolutions"
  /\ drainTail' = resolutionTail
  /\ UNCHANGED <<catalogVars, phase, walkVars, orderVars, chainVars, laneVars,
                 inFlight, drainWaits>>

\* Fault: what waits on a lane is drained, what is still to be placed is not.
DrainPlacedOnly ==
  /\ drain = "resolutions"
  /\ drain' = "operations"
  /\ drainWaits' = {o \in inFlight : phase[o] \in {"waiting", "running"}}
  /\ UNCHANGED <<catalogVars, phase, walkVars, orderVars, chainVars, laneVars,
                 accepting, inFlight, drainTail>>

\* Every resolution is through: the in-flight set is captured and awaited.
DrainOperations ==
  /\ drain = "resolutions"
  /\ drainTail = NoOp \/ drainTail \in released
  /\ drain' = "operations"
  /\ drainWaits' = inFlight
  /\ UNCHANGED <<catalogVars, phase, walkVars, orderVars, chainVars, laneVars,
                 accepting, inFlight, drainTail>>

FinishDrain ==
  /\ drain = "operations"
  /\ drainWaits \cap inFlight = {}
  /\ drain' = "done"
  /\ UNCHANGED <<catalogVars, phase, walkVars, orderVars, chainVars, laneVars,
                 accepting, inFlight, drainTail, drainWaits>>

-------------------------------------------------------------------------------
Resolve(o) == ClimbToParent(o) \/ FailResolution(o) \/ RegisterOperation(o)

Next ==
  \/ \E o \in Ops : \/ Dispatch(o) \/ Refuse(o) \/ EnterResolution(o)
                    \/ ClimbToParent(o) \/ FailResolution(o) \/ RegisterOperation(o)
                    \/ StartBody(o) \/ FinishBody(o) \/ DeleteSession(o) \/ Untrack(o)
  \/ \E s \in Sessions, p \in Sessions \cup {NoSession} : Reparent(s, p)
  \/ BeginShutdown \/ BeginDrain \/ DrainOperations \/ FinishDrain

Spec == Init /\ [][Next]_vars

(* The event loop runs every ready continuation, a catalog read answers, and *)
(* a body returns: the dispatcher promises progress only on those terms.     *)
Fairness ==
  /\ \A o \in Ops : /\ WF_vars(EnterResolution(o)) /\ WF_vars(Resolve(o))
                    /\ WF_vars(StartBody(o)) /\ WF_vars(FinishBody(o))
                    /\ WF_vars(Untrack(o))
  /\ WF_vars(DrainOperations) /\ WF_vars(FinishDrain)

FairSpec == Spec /\ Fairness

-------------------------------------------------------------------------------
(* The values of the variables: the catalog's rows, each operation's phase, walk, *)
(* resolution chain and lane links, and the drain's state.                        *)
TypeOK ==
  /\ present \subseteq Sessions
  /\ parent \in [Sessions -> Sessions \cup {NoSession}]
  /\ reparents \in Nat
  /\ phase \in [Ops -> Phases]
  /\ target \in [Ops -> Sessions]
  /\ cursor \in [Ops -> Sessions]
  /\ visited \in [Ops -> SUBSET Sessions]
  /\ arrived \in Nat
  /\ ticket \in [Ops -> Nat]
  /\ resolutionTail \in Ops \cup {NoOp}
  /\ previous \in [Ops -> Ops \cup {NoOp}]
  /\ released \subseteq Ops
  /\ laneTail \in [Sessions -> Ops \cup {NoOp}]
  /\ predecessor \in [Ops -> Ops \cup {NoOp}]
  /\ family \in [Ops -> Sessions \cup {NoSession}]
  /\ completed \subseteq Ops
  /\ accepting \in BOOLEAN
  /\ inFlight \subseteq Ops
  /\ drain \in {"none", "resolutions", "operations", "done"}
  /\ drainTail \in Ops \cup {NoOp}
  /\ drainWaits \subseteq Ops

Unresolved(o) == phase[o] \in {"queued", "resolving"}
Live(o) == phase[o] \in {"waiting", "running"}
Registered(o) == phase[o] \in {"waiting", "running", "settled"}
Before(p, o) == ticket[p] \in 1..(ticket[o] - 1)

(* Work of one family runs in arrival order and one at a time: when a body runs, *)
(* every operation that arrived before it is past its resolution, and those of   *)
(* the same family have finished (SessionOperationDispatcher's class comment).   *)
ArrivalOrder ==
  \A o, p \in Ops : phase[o] = "running" /\ Before(p, o) =>
      /\ ~Unresolved(p)
      /\ family[p] = family[o] => p \in completed

(* Once drain() has answered, no accepted operation is left to resolve, to wait *)
(* or to run: the orchestrator may close the database behind it.                 *)
DrainCoversAccepted ==
  drain = "done" => \A o \in Ops : ~Unresolved(o) /\ ~Live(o)

(* The lane map keeps an entry exactly while an operation of that family is    *)
(* waiting or running, so it neither leaks nor loses the tail a newcomer needs. *)
LaneEntryIffBusy ==
  \A f \in Sessions :
      (laneTail[f] # NoOp) <=> (\E o \in Ops : Live(o) /\ family[o] = f)

(* No accepted operation is lost: with bodies that return, each settles or fails. *)
EveryOperationSettles ==
  \A o \in Ops : phase[o] = "queued" ~> phase[o] \in {"settled", "failed"}

(* drain() answers, whatever resolutions and bodies were under way. *)
DrainAnswers == drain = "resolutions" ~> drain = "done"

-------------------------------------------------------------------------------
(* The inductive invariant behind ArrivalOrder and DrainCoversAccepted.        *)

Released(o) == phase[o] \in {"waiting", "running", "settled", "failed"}

\* Arrival tickets are distinct, and number the accepted operations.
TicketInv ==
  /\ \A o \in Ops : (ticket[o] = 0) <=> (phase[o] \in {"idle", "refused"})
  /\ \A o \in Ops : ticket[o] <= arrived
  /\ \A o, p \in Ops : ticket[o] = ticket[p] /\ ticket[o] # 0 => o = p

\* Each resolution awaits the one that arrived just before it.
ChainInv ==
  /\ (resolutionTail = NoOp) <=> (arrived = 0)
  /\ resolutionTail # NoOp => ticket[resolutionTail] = arrived
  /\ \A o \in Ops : ticket[o] # 0 =>
        IF previous[o] = NoOp THEN ticket[o] = 1
                              ELSE ticket[previous[o]] = ticket[o] - 1 /\ ticket[o] > 1
  /\ \A o \in Ops : o \in released <=> Released(o)
  /\ \A o, p \in Ops : (Released(o) \/ phase[o] = "resolving") /\ Before(p, o)
                           => p \in released

\* An entry of the lane map is the latest operation of its family, and links
\* lead from each operation to the one registered just before it.
LaneInv ==
  /\ \A o \in Ops : Registered(o) <=> family[o] # NoSession
  /\ \A o \in Ops : o \in completed <=> phase[o] = "settled"
  /\ \A f \in Sessions :
        IF laneTail[f] = NoOp
        THEN \A o \in Ops : Live(o) => family[o] # f
        ELSE /\ Live(laneTail[f])
             /\ family[laneTail[f]] = f
             /\ \A o \in Ops : family[o] = f => ticket[o] <= ticket[laneTail[f]]
  /\ \A o \in Ops : Registered(o) =>
        IF predecessor[o] = NoOp
        THEN \A p \in Ops : family[p] = family[o] /\ Before(p, o) => p \in completed
        ELSE /\ family[predecessor[o]] = family[o]
             /\ Before(predecessor[o], o)
             /\ \A p \in Ops : family[p] = family[o] /\ Before(p, o)
                                   => ticket[p] <= ticket[predecessor[o]]
  /\ \A o, p \in Ops : phase[o] \in {"running", "settled"} /\ Before(p, o)
                           /\ family[p] = family[o] => p \in completed

\* The drain waits for the last resolution and for every unsettled operation.
DrainInv ==
  /\ \A o \in Ops : Unresolved(o) \/ Live(o) => o \in inFlight
  /\ drain # "none" => ~accepting /\ drainTail = resolutionTail
  /\ drain \in {"operations", "done"} => \A o \in Ops : ~Unresolved(o)
  /\ drain = "operations" => \A o \in Ops : Live(o) => o \in drainWaits
  /\ drain = "done" => \A o \in Ops : ~Live(o)

(* The dispatcher's invariant: tickets, the resolution chain, the lane links and *)
(* the drain's captures agree with the phases of the operations.                 *)
DispatcherInv == TicketInv /\ ChainInv /\ LaneInv /\ DrainInv

-------------------------------------------------------------------------------
(* The abstract promise, and the dispatcher's state seen through it. *)
StatusOf(o) ==
  CASE phase[o] \in {"idle", "refused"} -> "new"
    [] phase[o] \in {"queued", "resolving"} -> "admitted"
    [] phase[o] = "waiting" -> "placed"
    [] phase[o] = "running" -> "running"
    [] phase[o] \in {"settled", "failed"} -> "over"

Fifo == INSTANCE FamilyFifo WITH
          Lanes <- Sessions, NoLane <- NoSession,
          open <- accepting, drained <- (drain = "done"),
          arrival <- ticket, status <- [o \in Ops |-> StatusOf(o)], lane <- family

(* The dispatcher implements family lanes: serial per family in arrival order, *)
(* and drained only when everything admitted is over.                            *)
ImplementsFamilyFifo == Fifo!FifoSpec
===============================================================================
