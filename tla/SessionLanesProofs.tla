--------------------------- MODULE SessionLanesProofs ---------------------------
(***************************************************************************)
(* Proofs about SessionLanes for every set of operations and sessions.     *)
(***************************************************************************)
EXTENDS SessionLanes, TLAPS

(* The variables keep their types: the base of every other proof here.     *)
THEOREM TypeCorrect == Spec => []TypeOK
<1>1. Init => TypeOK
  BY LanesAssumption DEF Init, TypeOK, Phases
<1>2. TypeOK /\ [Next]_vars => TypeOK'
  <2> SUFFICES ASSUME TypeOK, [Next]_vars PROVE TypeOK'
    OBVIOUS
  <2> USE DEF TypeOK, catalogVars, walkVars, orderVars, chainVars, laneVars, drainVars
  <2>1. ASSUME NEW o \in Ops, Dispatch(o) PROVE TypeOK'
    BY <2>1 DEF Dispatch, Phases
  <2>2. ASSUME NEW o \in Ops, Refuse(o) PROVE TypeOK'
    BY <2>2 DEF Refuse, Phases
  <2>3. ASSUME NEW o \in Ops, EnterResolution(o) PROVE TypeOK'
    BY <2>3 DEF EnterResolution, Phases
  <2>4. ASSUME NEW o \in Ops, ClimbToParent(o) PROVE TypeOK'
    <3>1. parent[cursor[o]] \in Sessions
      BY <2>4 DEF ClimbToParent
    <3> QED BY <2>4, <3>1 DEF ClimbToParent
  <2>5. ASSUME NEW o \in Ops, FailResolution(o) PROVE TypeOK'
    BY <2>5 DEF FailResolution, Phases
  <2>6. ASSUME NEW o \in Ops, RegisterOperation(o) PROVE TypeOK'
    BY <2>6 DEF RegisterOperation, Phases
  <2>7. ASSUME NEW o \in Ops, StartBody(o) PROVE TypeOK'
    BY <2>7 DEF StartBody, Phases
  <2>8. ASSUME NEW o \in Ops, FinishBody(o) PROVE TypeOK'
    BY <2>8 DEF FinishBody, LaneAfter, Phases
  <2>9. ASSUME NEW o \in Ops, DeleteSession(o) PROVE TypeOK'
    BY <2>9 DEF DeleteSession
  <2>10. ASSUME NEW o \in Ops, Untrack(o) PROVE TypeOK'
    BY <2>10 DEF Untrack
  <2>11. ASSUME NEW s \in Sessions, NEW p \in Sessions \cup {NoSession}, Reparent(s, p)
         PROVE TypeOK'
    BY <2>11 DEF Reparent
  <2>12. CASE BeginShutdown
    BY <2>12 DEF BeginShutdown
  <2>13. CASE BeginDrain
    BY <2>13 DEF BeginDrain
  <2>14. CASE DrainOperations
    BY <2>14 DEF DrainOperations
  <2>15. CASE FinishDrain
    BY <2>15 DEF FinishDrain
  <2>16. CASE UNCHANGED vars
    BY <2>16 DEF vars
  <2> QED
    BY <2>1, <2>2, <2>3, <2>4, <2>5, <2>6, <2>7, <2>8, <2>9, <2>10, <2>11, <2>12,
       <2>13, <2>14, <2>15, <2>16 DEF Next
<1> QED BY <1>1, <1>2, PTL DEF Spec

-------------------------------------------------------------------------------
(* Order on tickets, apart from the models they number.                    *)
LEMMA NatOrder ==
  \A i, j \in Nat : i <= j => i = j \/ i < j
OBVIOUS

LEMMA NatBefore ==
  \A i, j \in Nat : i # 0 /\ i <= j /\ i # j => i \in 1..(j - 1)
OBVIOUS

(* The parts of DispatcherInv, one lemma for each action that can disturb them. *)

LEMMA DispatchKeepsInv ==
  ASSUME TypeOK, DispatcherInv, NEW o \in Ops, Dispatch(o)
  PROVE  DispatcherInv'
<1> USE LanesAssumption DEF TypeOK, DispatcherInv, Dispatch, catalogVars, laneVars, drainVars,
                            Unresolved, Live, Registered, Released, Before
<1>1. ticket[o] = 0 /\ phase[o] = "idle" /\ phase'[o] = "queued" /\ ticket'[o] = arrived + 1
  BY DEF TicketInv
<1>2. \A p \in Ops : p # o => ticket'[p] = ticket[p] /\ phase'[p] = phase[p]
                             /\ previous'[p] = previous[p]
  OBVIOUS
<1>3. TicketInv'
  BY <1>1, <1>2 DEF TicketInv
<1>4. ChainInv'
  <2>1. (resolutionTail' = NoOp) <=> (arrived' = 0)
    BY DEF ChainInv
  <2>2. resolutionTail' # NoOp => ticket'[resolutionTail'] = arrived'
    BY <1>1
  <2>3. previous[o]' = resolutionTail /\ resolutionTail # o
    BY <1>1 DEF ChainInv
  <2>4. \A p \in Ops : ticket'[p] # 0 =>
          IF previous'[p] = NoOp THEN ticket'[p] = 1
          ELSE ticket'[previous'[p]] = ticket'[p] - 1 /\ ticket'[p] > 1
    <3> SUFFICES ASSUME NEW p \in Ops, ticket'[p] # 0
                 PROVE IF previous'[p] = NoOp THEN ticket'[p] = 1
                       ELSE ticket'[previous'[p]] = ticket'[p] - 1 /\ ticket'[p] > 1
      OBVIOUS
    <3>1. CASE p = o
      BY <3>1, <1>1, <1>2, <2>3 DEF ChainInv
    <3>2. CASE p # o
      <4>1. previous[p] # o
        BY <1>1, <1>2, <3>2 DEF ChainInv
      <4> QED BY <4>1, <3>2, <1>2 DEF ChainInv
    <3> QED BY <3>1, <3>2
  <2>5. \A p \in Ops : p \in released' <=> Released(p)'
    BY <1>1, <1>2 DEF ChainInv
  <2>6. \A q, p \in Ops : (Released(q)' \/ phase'[q] = "resolving") /\ Before(p, q)'
                            => p \in released'
    <3> SUFFICES ASSUME NEW q \in Ops, NEW p \in Ops,
                        Released(q)' \/ phase'[q] = "resolving", Before(p, q)'
                 PROVE p \in released'
      OBVIOUS
    <3>1. q # o
      BY <1>1
    <3>2. p # o
      BY <1>1, <1>2, <3>1 DEF TicketInv
    <3> QED BY <1>2, <3>1, <3>2 DEF ChainInv
  <2> QED BY <2>1, <2>2, <2>4, <2>5, <2>6 DEF ChainInv
<1>5. LaneInv'
  <2>1. family[o] = NoSession /\ o \notin completed
    BY <1>1 DEF LaneInv
  <2>2. \A p \in Ops : p # o => (Registered(p)' <=> Registered(p)) /\ (Live(p)' <=> Live(p))
    BY <1>2
  <2>3. ~Registered(o)' /\ ~Live(o)'
    BY <1>1
  <2>4. \A p \in Ops : Registered(p) <=> family[p] # NoSession
    BY DEF LaneInv
  <2>5. \A p \in Ops : Registered(p)' <=> family'[p] # NoSession
    BY <2>1, <2>2, <2>3, <2>4
  <2>6. \A p \in Ops : p \in completed' <=> phase'[p] = "settled"
    BY <1>1, <1>2, <2>1 DEF LaneInv
  <2>7. \A f \in Sessions :
          IF laneTail'[f] = NoOp
          THEN \A p \in Ops : Live(p)' => family'[p] # f
          ELSE /\ Live(laneTail[f])'
               /\ family'[laneTail'[f]] = f
               /\ \A p \in Ops : family'[p] = f => ticket'[p] <= ticket'[laneTail'[f]]
    BY <1>1, <1>2, <2>1, <2>2, <2>3 DEF LaneInv
  <2>8. \A q, p \in Ops : Registered(q)' /\ family'[p] = family'[q] =>
          p # o /\ q # o /\ (Before(p, q)' <=> Before(p, q))
    BY <1>2, <2>1, <2>4, <2>5
  <2>9. \A q \in Ops : Registered(q)' =>
          IF predecessor'[q] = NoOp
          THEN \A p \in Ops : family'[p] = family'[q] /\ Before(p, q)' => p \in completed'
          ELSE /\ family'[predecessor'[q]] = family'[q]
               /\ Before(predecessor[q], q)'
               /\ \A p \in Ops : family'[p] = family'[q] /\ Before(p, q)'
                                     => ticket'[p] <= ticket'[predecessor'[q]]
    BY <1>2, <2>1, <2>2, <2>3, <2>8 DEF LaneInv
  <2>10. \A q, p \in Ops : phase'[q] \in {"running", "settled"} /\ Before(p, q)'
                              /\ family'[p] = family'[q] => p \in completed'
    BY <1>1, <1>2, <2>8 DEF LaneInv
  <2> QED BY <2>5, <2>6, <2>7, <2>9, <2>10 DEF LaneInv
<1>6. DrainInv'
  BY <1>1, <1>2 DEF DrainInv
<1> QED BY <1>3, <1>4, <1>5, <1>6

\* The steps that change the catalog or a walk only.
LEMMA CatalogKeepsInv ==
  ASSUME DispatcherInv,
         UNCHANGED <<phase, orderVars, chainVars, laneVars, accepting, inFlight, drainVars>>
  PROVE  DispatcherInv'
BY DEF DispatcherInv, TicketInv, ChainInv, LaneInv, DrainInv, orderVars, chainVars, laneVars,
       drainVars, Unresolved, Live, Registered, Released, Before

LEMMA RefuseKeepsInv ==
  ASSUME TypeOK, DispatcherInv, NEW o \in Ops, Refuse(o)
  PROVE  DispatcherInv'
<1> USE DEF TypeOK, DispatcherInv, Refuse, orderVars, chainVars, laneVars, drainVars,
            Unresolved, Live, Registered, Released, Before
<1>1. phase[o] = "idle" /\ phase'[o] = "refused"
  OBVIOUS
<1>2. \A p \in Ops : p # o => phase'[p] = phase[p]
  OBVIOUS
<1>3. TicketInv'
  BY <1>1, <1>2 DEF TicketInv
<1>4. ChainInv'
  BY <1>1, <1>2 DEF ChainInv
<1>5. LaneInv'
  BY <1>1, <1>2 DEF LaneInv
<1>6. DrainInv'
  BY <1>1, <1>2 DEF DrainInv
<1> QED BY <1>3, <1>4, <1>5, <1>6

LEMMA EnterResolutionKeepsInv ==
  ASSUME TypeOK, DispatcherInv, NEW o \in Ops, EnterResolution(o)
  PROVE  DispatcherInv'
<1> USE LanesAssumption
    DEF TypeOK, DispatcherInv, EnterResolution, orderVars, chainVars, laneVars, drainVars,
        Unresolved, Live, Registered, Released, Before
<1>1. phase[o] = "queued" /\ phase'[o] = "resolving" /\ ticket[o] # 0
  BY DEF TicketInv
<1>2. \A p \in Ops : p # o => phase'[p] = phase[p]
  OBVIOUS
<1>3. TicketInv'
  BY <1>1, <1>2 DEF TicketInv
<1>4. ChainInv'
  <2>1. \A p \in Ops : Before(p, o) => p \in released
    <3> SUFFICES ASSUME NEW p \in Ops, Before(p, o) PROVE p \in released
      OBVIOUS
    <3>1. previous[o] # NoOp
      BY <1>1 DEF ChainInv
    <3>2. /\ previous[o] \in Ops
          /\ previous[o] \in released
          /\ ticket[previous[o]] = ticket[o] - 1
      BY <1>1, <3>1 DEF ChainInv, PreviousReleased
    <3>3. CASE ticket[p] = ticket[o] - 1
      BY <3>2, <3>3 DEF TicketInv
    <3>4. CASE ticket[p] # ticket[o] - 1
      BY <3>2, <3>4 DEF ChainInv
    <3> QED BY <3>3, <3>4
  <2> QED BY <1>1, <1>2, <2>1 DEF ChainInv
<1>5. LaneInv'
  BY <1>1, <1>2 DEF LaneInv
<1>6. DrainInv'
  BY <1>1, <1>2 DEF DrainInv
<1> QED BY <1>3, <1>4, <1>5, <1>6

LEMMA FailResolutionKeepsInv ==
  ASSUME TypeOK, DispatcherInv, NEW o \in Ops, FailResolution(o)
  PROVE  DispatcherInv'
<1> USE LanesAssumption
    DEF TypeOK, DispatcherInv, FailResolution, orderVars, laneVars, drainVars,
        Unresolved, Live, Registered, Released, Before
<1>1. phase[o] = "resolving" /\ phase'[o] = "failed"
  OBVIOUS
<1>2. \A p \in Ops : p # o => phase'[p] = phase[p]
  OBVIOUS
<1>3. TicketInv'
  BY <1>1, <1>2 DEF TicketInv
<1>4. ChainInv'
  BY <1>1, <1>2 DEF ChainInv
<1>5. LaneInv'
  BY <1>1, <1>2 DEF LaneInv
<1>6. DrainInv'
  BY <1>1, <1>2 DEF DrainInv
<1> QED BY <1>3, <1>4, <1>5, <1>6

LEMMA RegisterOperationKeepsInv ==
  ASSUME TypeOK, DispatcherInv, NEW o \in Ops, RegisterOperation(o)
  PROVE  DispatcherInv'
<1> USE LanesAssumption
    DEF TypeOK, DispatcherInv, RegisterOperation, orderVars, drainVars,
        Unresolved, Live, Registered, Released, Before
<1> DEFINE root == cursor[o]
<1>1. phase[o] = "resolving" /\ phase'[o] = "waiting" /\ root \in Sessions
  OBVIOUS
<1>2. \A p \in Ops : p # o => /\ phase'[p] = phase[p]
                               /\ family'[p] = family[p]
                               /\ predecessor'[p] = predecessor[p]
  OBVIOUS
<1>3. /\ family'[o] = root /\ predecessor'[o] = laneTail[root]
      /\ laneTail'[root] = o /\ root # NoSession
  OBVIOUS
<1>4. TicketInv'
  BY <1>1, <1>2 DEF TicketInv
<1>5. ChainInv'
  BY <1>1, <1>2 DEF ChainInv
<1>6. \A p \in Ops : Registered(p) => Before(p, o)
  <2> SUFFICES ASSUME NEW p \in Ops, Registered(p) PROVE Before(p, o)
    OBVIOUS
  <2>1. p # o /\ ticket[p] # 0 /\ ticket[o] # 0 /\ ticket[p] # ticket[o]
    BY <1>1 DEF TicketInv
  <2>2. ~Before(o, p)
    BY <1>1 DEF ChainInv
  <2> QED BY <2>1, <2>2
<1>7. LaneInv'
  <2>1. \A p \in Ops : Registered(p)' <=> family'[p] # NoSession
    BY <1>1, <1>2, <1>3 DEF LaneInv
  <2>2. \A p \in Ops : p \in completed' <=> phase'[p] = "settled"
    BY <1>1, <1>2 DEF LaneInv
  <2>3. \A p \in Ops : family[p] # NoSession => Before(p, o)
    BY <1>6 DEF LaneInv
  <2>4. \A f \in Sessions :
          IF laneTail'[f] = NoOp
          THEN \A p \in Ops : Live(p)' => family'[p] # f
          ELSE /\ Live(laneTail[f])'
               /\ family'[laneTail'[f]] = f
               /\ \A p \in Ops : family'[p] = f => ticket'[p] <= ticket'[laneTail'[f]]
    <3> SUFFICES ASSUME NEW f \in Sessions
                 PROVE IF laneTail'[f] = NoOp
                       THEN \A p \in Ops : Live(p)' => family'[p] # f
                       ELSE /\ Live(laneTail[f])'
                            /\ family'[laneTail'[f]] = f
                            /\ \A p \in Ops : family'[p] = f => ticket'[p] <= ticket'[laneTail'[f]]
      OBVIOUS
    <3>1. CASE f = root
      BY <3>1, <1>1, <1>2, <1>3, <2>3
    <3>2. CASE f # root
      BY <3>2, <1>1, <1>2, <1>3 DEF LaneInv
    <3> QED BY <3>1, <3>2
  <2>5. ASSUME NEW q \in Ops, Registered(q)'
        PROVE IF predecessor'[q] = NoOp
              THEN \A p \in Ops : family'[p] = family'[q] /\ Before(p, q)' => p \in completed'
              ELSE /\ family'[predecessor'[q]] = family'[q]
                   /\ Before(predecessor[q], q)'
                   /\ \A p \in Ops : family'[p] = family'[q] /\ Before(p, q)'
                                         => ticket'[p] <= ticket'[predecessor'[q]]
    <3>1. CASE q = o
      <4>1. CASE laneTail[root] = NoOp
        <5>1. \A p \in Ops : family[p] = root => p \in completed
          BY <4>1, <1>1 DEF LaneInv
        <5> QED BY <3>1, <4>1, <5>1, <1>1, <1>2, <1>3
      <4>2. CASE laneTail[root] # NoOp
        <5>1. /\ laneTail[root] \in Ops /\ family[laneTail[root]] = root
              /\ \A p \in Ops : family[p] = root => ticket[p] <= ticket[laneTail[root]]
              /\ laneTail[root] # o
          BY <4>2, <1>1 DEF LaneInv
        <5> QED BY <3>1, <4>2, <5>1, <1>2, <1>3, <2>3
      <4> QED BY <4>1, <4>2
    <3>2. CASE q # o
      <4>1. Registered(q) /\ family[q] # NoSession /\ predecessor'[q] # o
        BY <3>2, <1>1, <1>2, <2>5 DEF LaneInv
      <4>2. ~Before(o, q)
        BY <4>1, <1>6
      <4> QED BY <3>2, <4>1, <4>2, <1>1, <1>2, <1>3 DEF LaneInv
    <3> QED BY <3>1, <3>2
  <2>6. \A q, p \in Ops : phase'[q] \in {"running", "settled"} /\ Before(p, q)'
                              /\ family'[p] = family'[q] => p \in completed'
    BY <1>1, <1>2, <1>6 DEF LaneInv
  <2> QED BY <2>1, <2>2, <2>4, <2>5, <2>6 DEF LaneInv
<1>8. DrainInv'
  BY <1>1, <1>2 DEF DrainInv
<1> QED BY <1>4, <1>5, <1>7, <1>8

LEMMA StartBodyKeepsInv ==
  ASSUME TypeOK, DispatcherInv, NEW o \in Ops, StartBody(o)
  PROVE  DispatcherInv'
<1> USE LanesAssumption
    DEF TypeOK, DispatcherInv, StartBody, orderVars, chainVars, laneVars, drainVars,
        Unresolved, Live, Registered, Released, Before
<1>1. phase[o] = "waiting" /\ phase'[o] = "running"
  OBVIOUS
<1>2. \A p \in Ops : p # o => phase'[p] = phase[p]
  OBVIOUS
<1>3. TicketInv'
  BY <1>1, <1>2 DEF TicketInv
<1>4. ChainInv'
  BY <1>1, <1>2 DEF ChainInv
<1>5. LaneInv'
  <2>1. \A p \in Ops : Before(p, o) /\ family[p] = family[o] => p \in completed
    <3> SUFFICES ASSUME NEW p \in Ops, Before(p, o), family[p] = family[o]
                 PROVE p \in completed
      OBVIOUS
    <3>1. CASE predecessor[o] = NoOp
      BY <3>1, <1>1 DEF LaneInv
    <3>2. CASE predecessor[o] # NoOp
      <4> DEFINE q == predecessor[o]
      <4>1. q \in Ops /\ q \in completed /\ phase[q] = "settled"
        BY <3>2 DEF LaneInv
      <4>2. family[q] = family[o] /\ ticket[p] <= ticket[q]
        BY <3>2, <1>1 DEF LaneInv
      <4>3. CASE ticket[p] = ticket[q]
        BY <4>1, <4>3 DEF TicketInv
      <4>4. CASE ticket[p] < ticket[q]
        BY <4>1, <4>2, <4>4 DEF LaneInv
      <4>5. ticket[p] \in Nat /\ ticket[q] \in Nat
        BY <4>1
      <4>6. ticket[p] = ticket[q] \/ ticket[p] < ticket[q]
        BY <4>2, <4>5, NatOrder
      <4> QED BY <4>3, <4>4, <4>6
    <3> QED BY <3>1, <3>2
  <2> QED BY <1>1, <1>2, <2>1 DEF LaneInv
<1>6. DrainInv'
  BY <1>1, <1>2 DEF DrainInv
<1> QED BY <1>3, <1>4, <1>5, <1>6

LEMMA FinishBodyKeepsInv ==
  ASSUME TypeOK, DispatcherInv, NEW o \in Ops, FinishBody(o)
  PROVE  DispatcherInv'
<1> USE LanesAssumption
    DEF TypeOK, DispatcherInv, FinishBody, LaneAfter, orderVars, chainVars, drainVars,
        Unresolved, Live, Registered, Released, Before
<1>1. phase[o] = "running" /\ phase'[o] = "settled"
  OBVIOUS
<1>2. \A p \in Ops : p # o => phase'[p] = phase[p]
  OBVIOUS
<1>3. TicketInv'
  BY <1>1, <1>2 DEF TicketInv
<1>4. ChainInv'
  BY <1>1, <1>2 DEF ChainInv
<1>5. LaneInv'
  <2>1. family[o] \in Sessions
    BY <1>1 DEF LaneInv
  <2>2. \A p \in Ops : Registered(p)' <=> family'[p] # NoSession
    BY <1>1, <1>2 DEF LaneInv
  <2>3. \A p \in Ops : p \in completed' <=> phase'[p] = "settled"
    BY <1>1, <1>2 DEF LaneInv
  <2>4. ASSUME NEW f \in Sessions
        PROVE IF laneTail'[f] = NoOp
              THEN \A p \in Ops : Live(p)' => family'[p] # f
              ELSE /\ Live(laneTail[f])'
                   /\ family'[laneTail'[f]] = f
                   /\ \A p \in Ops : family'[p] = f => ticket'[p] <= ticket'[laneTail'[f]]
    <3>1. CASE f = family[o] /\ laneTail[f] = o
      <4>1. laneTail'[f] = NoOp
        BY <3>1
      <4>2. ASSUME NEW p \in Ops, Live(p)', family'[p] = f PROVE FALSE
        <5>1. p # o /\ Live(p) /\ ticket[p] # 0
          BY <4>2, <1>1, <1>2 DEF TicketInv
        <5>2. ticket[p] <= ticket[o] /\ ticket[p] # ticket[o]
          BY <3>1, <4>2, <5>1, <1>1 DEF LaneInv, TicketInv
        <5>3. Before(p, o)
          <6>1. ticket[p] \in Nat /\ ticket[o] \in Nat
            OBVIOUS
          <6> QED BY <5>1, <5>2, <6>1, NatBefore
        <5>4. family[p] = family[o]
          BY <3>1, <4>2
        <5>5. p \in completed
          BY <5>3, <5>4, <1>1 DEF LaneInv
        <5> QED BY <5>1, <5>5 DEF LaneInv
      <4> QED BY <4>1, <4>2
    <3>2. CASE ~(f = family[o] /\ laneTail[f] = o)
      <4>1. laneTail'[f] = laneTail[f] /\ (laneTail[f] # NoOp => laneTail[f] # o)
        BY <3>2, <2>1 DEF LaneInv
      <4> QED BY <4>1, <1>1, <1>2 DEF LaneInv
    <3> QED BY <3>1, <3>2
  <2>5. \A q \in Ops : Registered(q)' =>
          IF predecessor'[q] = NoOp
          THEN \A p \in Ops : family'[p] = family'[q] /\ Before(p, q)' => p \in completed'
          ELSE /\ family'[predecessor'[q]] = family'[q]
               /\ Before(predecessor[q], q)'
               /\ \A p \in Ops : family'[p] = family'[q] /\ Before(p, q)'
                                     => ticket'[p] <= ticket'[predecessor'[q]]
    BY <1>1, <1>2 DEF LaneInv
  <2>6. \A q, p \in Ops : phase'[q] \in {"running", "settled"} /\ Before(p, q)'
                              /\ family'[p] = family'[q] => p \in completed'
    BY <1>1, <1>2 DEF LaneInv
  <2> QED BY <2>2, <2>3, <2>4, <2>5, <2>6 DEF LaneInv
<1>6. DrainInv'
  BY <1>1, <1>2 DEF DrainInv
<1> QED BY <1>3, <1>4, <1>5, <1>6

LEMMA UntrackKeepsInv ==
  ASSUME TypeOK, DispatcherInv, NEW o \in Ops, Untrack(o)
  PROVE  DispatcherInv'
<1> USE DEF TypeOK, DispatcherInv, Untrack, orderVars, chainVars, laneVars, drainVars,
            Unresolved, Live, Registered, Released, Before
<1>1. TicketInv' /\ ChainInv' /\ LaneInv'
  BY DEF TicketInv, ChainInv, LaneInv
<1>2. DrainInv'
  BY DEF DrainInv
<1> QED BY <1>1, <1>2

LEMMA DrainKeepsInv ==
  ASSUME TypeOK, DispatcherInv, BeginShutdown \/ BeginDrain \/ DrainOperations \/ FinishDrain
  PROVE  DispatcherInv'
<1> USE LanesAssumption
    DEF TypeOK, DispatcherInv, orderVars, chainVars, laneVars, drainVars,
        Unresolved, Live, Registered, Released, Before
<1>1. TicketInv' /\ ChainInv' /\ LaneInv'
  BY DEF TicketInv, ChainInv, LaneInv, BeginShutdown, BeginDrain, DrainOperations, FinishDrain
<1>2. CASE BeginShutdown
  BY <1>1, <1>2 DEF DrainInv, BeginShutdown
<1>3. CASE BeginDrain
  BY <1>1, <1>3 DEF DrainInv, BeginDrain
<1>4. CASE DrainOperations
  <2>1. \A p \in Ops : ticket[p] # 0 => p \in released
    <3> SUFFICES ASSUME NEW p \in Ops, ticket[p] # 0 PROVE p \in released
      OBVIOUS
    <3>1. drainTail = resolutionTail /\ arrived # 0 /\ resolutionTail # NoOp
      BY <1>4 DEF DrainInv, DrainOperations, TicketInv, ChainInv
    <3>2. resolutionTail \in released /\ ticket[resolutionTail] = arrived
      BY <1>4, <3>1 DEF DrainOperations, ChainInv
    <3>3. CASE ticket[p] = arrived
      BY <3>1, <3>2, <3>3 DEF TicketInv
    <3>4. CASE ticket[p] # arrived
      BY <3>1, <3>2, <3>4 DEF TicketInv, ChainInv
    <3> QED BY <3>3, <3>4
  <2>2. \A p \in Ops : ~Unresolved(p)
    BY <2>1 DEF TicketInv, ChainInv
  <2> QED BY <1>1, <1>4, <2>2 DEF DrainInv, DrainOperations
<1>5. CASE FinishDrain
  BY <1>1, <1>5 DEF DrainInv, FinishDrain
<1> QED BY <1>2, <1>3, <1>4, <1>5

-------------------------------------------------------------------------------
LEMMA NextKeepsInv ==
  ASSUME TypeOK, DispatcherInv, [Next]_vars
  PROVE  DispatcherInv'
<1>1. CASE \E o \in Ops : Dispatch(o)
  BY <1>1, DispatchKeepsInv
<1>2. CASE \E o \in Ops : Refuse(o)
  BY <1>2, RefuseKeepsInv
<1>3. CASE \E o \in Ops : EnterResolution(o)
  BY <1>3, EnterResolutionKeepsInv
<1>4. CASE \E o \in Ops : ClimbToParent(o)
  BY <1>4, CatalogKeepsInv DEF ClimbToParent
<1>5. CASE \E o \in Ops : FailResolution(o)
  BY <1>5, FailResolutionKeepsInv
<1>6. CASE \E o \in Ops : RegisterOperation(o)
  BY <1>6, RegisterOperationKeepsInv
<1>7. CASE \E o \in Ops : StartBody(o)
  BY <1>7, StartBodyKeepsInv
<1>8. CASE \E o \in Ops : FinishBody(o)
  BY <1>8, FinishBodyKeepsInv
<1>9. CASE \E o \in Ops : DeleteSession(o)
  BY <1>9, CatalogKeepsInv DEF DeleteSession, walkVars
<1>10. CASE \E o \in Ops : Untrack(o)
  BY <1>10, UntrackKeepsInv
<1>11. CASE \E s \in Sessions, p \in Sessions \cup {NoSession} : Reparent(s, p)
  BY <1>11, CatalogKeepsInv DEF Reparent
<1>12. CASE BeginShutdown \/ BeginDrain \/ DrainOperations \/ FinishDrain
  BY <1>12, DrainKeepsInv
<1>13. CASE UNCHANGED vars
  BY <1>13, CatalogKeepsInv DEF vars
<1> QED
  BY <1>1, <1>2, <1>3, <1>4, <1>5, <1>6, <1>7, <1>8, <1>9, <1>10, <1>11, <1>12, <1>13
     DEF Next

(* Tickets, resolution chain, lane links and drain captures stay consistent   *)
(* with the phases of the operations, for any number of operations, sessions  *)
(* and parent changes.                                                         *)
THEOREM InvariantHolds == Spec => []DispatcherInv
<1>1. Init => DispatcherInv
  BY LanesAssumption DEF Init, DispatcherInv, TicketInv, ChainInv, LaneInv, DrainInv,
     Unresolved, Live, Registered, Released, Before
<1>2. TypeOK /\ DispatcherInv /\ [Next]_vars => DispatcherInv'
  BY NextKeepsInv
<1> QED BY <1>1, <1>2, TypeCorrect, PTL DEF Spec

(* Operations of one family run one at a time in arrival order, and none runs *)
(* while an earlier arrival of any family is still being resolved.            *)
THEOREM RunsInArrivalOrder == Spec => []ArrivalOrder
<1>1. TypeOK /\ DispatcherInv => ArrivalOrder
  BY DEF TypeOK, DispatcherInv, ChainInv, LaneInv, ArrivalOrder, Unresolved, Released, Before
<1> QED BY <1>1, TypeCorrect, InvariantHolds, PTL

(* An answered drain leaves no accepted operation to resolve, wait or run.    *)
THEOREM DrainIsComplete == Spec => []DrainCoversAccepted
<1>1. DispatcherInv => DrainCoversAccepted
  BY DEF DispatcherInv, DrainInv, DrainCoversAccepted
<1> QED BY <1>1, InvariantHolds, PTL

(* The lane map neither leaks an entry nor loses the tail of a busy family.   *)
THEOREM LaneEntriesExact == Spec => []LaneEntryIffBusy
<1>1. TypeOK /\ DispatcherInv => LaneEntryIffBusy
  <2> SUFFICES ASSUME TypeOK, DispatcherInv, NEW f \in Sessions
               PROVE (laneTail[f] # NoOp) <=> (\E o \in Ops : Live(o) /\ family[o] = f)
    BY DEF LaneEntryIffBusy
  <2>1. CASE laneTail[f] = NoOp
    BY <2>1 DEF DispatcherInv, LaneInv
  <2>2. CASE laneTail[f] # NoOp
    <3>1. laneTail[f] \in Ops
      BY <2>2 DEF TypeOK
    <3> QED BY <2>2, <3>1 DEF DispatcherInv, LaneInv
  <2> QED BY <2>1, <2>2
<1> QED BY <1>1, TypeCorrect, InvariantHolds, PTL

-------------------------------------------------------------------------------
(* The step simulation: every step of the dispatcher is a step of FamilyFifo  *)
(* or leaves its state alone.                                                  *)

LEMMA PhaseMoves ==
  ASSUME TypeOK, NEW o \in Ops, NEW ph \in Phases, phase' = [phase EXCEPT ![o] = ph]
  PROVE  \A st : StatusOf(o)' = st =>
           [q \in Ops |-> StatusOf(q)]' = [[q \in Ops |-> StatusOf(q)] EXCEPT ![o] = st]
<1>1. \A q \in Ops : q # o => StatusOf(q)' = StatusOf(q)
  BY DEF TypeOK, StatusOf
<1> QED BY <1>1

LEMMA EarlierResolved ==
  ASSUME TypeOK, DispatcherInv, NEW o \in Ops, phase[o] = "resolving"
  PROVE  \A p \in Fifo!Earlier(o) : StatusOf(p) # "admitted"
<1> SUFFICES ASSUME NEW p \in Ops, Before(p, o) PROVE StatusOf(p) # "admitted"
  BY DEF Fifo!Earlier, Before
<1>1. Released(p)
  BY DEF DispatcherInv, ChainInv
<1> QED BY <1>1 DEF Released, StatusOf

LEMMA StepSimulation ==
  ASSUME TypeOK, DispatcherInv, [Next]_vars
  PROVE  [Fifo!FifoNext]_(Fifo!fifoVars)
<1> DEFINE status == [q \in Ops |-> StatusOf(q)]
<1> USE DEF TypeOK, Fifo!fifoVars, catalogVars, walkVars, orderVars, chainVars, laneVars,
            drainVars
<1>1. ASSUME NEW o \in Ops, Dispatch(o) PROVE Fifo!Admit(o)
  <2>1. StatusOf(o) = "new" /\ StatusOf(o)' = "admitted"
    BY <1>1 DEF Dispatch, StatusOf
  <2>2. status' = [status EXCEPT ![o] = "admitted"]
    BY <1>1, <2>1, PhaseMoves DEF Dispatch, Phases
  <2> QED BY <1>1, <2>1, <2>2 DEF Dispatch, Fifo!Admit
<1>2. ASSUME NEW o \in Ops, Refuse(o) \/ EnterResolution(o) PROVE UNCHANGED Fifo!fifoVars
  <2>1. StatusOf(o)' = StatusOf(o)
    BY <1>2 DEF Refuse, EnterResolution, StatusOf
  <2>2. \A q \in Ops : q # o => phase'[q] = phase[q]
    BY <1>2 DEF Refuse, EnterResolution
  <2>3. \A q \in Ops : StatusOf(q)' = StatusOf(q)
    BY <2>1, <2>2 DEF StatusOf
  <2>4. status' = status
    BY <2>3
  <2> QED BY <1>2, <2>4 DEF Refuse, EnterResolution
<1>3. ASSUME NEW o \in Ops, FailResolution(o) PROVE Fifo!Drop(o)
  <2>1. StatusOf(o) = "admitted" /\ StatusOf(o)' = "over" /\ phase[o] = "resolving"
    BY <1>3 DEF FailResolution, StatusOf
  <2>2. status' = [status EXCEPT ![o] = "over"]
    BY <1>3, <2>1, PhaseMoves DEF FailResolution, Phases
  <2>3. \A p \in Fifo!Earlier(o) : status[p] # "admitted"
    BY <2>1, EarlierResolved DEF Fifo!Earlier
  <2> QED BY <1>3, <2>1, <2>2, <2>3 DEF FailResolution, Fifo!Drop
<1>4. ASSUME NEW o \in Ops, RegisterOperation(o) PROVE \E l \in Sessions : Fifo!Place(o, l)
  <2>1. StatusOf(o) = "admitted" /\ StatusOf(o)' = "placed" /\ phase[o] = "resolving"
    BY <1>4 DEF RegisterOperation, StatusOf
  <2>2. status' = [status EXCEPT ![o] = "placed"]
    BY <1>4, <2>1, PhaseMoves DEF RegisterOperation, Phases
  <2>3. \A p \in Fifo!Earlier(o) : status[p] # "admitted"
    BY <2>1, EarlierResolved DEF Fifo!Earlier
  <2> QED BY <1>4, <2>1, <2>2, <2>3 DEF RegisterOperation, Fifo!Place
<1>5. ASSUME NEW o \in Ops, StartBody(o) PROVE Fifo!Start(o)
  <2>1. StatusOf(o) = "placed" /\ StatusOf(o)' = "running" /\ phase'[o] = "running"
    BY <1>5 DEF StartBody, StatusOf
  <2>2. status' = [status EXCEPT ![o] = "running"]
    BY <1>5, <2>1, PhaseMoves DEF StartBody, Phases
  <2>3. DispatcherInv' /\ ticket' = ticket /\ family' = family /\ completed' = completed
    BY <1>5, StartBodyKeepsInv DEF StartBody
  <2>4. ASSUME NEW p \in Ops, Before(p, o), family[p] = family[o] PROVE status[p] = "over"
    <3>1. p \in completed
      BY <2>1, <2>3, <2>4 DEF DispatcherInv, LaneInv, Before
    <3> QED BY <3>1 DEF DispatcherInv, LaneInv, StatusOf
  <2>5. \A p \in Fifo!Earlier(o) : family[p] = family[o] => status[p] = "over"
    BY <2>4 DEF Fifo!Earlier, Before
  <2> QED BY <1>5, <2>1, <2>2, <2>5 DEF StartBody, Fifo!Start
<1>6. ASSUME NEW o \in Ops, FinishBody(o) PROVE Fifo!Finish(o)
  <2>1. StatusOf(o) = "running" /\ StatusOf(o)' = "over"
    BY <1>6 DEF FinishBody, StatusOf
  <2>2. status' = [status EXCEPT ![o] = "over"]
    BY <1>6, <2>1, PhaseMoves DEF FinishBody, Phases
  <2> QED BY <1>6, <2>1, <2>2 DEF FinishBody, Fifo!Finish
<1>7. ASSUME UNCHANGED phase PROVE status' = status
  <2>1. \A q \in Ops : StatusOf(q)' = StatusOf(q)
    BY <1>7 DEF StatusOf
  <2> QED BY <2>1
<1>8. ASSUME NEW o \in Ops, ClimbToParent(o) \/ DeleteSession(o) \/ Untrack(o)
      PROVE  UNCHANGED Fifo!fifoVars
  BY <1>7, <1>8 DEF ClimbToParent, DeleteSession, Untrack
<1>9. ASSUME NEW s \in Sessions, NEW p \in Sessions \cup {NoSession}, Reparent(s, p)
      PROVE  UNCHANGED Fifo!fifoVars
  BY <1>7, <1>9 DEF Reparent
<1>10. CASE BeginShutdown \/ BeginDrain
  <2>1. Fifo!Close
    BY <1>7, <1>10 DEF BeginShutdown, BeginDrain, Fifo!Close, DispatcherInv, DrainInv
  <2> QED BY <2>1 DEF Fifo!FifoNext
<1>11. CASE DrainOperations
  BY <1>7, <1>11 DEF DrainOperations
<1>12. CASE FinishDrain
  <2>1. \A o \in Ops : ~Unresolved(o) /\ ~Live(o)
    BY <1>12, DrainKeepsInv DEF FinishDrain, DispatcherInv, DrainInv, Unresolved, Live
  <2>2. \A o \in Ops : status[o] \in {"new", "over"}
    BY <2>1 DEF Unresolved, Live, StatusOf, Phases
  <2>3. Fifo!Drained
    BY <1>7, <1>12, <2>2 DEF FinishDrain, Fifo!Drained, DispatcherInv, DrainInv
  <2> QED BY <2>3 DEF Fifo!FifoNext
<1>13. CASE UNCHANGED vars
  BY <1>7, <1>13 DEF vars
<1> QED
  BY <1>1, <1>2, <1>3, <1>4, <1>5, <1>6, <1>8, <1>9, <1>10, <1>11, <1>12, <1>13
     DEF Next, Fifo!FifoNext

(* The dispatcher keeps the promise of FamilyFifo: serial lanes, arrival order, *)
(* and a drain that answers only when everything admitted is over.               *)
THEOREM ImplementsFifo == Spec => ImplementsFamilyFifo
<1>1. Init => Fifo!FifoInit
  BY DEF Init, Fifo!FifoInit, StatusOf
<1> QED
  BY <1>1, StepSimulation, TypeCorrect, InvariantHolds, PTL
     DEF Spec, ImplementsFamilyFifo, Fifo!FifoSpec

===============================================================================
