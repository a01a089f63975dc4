----------------------------- MODULE MCPluginSlot -----------------------------
(* The bounds of one behaviour, chosen at its start: a slot under every kind of *)
(* command, failing shutdowns and its disposal, for a single generation and all *)
(* the operations; or two generations under restarts or under disables (a stop  *)
(* is a restart's first half), with one operation.                              *)
EXTENDS PluginSlot

CONSTANT First   \* the operation that calls when only one does

VARIABLE budget

Commands == {"stop", "restart", "disable"}

Budgets ==
  {[gens |-> 1, kinds |-> Commands, callers |-> Ops, failures |-> 1, disposals |-> 1]}
    \cup [gens : {2}, kinds : {{"restart"}, {"disable"}}, callers : {{First}},
            failures : {0}, disposals : {0}]

\* Only what the environment starts is bounded: no step a fairness condition asks for.
Within(b) ==
  /\ generation' <= b.gens
  /\ cmd = NoCommand => /\ cmd'.kind \in b.kinds \cup {"none"}
                        /\ cmd'.kind = "restart" => generation < b.gens
  /\ \A o \in Ops \ b.callers : ops'[o].phase = "idle"
  /\ Cardinality({g \in Gens : life'[g] = "failed"}) <= b.failures
  /\ b.disposals = 0 => disposal'.at = "none"

BudgetInit == Init /\ budget \in Budgets

BudgetSpec ==
  /\ BudgetInit
  /\ [][Next /\ Within(budget) /\ UNCHANGED budget]_<<vars, budget>>
  /\ Fairness
===============================================================================
