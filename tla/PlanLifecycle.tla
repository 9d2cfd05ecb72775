----------------------------- MODULE PlanLifecycle -----------------------------
(***************************************************************************)
(* What the coordinator promises about the parts of one plan, whatever the *)
(* order of ticks, workers and refusals: a part starts or is rejected only *)
(* when all its dependencies are done, goes back to pending only while it  *)
(* runs, is blocked only by a dependency that failed, and keeps its state  *)
(* for ever once it is terminal.                                           *)
(***************************************************************************)
CONSTANTS Parts, Deps

VARIABLE state

PartState == {"pending", "running", "done", "failed", "conflict", "blocked"}

FailedState(s) == s \in {"failed", "conflict", "blocked"}

DependenciesDone(p) == \A d \in Deps[p] : state[d] = "done"

FailedDependency(p) == \E d \in Deps[p] : FailedState(state[d])

(* Started parts have their dependencies done; blocked parts have one that *)
(* failed.                                                                 *)
Coherent ==
  \A p \in Parts :
    /\ state[p] # "pending" /\ state[p] # "blocked" => DependenciesDone(p)
    /\ state[p] = "blocked" => FailedDependency(p)

Init == state \in [Parts -> PartState] /\ Coherent

Start(p) ==
  /\ state[p] = "pending" /\ DependenciesDone(p)
  /\ state' = [state EXCEPT ![p] = "running"]

Reject(p) ==
  /\ state[p] = "pending" /\ DependenciesDone(p)
  /\ state' = [state EXCEPT ![p] = "failed"]

(* A run ends, or the part is to be tried again.                           *)
End(p) ==
  /\ state[p] = "running"
  /\ \E s \in {"pending", "done", "failed", "conflict"} : state' = [state EXCEPT ![p] = s]

Block(S) ==
  /\ \A p \in S : state[p] = "pending" /\ FailedDependency(p)
  /\ state' = [p \in Parts |-> IF p \in S THEN "blocked" ELSE state[p]]

Next ==
  \/ \E p \in Parts : Start(p) \/ Reject(p) \/ End(p)
  \/ \E S \in SUBSET Parts : Block(S)

Spec == Init /\ [][Next]_state
=============================================================================
