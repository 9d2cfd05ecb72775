------------------------------ MODULE Coordinator ------------------------------
(***************************************************************************)
(* The runtime coordinator of one plan (scheduler/runtime): the loop that  *)
(* blocks the parts whose dependencies failed, dispatches the ready parts, *)
(* polls the active ones, and gives up when nothing can progress.          *)
(*                                                                         *)
(* A tick is not atomic: the list of ready parts is computed once, while   *)
(* workers end and time passes between two parts.  Admission and the       *)
(* runner answer as they like; what they hold for a part is in areas (its  *)
(* area locks) and leases (its dispatch lease).                            *)
(*                                                                         *)
(* Times are counted from now: wait[p] is what is left of retry_after[p].  *)
(* An absent or past retry_after is 0.                                     *)
(***************************************************************************)
EXTENDS Integers, FiniteSets

CONSTANTS
  Parts,
  Deps,           \* depends_on of each part
  Order,          \* position of each part in the plan
  Rank,           \* a topological order: the graph was checked to be acyclic
  None,
  MaxLive, MaxStall, MaxAttempts,   \* RuntimeConfig
  MaxDefer,       \* MAX_DEFERRED_RETRY_SECONDS
  MaxRetryAfter   \* bound of the model: the farthest retry time of a worker

PartState == {"pending", "running", "done", "failed", "conflict", "blocked"}
Outcome == {"completed", "failed", "conflict", "retry"}
Worker == {"none", "live"} \cup Outcome

ASSUME CoordinatorAssumption ==
  /\ IsFiniteSet(Parts) /\ None \notin Parts
  /\ Deps \in [Parts -> SUBSET Parts]
  /\ Order \in [Parts -> Nat]
  /\ \A p, q \in Parts : p # q => Order[p] # Order[q]
  /\ Rank \in [Parts -> Nat]
  /\ \A p \in Parts : \A d \in Deps[p] : Rank[d] < Rank[p]
  /\ MaxLive \in Nat \ {0} /\ MaxStall \in Nat \ {0} /\ MaxAttempts \in Nat \ {0}
  /\ MaxDefer \in Nat \ {0} /\ MaxRetryAfter \in Nat

VARIABLES
  state,       \* PlanState.states
  active,      \* the parts in RuntimeCoordinator.active
  recovered,   \* those of them whose worker another process started
  attempts, wait, stall,
  phase,       \* where the tick is; "cancelled" once the plan is interrupted
  todo,        \* the parts this phase of the tick has not come to yet
  admitted,    \* the part admitted and not yet dispatched, or None
  progress,    \* TickReport.progressed
  worker,      \* the run of each part: none, live, or how it ended
  areas, leases

vars == <<state, active, recovered, attempts, wait, stall, phase, todo, admitted,
          progress, worker, areas, leases>>

tickVars == <<phase, todo, admitted, progress>>
heldVars == <<worker, areas, leases>>

(* A part is active at most once, its attempts and its timer are counters, *)
(* and what admission and the runner hold belongs to parts of the plan.    *)
TypeOK ==
  /\ state \in [Parts -> PartState]
  /\ active \in SUBSET Parts /\ recovered \in SUBSET active
  /\ attempts \in [Parts -> Nat] /\ wait \in [Parts -> Nat] /\ stall \in Nat
  /\ phase \in {"idle", "dispatch", "poll", "cancelled"}
  /\ todo \in SUBSET Parts /\ admitted \in Parts \cup {None} /\ progress \in BOOLEAN
  /\ worker \in [Parts -> Worker]
  /\ areas \in SUBSET Parts /\ leases \in SUBSET Parts

-----------------------------------------------------------------------------
Terminal(s) == s \in {"done", "failed", "conflict", "blocked"}

FailedState(s) == s \in {"failed", "conflict", "blocked"}

Finished(st) == \A p \in Parts : Terminal(st[p])

FailedDependency(st, p) == \E d \in Deps[p] : FailedState(st[d])

(* Wrong on purpose: ready when every dependency has ended.                *)
ReadyWhenEnded(st) ==
  {p \in Parts : st[p] = "pending" /\ \A d \in Deps[p] : Terminal(st[d])}

Ready(st) == {p \in Parts : st[p] = "pending" /\ \A d \in Deps[p] : st[d] = "done"}

Dependents(p) == {q \in Parts : p \in Deps[q]}

(* ready_order: more direct dependents first, then the order of the plan.  *)
Before(p, q) ==
  \/ Cardinality(Dependents(p)) > Cardinality(Dependents(q))
  \/ Cardinality(Dependents(p)) = Cardinality(Dependents(q)) /\ Order[p] < Order[q]

IsNext(p) == p \in todo /\ \A q \in todo \ {p} : Before(p, q)

WaitingForRetry == \E p \in Parts : wait[p] > 0

(* block_failed_dependencies: one level of the graph, on the old states.   *)
BlockFailed(st) ==
  [p \in Parts |-> IF st[p] = "pending" /\ FailedDependency(st, p) THEN "blocked" ELSE st[p]]

-----------------------------------------------------------------------------
(* A coordinator built for a new plan has everything pending.  One built   *)
(* for a recovered record has the running parts registered with their      *)
(* workers and admitted again, on their first attempt.                     *)
InitWith(registered) ==
  /\ active = registered /\ recovered = registered
  /\ attempts = [p \in Parts |-> IF p \in registered THEN 1 ELSE 0]
  /\ wait = [p \in Parts |-> 0]
  /\ stall = 0
  /\ phase = "idle" /\ todo = {} /\ admitted = None /\ progress = FALSE
  /\ areas = registered /\ leases = registered

FreshInit ==
  /\ state = [p \in Parts |-> "pending"]
  /\ worker = [p \in Parts |-> "none"]
  /\ InitWith({})

Running(st) == {p \in Parts : st[p] = "running"}

(* What a plan record can hold: started parts have their dependencies      *)
(* done, blocked parts have one that failed.                               *)
Coherent(st) ==
  \A p \in Parts :
    /\ st[p] # "pending" /\ st[p] # "blocked" => \A d \in Deps[p] : st[d] = "done"
    /\ st[p] = "blocked" => FailedDependency(st, p)

RecoveredInit ==
  /\ state \in {st \in [Parts -> PartState] : Coherent(st)}
  /\ worker = [p \in Parts |-> IF state[p] = "running" THEN "live" ELSE "none"]
  /\ InitWith(Running(state))

-----------------------------------------------------------------------------
(* tick, first part: block, then list what is ready.  The run loop calls   *)
(* tick until the plan is finished.                                        *)
BeginTick ==
  /\ phase = "idle" /\ ~ Finished(state)
  /\ state' = BlockFailed(state)
  /\ progress' = (state' # state)
  /\ todo' = Ready(state')
  /\ phase' = "dispatch"
  /\ UNCHANGED <<active, recovered, attempts, wait, stall, admitted>>
  /\ UNCHANGED heldVars

(* dispatch_ready looks at its next part while there is room for a worker. *)
Considers(p) ==
  /\ phase = "dispatch" /\ admitted = None
  /\ IsNext(p) /\ Cardinality(active) < MaxLive

StopDispatch ==
  /\ phase = "dispatch" /\ admitted = None
  /\ todo = {} \/ Cardinality(active) >= MaxLive
  /\ phase' = "poll" /\ todo' = active
  /\ UNCHANGED <<state, active, recovered, attempts, wait, stall, admitted, progress>>
  /\ UNCHANGED heldVars

SkipWaiting(p) ==
  /\ Considers(p) /\ wait[p] > 0
  /\ todo' = todo \ {p}
  /\ UNCHANGED <<state, active, recovered, attempts, wait, stall, phase, admitted, progress>>
  /\ UNCHANGED heldVars

(* The planner cannot prepare the part: terminal failure.                  *)
PlanFails(p) ==
  /\ Considers(p) /\ wait[p] = 0
  /\ state' = [state EXCEPT ![p] = "failed"]
  /\ todo' = todo \ {p} /\ progress' = TRUE
  /\ UNCHANGED <<active, recovered, attempts, wait, stall, phase, admitted>>
  /\ UNCHANGED heldVars

(* CapacityExhausted: defer the part and end the loop.                     *)
CapacityExhausted(p) ==
  /\ Considers(p) /\ wait[p] = 0
  /\ wait' = [wait EXCEPT ![p] = 1]
  /\ todo' = {} /\ progress' = TRUE
  /\ UNCHANGED <<state, active, recovered, attempts, stall, phase, admitted>>
  /\ UNCHANGED heldVars

(* AreaBusy: defer the part and go on with the next.                       *)
AreaBusy(p) ==
  /\ Considers(p) /\ wait[p] = 0
  /\ wait' = [wait EXCEPT ![p] = 1]
  /\ todo' = todo \ {p} /\ progress' = TRUE
  /\ UNCHANGED <<state, active, recovered, attempts, stall, phase, admitted>>
  /\ UNCHANGED heldVars

Admit(p) ==
  /\ Considers(p) /\ wait[p] = 0
  /\ admitted' = p
  /\ areas' = areas \cup {p} /\ leases' = leases \cup {p}
  /\ UNCHANGED <<state, active, recovered, attempts, wait, stall, phase, todo, progress, worker>>

(* The runner starts a worker and its receipt is recorded.                 *)
Launch(p) ==
  /\ admitted = p /\ worker[p] = "none"
  /\ state' = [state EXCEPT ![p] = "running"]
  /\ worker' = [worker EXCEPT ![p] = "live"]
  /\ attempts' = [attempts EXCEPT ![p] = @ + 1]
  /\ active' = active \cup {p}
  /\ admitted' = None /\ todo' = todo \ {p} /\ progress' = TRUE
  /\ UNCHANGED <<recovered, wait, stall, phase, areas, leases>>

(* Wrong on purpose: the deferred part keeps what it was admitted with.    *)
LaunchDeferredHolding(p) ==
  /\ admitted = p
  /\ \E w \in 1..MaxDefer : wait' = [wait EXCEPT ![p] = w]
  /\ admitted' = None /\ todo' = todo \ {p} /\ progress' = TRUE
  /\ UNCHANGED <<state, active, recovered, attempts, stall, phase, heldVars>>

(* The runner defers: no eligible account, or the ledger refuses the bind. *)
LaunchDeferred(p) ==
  /\ admitted = p
  /\ \E w \in 1..MaxDefer : wait' = [wait EXCEPT ![p] = w]
  /\ areas' = areas \ {p} /\ leases' = leases \ {p}
  /\ admitted' = None /\ todo' = todo \ {p} /\ progress' = TRUE
  /\ UNCHANGED <<state, active, recovered, attempts, stall, phase, worker>>

(* Terminal dispatch error.  The worker was not started, or it was started *)
(* and the plan record could not take it, and it was told to stop.         *)
LaunchFails(p) ==
  /\ admitted = p
  /\ worker' \in {worker, [worker EXCEPT ![p] = "live"]}
  /\ state' = [state EXCEPT ![p] = "failed"]
  /\ areas' = areas \ {p} /\ leases' = leases \ {p}
  /\ admitted' = None /\ todo' = todo \ {p} /\ progress' = TRUE
  /\ UNCHANGED <<active, recovered, attempts, wait, stall, phase>>

-----------------------------------------------------------------------------
PollEmpty(p) ==
  /\ phase = "poll" /\ p \in todo /\ worker[p] = "live"
  /\ todo' = todo \ {p}
  /\ UNCHANGED <<state, active, recovered, attempts, wait, stall, phase, admitted, progress>>
  /\ UNCHANGED heldVars

(* reconcile: how a part goes on after an outcome on its n-th attempt.     *)
Reconciled(outcome, n) ==
  CASE outcome = "completed" -> "done"
    [] outcome = "failed"    -> "failed"
    [] outcome = "conflict"  -> "conflict"
    [] outcome = "retry"     -> IF n >= MaxAttempts THEN "failed" ELSE "pending"

(* Wrong on purpose: the lease is left to the thread of the worker, which  *)
(* a recovered worker does not have.                                       *)
PollOutcomeNoRelease(p) ==
  /\ phase = "poll" /\ p \in todo /\ worker[p] \in Outcome
  /\ state' = [state EXCEPT ![p] = Reconciled(worker[p], attempts[p])]
  /\ IF state'[p] = "pending"
     THEN \E w \in 0..MaxRetryAfter : wait' = [wait EXCEPT ![p] = w]
     ELSE UNCHANGED wait
  /\ worker' = [worker EXCEPT ![p] = "none"]
  /\ areas' = areas \ {p}
  /\ active' = active \ {p} /\ recovered' = recovered \ {p}
  /\ todo' = todo \ {p} /\ progress' = TRUE
  /\ UNCHANGED <<attempts, stall, phase, admitted, leases>>

(* reconcile_completed; a rate limited worker may say when to try again.   *)
PollOutcome(p) ==
  /\ phase = "poll" /\ p \in todo /\ worker[p] \in Outcome
  /\ state' = [state EXCEPT ![p] = Reconciled(worker[p], attempts[p])]
  /\ IF state'[p] = "pending"
     THEN \E w \in 0..MaxRetryAfter : wait' = [wait EXCEPT ![p] = w]
     ELSE UNCHANGED wait
  /\ worker' = [worker EXCEPT ![p] = "none"]
  /\ areas' = areas \ {p} /\ leases' = leases \ {p}
  /\ active' = active \ {p} /\ recovered' = recovered \ {p}
  /\ todo' = todo \ {p} /\ progress' = TRUE
  /\ UNCHANGED <<attempts, stall, phase, admitted>>

(* Wrong on purpose: a part waiting for its retry does not count.          *)
StalledWhileWaiting == ~ progress /\ active = {} /\ ~ Finished(state)

Stalled == ~ progress /\ active = {} /\ ~ Finished(state) /\ ~ WaitingForRetry

(* tick, last part: count the idle ticks, and block what is left when they *)
(* are too many.  The clock is read again for WaitingForRetry.  Past       *)
(* max_stall_cycles the count no longer matters and is not raised further. *)
EndTick ==
  /\ phase = "poll" /\ todo = {}
  /\ phase' = "idle"
  /\ stall' = IF ~ Stalled THEN 0 ELSE IF stall < MaxStall THEN stall + 1 ELSE stall
  /\ state' = IF stall' >= MaxStall
              THEN [p \in Parts |-> IF state[p] = "pending" THEN "blocked" ELSE state[p]]
              ELSE state
  /\ UNCHANGED <<active, recovered, attempts, wait, todo, admitted, progress>>
  /\ UNCHANGED heldVars

(* cancel_active, when the tick finds the plan interrupted, and again for  *)
(* the parts whose cancellation failed.  A managed worker is told to stop  *)
(* and keeps its lease until its thread ends; a recovered one is killed.   *)
CancelActive ==
  /\ phase \in {"idle", "cancelled"}
  /\ phase' = "cancelled"
  /\ \E failed \in SUBSET active :
       /\ active' = failed
       /\ recovered' = recovered \cap failed
       /\ areas' = areas \ (active \ failed)
       /\ leases' = leases \ (recovered \ failed)
       /\ worker' = [p \in Parts |->
                      IF p \in recovered \ failed /\ worker[p] = "live"
                      THEN "retry" ELSE worker[p]]
  /\ UNCHANGED <<state, attempts, wait, stall, todo, admitted, progress>>

-----------------------------------------------------------------------------
(* The thread of a managed worker gives its lease back when it ends; a     *)
(* recovered worker belongs to no thread of this process.                  *)
WorkerEnds(p) ==
  /\ worker[p] = "live"
  /\ \E outcome \in Outcome : worker' = [worker EXCEPT ![p] = outcome]
  /\ leases' = IF p \in recovered THEN leases ELSE leases \ {p}
  /\ UNCHANGED <<state, active, recovered, attempts, wait, stall, areas>>
  /\ UNCHANGED tickVars

TimePasses ==
  /\ WaitingForRetry
  /\ wait' = [p \in Parts |-> IF wait[p] > 0 THEN wait[p] - 1 ELSE 0]
  /\ UNCHANGED <<state, active, recovered, attempts, stall>>
  /\ UNCHANGED tickVars /\ UNCHANGED heldVars

Dispatching(p) ==
  \/ SkipWaiting(p) \/ PlanFails(p) \/ CapacityExhausted(p) \/ AreaBusy(p) \/ Admit(p)
  \/ Launch(p) \/ LaunchDeferred(p) \/ LaunchFails(p)

Polling(p) == PollEmpty(p) \/ PollOutcome(p)

Ticking == BeginTick \/ StopDispatch \/ EndTick \/ \E p \in Parts : Dispatching(p) \/ Polling(p)

Next ==
  \/ Ticking
  \/ CancelActive
  \/ TimePasses
  \/ \E p \in Parts : WorkerEnds(p)

Spec == (FreshInit \/ RecoveredInit) /\ [][Next]_vars

(* The supervisor keeps ticking, a worker ends or is killed by its own     *)
(* time limit, the clock advances, and admission and the runner do not     *)
(* refuse a part for ever: other plans' workers end too.                   *)
Fairness ==
  /\ WF_vars(Ticking) /\ WF_vars(TimePasses)
  /\ \A p \in Parts : WF_vars(WorkerEnds(p)) /\ SF_vars(Admit(p)) /\ SF_vars(Launch(p))

FairSpec == Spec /\ Fairness

-----------------------------------------------------------------------------
(* What runs is what the coordinator drives: between cancellations no part *)
(* looks running without an active entry, or the other way round, however  *)
(* retries, refusals and late outcomes interleave.                         *)
RunningIsActive == phase # "cancelled" => active = Running(state)

(* Admission mirrors the work.  The areas are held for the active parts    *)
(* and the part being dispatched, and for no other; a live worker of an    *)
(* active part has its lease, and a lease belongs to a part taken over from *)
(* another supervisor or being dispatched, or to a worker that still runs. *)
AdmissionMatchesWork ==
  LET dispatched == {admitted} \ {None}
  IN  /\ areas = active \cup dispatched
      /\ \A p \in active : worker[p] = "live" => p \in leases
      /\ \A p \in leases : p \in recovered \cup dispatched \/ worker[p] = "live"

(* A part that waits for another attempt has attempts left, and none is    *)
(* ever attempted more than max_attempts times.                            *)
RetryBudget ==
  \A p \in Parts :
    /\ attempts[p] <= MaxAttempts
    /\ state[p] = "pending" => attempts[p] < MaxAttempts

(* --max-live bounds the workers of the plan; only workers taken over from *)
(* another supervisor may be more.                                         *)
LiveWithinMax == active \subseteq recovered \/ Cardinality(active) <= MaxLive

(* The coordinator gives a plan up as stalled only when a part it does not *)
(* drive looks running: the workers, retries and refusals of its own parts *)
(* never end in that verdict.                                              *)
NoStallVerdict == stall < MaxStall

Lifecycle == INSTANCE PlanLifecycle WITH Parts <- Parts, Deps <- Deps, state <- state

(* The coordinator implements the lifecycle: see PlanLifecycle.            *)
ImplementsLifecycle == Lifecycle!Spec

(* Every plan ends, unless it is interrupted, and gives everything back.   *)
Terminates == <>(phase = "cancelled" \/ (Finished(state) /\ areas = {} /\ leases = {}))

-----------------------------------------------------------------------------
(* The code does not keep the following in every setting, and no           *)
(* configuration checks it: README, "Known disagreements".                 *)

(* A part whose dispatch was deferred stays in the pending queue: only the *)
(* failure of a dependency blocks a part of this coordinator.              *)
DeferredStaysPending ==
  \A p \in Parts : state[p] = "blocked" => FailedDependency(state, p)

(* The dispatch lease covers the whole run of a worker: it is released on  *)
(* terminal completion and not before.                                     *)
LeaseCoversRun == \A p \in Parts : worker[p] = "live" => p \in leases
=============================================================================
