-------------------------- MODULE Coordinator_proofs --------------------------
(***************************************************************************)
(* Proofs about Coordinator, for every plan, every max_live and every      *)
(* max_attempts.  The verdict that a plan is stalled, and with it the      *)
(* refinement, needs a max_stall_cycles of at least 2.                     *)
(***************************************************************************)
EXTENDS Coordinator, FiniteSetTheorems, WellFoundedInduction, TLAPS

(* Where the tick is, and the parts it has not come to yet.                *)
TickInv ==
  /\ phase \in {"idle", "cancelled"} => todo = {} /\ admitted = None
  /\ phase = "dispatch" => todo \subseteq Ready(state)
  /\ phase = "poll" => todo \subseteq active /\ admitted = None
  /\ admitted # None => /\ admitted \in todo /\ admitted \in leases
                        /\ Cardinality(active) < MaxLive

(* The count of idle ticks never passes 1: a tick that begins with nothing *)
(* active and nothing waiting finds a part it may dispatch, and whatever   *)
(* becomes of that part is progress.                                       *)
StallInv ==
  stall # 0 =>
    /\ stall = 1
    /\ phase = "idle" \/ (phase = "dispatch" /\ ~ progress)
         => active = {} /\ ~ WaitingForRetry
    /\ phase = "dispatch" /\ ~ progress => todo # {}
    /\ phase = "poll" => progress

(* A part that is pending has no worker left from an earlier attempt.      *)
NoOldWorker ==
  phase # "cancelled" => \A p \in Parts : state[p] = "pending" => worker[p] # "live"

(* What a plan record can hold.  Where the first idle tick is already the  *)
(* verdict, a part may be blocked without a failed dependency.             *)
Sound(st) ==
  \A p \in Parts :
    /\ st[p] # "pending" /\ st[p] # "blocked" => \A d \in Deps[p] : st[d] = "done"
    /\ MaxStall > 1 /\ st[p] = "blocked" => FailedDependency(st, p)

IInv ==
  /\ TypeOK /\ TickInv /\ StallInv /\ Sound(state) /\ NoOldWorker
  /\ RunningIsActive /\ AdmissionMatchesWork /\ RetryBudget /\ LiveWithinMax

-----------------------------------------------------------------------------
LEMMA ConstantTypes ==
  /\ IsFiniteSet(Parts) /\ None \notin Parts
  /\ Deps \in [Parts -> SUBSET Parts] /\ Rank \in [Parts -> Nat]
  /\ MaxLive \in Nat \ {0} /\ MaxStall \in Nat \ {0} /\ MaxAttempts \in Nat \ {0}
  /\ MaxDefer \in Nat \ {0} /\ MaxRetryAfter \in Nat
BY CoordinatorAssumption

(* A nonempty set of parts has one of least rank.                          *)
LEMMA LeastRank ==
  ASSUME NEW S \in SUBSET Parts, S # {}
  PROVE  \E m \in S : \A q \in S : ~ (Rank[q] < Rank[m])
<1> DEFINE Lower(p) == {q \in Parts : Rank[q] < Rank[p]}
           R == StrictSubsetOrdering(Parts)
           T == {Lower(p) : p \in S}
<1>1. IsWellFoundedOn(R, SUBSET Parts)
  <2>1. FiniteSubsetsOf(Parts) = SUBSET Parts
    BY FS_FiniteSubsetsOfFinite, ConstantTypes
  <2>2. IsWellFoundedOn(StrictSubsetOrdering(Parts), FiniteSubsetsOf(Parts))
    BY FS_StrictSubsetOrderingWellFounded
  <2> QED
    BY <2>1, <2>2
<1>2. T \subseteq SUBSET Parts /\ T # {}
  OBVIOUS
<1>3. ASSUME NEW p \in S, NEW q \in S, Rank[q] < Rank[p]
      PROVE  <<Lower(q), Lower(p)>> \in R
  <2>1. Lower(q) \subseteq Lower(p)
    BY <1>3, CoordinatorAssumption
  <2>2. q \in Lower(p) /\ q \notin Lower(q)
    BY <1>3, CoordinatorAssumption
  <2> QED
    BY <2>1, <2>2 DEF StrictSubsetOrdering
<1>4. \E x \in T : \A y \in T : ~ (<<y, x>> \in R)
  <2> HIDE DEF T, R
  <2> QED BY <1>1, <1>2, WFMin
<1>5. PICK m \in S : \A y \in T : ~ (<<y, Lower(m)>> \in R)
  BY <1>4
<1> QED
  BY <1>3, <1>5

(* A plan that is not finished, in which nothing runs and no failure is    *)
(* left to propagate, has a part that is ready.                            *)
LEMMA SomethingReady ==
  ASSUME NEW st \in [Parts -> PartState], ~ Finished(st), Running(st) = {},
         BlockFailed(st) = st
  PROVE  Ready(st) # {}
<1> DEFINE S == {p \in Parts : st[p] = "pending"}
<1>1. S # {}
  BY DEF Finished, Terminal, Running, PartState
<1>2. PICK m \in S : \A q \in S : ~ (Rank[q] < Rank[m])
  BY <1>1, LeastRank
<1>3. m \in Parts /\ st[m] = "pending"
  BY <1>2
<1>4. ~ FailedDependency(st, m)
  BY <1>3 DEF BlockFailed
<1>5. ASSUME NEW d \in Deps[m] PROVE st[d] = "done"
  <2>1. d \in Parts /\ Rank[d] < Rank[m]
    BY <1>3, <1>5, CoordinatorAssumption
  <2>2. st[d] # "pending"
    BY <2>1, <1>2
  <2>3. st[d] # "running" /\ ~ FailedState(st[d])
    BY <2>1, <1>4, <1>5 DEF Running, FailedDependency
  <2> QED
    BY <2>1, <2>2, <2>3 DEF PartState, FailedState
<1> QED
  BY <1>3, <1>5 DEF Ready

-----------------------------------------------------------------------------
(* Blocking what has a failed dependency only adds failures.               *)
LEMMA BlockFailedFacts ==
  ASSUME NEW st \in [Parts -> PartState], Sound(st)
  PROVE  /\ BlockFailed(st) \in [Parts -> PartState]
         /\ Sound(BlockFailed(st))
         /\ Running(BlockFailed(st)) = Running(st)
         /\ \A p \in Parts : BlockFailed(st)[p] = "pending" => st[p] = "pending"
<1> DEFINE bs == BlockFailed(st)
<1>1. bs \in [Parts -> PartState]
  BY DEF BlockFailed, PartState
<1>2. \A p \in Parts : \/ bs[p] = st[p]
                       \/ /\ st[p] = "pending" /\ bs[p] = "blocked"
                          /\ FailedDependency(st, p)
  BY DEF BlockFailed
<1> HIDE DEF bs
<1>3. \A p \in Parts : FailedDependency(st, p) => FailedDependency(bs, p)
  BY <1>2, CoordinatorAssumption DEF FailedDependency, FailedState
<1>4. Sound(bs)
  BY <1>2, <1>3, CoordinatorAssumption DEF Sound
<1>5. Running(bs) = Running(st) /\ \A p \in Parts : bs[p] = "pending" => st[p] = "pending"
  BY <1>2 DEF Running
<1> QED
  BY <1>1, <1>4, <1>5 DEF bs

(* A part that is neither done nor failed can change its state without any *)
(* other part noticing.                                                    *)
LEMMA UpdateFacts ==
  ASSUME NEW st \in [Parts -> PartState], Sound(st), NEW p \in Parts,
         st[p] \in {"pending", "running"},
         NEW s \in PartState, s # "blocked",
         s # "pending" => \A d \in Deps[p] : st[d] = "done"
  PROVE  /\ [st EXCEPT ![p] = s] \in [Parts -> PartState]
         /\ Sound([st EXCEPT ![p] = s])
         /\ Ready(st) \ {p} \subseteq Ready([st EXCEPT ![p] = s])
         /\ Running([st EXCEPT ![p] = s]) =
              IF s = "running" THEN Running(st) \cup {p} ELSE Running(st) \ {p}
<1> DEFINE us == [st EXCEPT ![p] = s]
<1>1. us \in [Parts -> PartState] /\ us[p] = s /\ \A q \in Parts \ {p} : us[q] = st[q]
  OBVIOUS
<1> HIDE DEF us
<1>2. \A q \in Parts : st[q] = "done" \/ FailedState(st[q]) => us[q] = st[q]
  BY <1>1 DEF FailedState
<1>3. \A q \in Parts : (\A d \in Deps[q] : st[d] = "done") => \A d \in Deps[q] : us[d] = "done"
  BY <1>2, CoordinatorAssumption
<1>4. \A q \in Parts : FailedDependency(st, q) => FailedDependency(us, q)
  BY <1>2, CoordinatorAssumption DEF FailedDependency
<1>5. Sound(us)
  BY <1>1, <1>3, <1>4 DEF Sound
<1>6. Ready(st) \ {p} \subseteq Ready(us)
  BY <1>1, <1>3 DEF Ready
<1>7. Running(us) = IF s = "running" THEN Running(st) \cup {p} ELSE Running(st) \ {p}
  BY <1>1 DEF Running
<1> QED
  BY <1>1, <1>5, <1>6, <1>7 DEF us

LEMMA ActiveCount ==
  ASSUME NEW S \in SUBSET Parts
  PROVE  /\ Cardinality(S) \in Nat
         /\ \A T \in SUBSET S : Cardinality(T) \in Nat /\ Cardinality(T) <= Cardinality(S)
         /\ \A p \in Parts : /\ Cardinality(S \cup {p}) \in Nat
                            /\ Cardinality(S \cup {p}) <= Cardinality(S) + 1
<1>1. IsFiniteSet(S)
  BY ConstantTypes, FS_Subset
<1> QED
  BY <1>1, FS_Subset, FS_CardinalityType, FS_AddElement

-----------------------------------------------------------------------------
LEMMA InitHolds == FreshInit \/ RecoveredInit => IInv
<1> SUFFICES ASSUME FreshInit \/ RecoveredInit
             PROVE  IInv
  OBVIOUS
<1>1. /\ state \in [Parts -> PartState] /\ Sound(state)
      /\ worker = [p \in Parts |-> IF state[p] = "running" THEN "live" ELSE "none"]
      /\ InitWith(Running(state))
  <2>1. CASE FreshInit
    <3>1. Running(state) = {}
      BY <2>1 DEF FreshInit, Running
    <3> QED
      BY <2>1, <3>1 DEF FreshInit, PartState, Sound
  <2>2. CASE RecoveredInit
    BY <2>2 DEF RecoveredInit, Coherent, Sound
  <2> QED
    BY <2>1, <2>2
<1>2. Running(state) \in SUBSET Parts
  BY DEF Running
<1>3. TypeOK
  BY <1>1, <1>2 DEF TypeOK, InitWith, Worker
<1>4. TickInv /\ StallInv
  BY <1>1 DEF InitWith, TickInv, StallInv
<1>5. RunningIsActive /\ LiveWithinMax
  BY <1>1 DEF InitWith, RunningIsActive, LiveWithinMax
<1>6. AdmissionMatchesWork
  BY <1>1 DEF InitWith, AdmissionMatchesWork
<1>7. RetryBudget /\ NoOldWorker
  BY <1>1, CoordinatorAssumption DEF InitWith, RetryBudget, NoOldWorker, Running
<1> QED
  BY <1>1, <1>3, <1>4, <1>5, <1>6, <1>7 DEF IInv

-----------------------------------------------------------------------------
(* The steps of the tick as a whole.                                       *)
LEMMA BeginTickKeeps == IInv /\ BeginTick => IInv'
<1> SUFFICES ASSUME IInv, BeginTick PROVE IInv'
  OBVIOUS
<1>1. /\ state' = BlockFailed(state) /\ BlockFailed(state) \in [Parts -> PartState]
      /\ Sound(state') /\ Running(state') = Running(state)
      /\ \A p \in Parts : state'[p] = "pending" => state[p] = "pending"
  BY BlockFailedFacts DEF IInv, TypeOK, BeginTick
<1>2. /\ phase = "idle" /\ phase' = "dispatch" /\ todo' = Ready(state')
      /\ admitted' = None /\ ~ Finished(state)
      /\ progress' = (state' # state)
  BY DEF BeginTick, IInv, TickInv
<1>3. UNCHANGED <<active, recovered, attempts, wait, stall, admitted, worker, areas, leases>>
  BY DEF BeginTick, heldVars
<1>4. Ready(state') \in SUBSET Parts
  BY DEF Ready
<1>5. TypeOK'
  BY <1>1, <1>2, <1>3, <1>4 DEF IInv, TypeOK
<1>6. TickInv'
  BY <1>2 DEF TickInv
<1>7. RunningIsActive' /\ RetryBudget' /\ NoOldWorker' /\ LiveWithinMax' /\ AdmissionMatchesWork'
  BY <1>1, <1>2, <1>3
  DEF IInv, RunningIsActive, RetryBudget, NoOldWorker, LiveWithinMax, AdmissionMatchesWork
<1>8. StallInv'
  <2>1. stall # 0 => stall = 1 /\ active = {} /\ ~ WaitingForRetry
    BY <1>2 DEF IInv, StallInv
  <2>2. stall # 0 /\ state' = state => Ready(state') # {}
    BY <1>1, <1>2, <2>1, SomethingReady DEF IInv, TypeOK, RunningIsActive
  <2> QED
    BY <1>2, <1>3, <2>1, <2>2 DEF StallInv, WaitingForRetry
<1> QED
  BY <1>1, <1>5, <1>6, <1>7, <1>8 DEF IInv

LEMMA StopDispatchKeeps == IInv /\ StopDispatch => IInv'
<1> SUFFICES ASSUME IInv, StopDispatch PROVE IInv'
  OBVIOUS
<1>1. /\ phase = "dispatch" /\ admitted = None /\ phase' = "poll" /\ todo' = active
      /\ todo = {} \/ Cardinality(active) >= MaxLive
  BY DEF StopDispatch
<1>2. UNCHANGED <<state, active, recovered, attempts, wait, stall, admitted, progress,
                  worker, areas, leases>>
  BY DEF StopDispatch, heldVars
<1>3. TypeOK' /\ TickInv' /\ Sound(state)'
  BY <1>1, <1>2 DEF IInv, TypeOK, TickInv, Sound, FailedDependency
<1>4. RunningIsActive' /\ AdmissionMatchesWork' /\ RetryBudget' /\ NoOldWorker' /\ LiveWithinMax'
  BY <1>1, <1>2
  DEF IInv, RunningIsActive, Running, AdmissionMatchesWork, RetryBudget, NoOldWorker,
      LiveWithinMax
<1>5. StallInv'
  <2>1. active = {} => ~ (Cardinality(active) >= MaxLive)
    BY FS_EmptySet, CoordinatorAssumption
  <2>2. stall # 0 => stall = 1 /\ progress
    BY <1>1, <2>1 DEF IInv, StallInv, TypeOK
  <2> QED
    BY <1>1, <1>2, <2>2 DEF StallInv
<1> QED
  BY <1>3, <1>4, <1>5 DEF IInv

LEMMA EndTickKeeps == IInv /\ EndTick => IInv' /\ (MaxStall > 1 => state' = state)
<1> SUFFICES ASSUME IInv, EndTick PROVE IInv' /\ (MaxStall > 1 => state' = state)
  OBVIOUS
<1>1. /\ phase = "poll" /\ todo = {} /\ phase' = "idle"
      /\ stall' = IF ~ Stalled THEN 0 ELSE IF stall < MaxStall THEN stall + 1 ELSE stall
  BY DEF EndTick
<1>2. UNCHANGED <<active, recovered, attempts, wait, todo, admitted, progress, worker,
                  areas, leases>>
  BY DEF EndTick, heldVars
<1>3. stall # 0 => ~ Stalled
  BY <1>1 DEF IInv, StallInv, Stalled
<1>4. stall' \in {0, 1} /\ (stall' # 0 => Stalled)
  BY <1>1, <1>3, CoordinatorAssumption DEF IInv, TypeOK
<1>5. /\ MaxStall > 1 => state' = state
      /\ state' \in [Parts -> PartState] /\ Running(state') = Running(state)
      /\ \A p \in Parts : state'[p] = state[p] \/ (state[p] = "pending" /\ state'[p] = "blocked")
  <2>1. MaxStall > 1 => state' = state
    BY <1>4, CoordinatorAssumption DEF EndTick
  <2>2. state' = state \/ state' = [p \in Parts |-> IF state[p] = "pending" THEN "blocked" ELSE state[p]]
    BY DEF EndTick
  <2>3. /\ state' \in [Parts -> PartState]
        /\ \A p \in Parts : state'[p] = state[p] \/ (state[p] = "pending" /\ state'[p] = "blocked")
    BY <2>2 DEF IInv, TypeOK, PartState
  <2> QED
    BY <2>1, <2>3 DEF Running
<1>6. TypeOK' /\ TickInv' /\ Sound(state')
  <2>1. Sound(state')
    <3>1. CASE MaxStall > 1
      BY <1>5, <3>1 DEF IInv
    <3>2. CASE ~ (MaxStall > 1)
      BY <1>5, <3>2, CoordinatorAssumption DEF IInv, Sound
    <3> QED
      BY <3>1, <3>2
  <2> QED
    BY <1>1, <1>2, <1>4, <1>5, <2>1 DEF IInv, TypeOK, TickInv
<1>7. RunningIsActive' /\ AdmissionMatchesWork' /\ RetryBudget' /\ NoOldWorker' /\ LiveWithinMax'
  BY <1>1, <1>2, <1>5
  DEF IInv, RunningIsActive, AdmissionMatchesWork, RetryBudget, NoOldWorker, LiveWithinMax
<1>8. StallInv'
  BY <1>1, <1>2, <1>4 DEF StallInv, Stalled, WaitingForRetry
<1> QED
  BY <1>5, <1>6, <1>7, <1>8 DEF IInv

-----------------------------------------------------------------------------
(* The steps of the dispatch of one part.  What they have in common: the   *)
(* part is ready, so it is neither active nor failed.                      *)
LEMMA ConsidersFacts ==
  ASSUME IInv, NEW p \in Parts, Considers(p)
  PROVE  /\ phase = "dispatch" /\ admitted = None
         /\ p \in todo /\ todo \subseteq Ready(state)
         /\ state[p] = "pending" /\ \A d \in Deps[p] : state[d] = "done"
         /\ Cardinality(active) < MaxLive
         /\ active = Running(state) /\ p \notin active
BY DEF IInv, TickInv, Considers, IsNext, Ready, RunningIsActive, Running

LEMMA SkipWaitingKeeps ==
  ASSUME IInv, NEW p \in Parts, SkipWaiting(p)
  PROVE  IInv' /\ UNCHANGED state
<1>1. /\ phase = "dispatch" /\ admitted = None /\ todo' = todo \ {p} /\ wait[p] > 0
      /\ todo \subseteq Ready(state)
  BY ConsidersFacts DEF SkipWaiting
<1>2. UNCHANGED <<state, active, recovered, attempts, wait, stall, phase, admitted,
                  progress, worker, areas, leases>>
  BY DEF SkipWaiting, heldVars
<1>3. TypeOK' /\ TickInv' /\ Sound(state)'
  BY <1>1, <1>2 DEF IInv, TypeOK, TickInv, Sound, FailedDependency, Ready
<1>4. RunningIsActive' /\ AdmissionMatchesWork' /\ RetryBudget' /\ NoOldWorker' /\ LiveWithinMax'
  BY <1>1, <1>2
  DEF IInv, RunningIsActive, Running, AdmissionMatchesWork, RetryBudget, NoOldWorker,
      LiveWithinMax
<1>5. StallInv'
  BY <1>1, <1>2 DEF IInv, StallInv, WaitingForRetry
<1> QED
  BY <1>2, <1>3, <1>4, <1>5 DEF IInv

LEMMA PlanFailsKeeps ==
  ASSUME IInv, NEW p \in Parts, PlanFails(p)
  PROVE  IInv'
<1>1. /\ phase = "dispatch" /\ admitted = None /\ todo' = todo \ {p} /\ progress' = TRUE
      /\ todo \subseteq Ready(state) /\ state' = [state EXCEPT ![p] = "failed"]
      /\ state[p] = "pending" /\ \A d \in Deps[p] : state[d] = "done"
      /\ active = Running(state) /\ p \notin active
  BY ConsidersFacts DEF PlanFails
<1>2. UNCHANGED <<active, recovered, attempts, wait, stall, phase, admitted, worker, areas,
                  leases>>
  BY DEF PlanFails, heldVars
<1>3. /\ state' \in [Parts -> PartState] /\ Sound(state')
      /\ Ready(state) \ {p} \subseteq Ready(state')
      /\ Running(state') = Running(state) \ {p}
  BY <1>1, UpdateFacts DEF IInv, TypeOK, PartState
<1>4. TypeOK' /\ TickInv'
  BY <1>1, <1>2, <1>3 DEF IInv, TypeOK, TickInv
<1>5. RunningIsActive' /\ AdmissionMatchesWork' /\ LiveWithinMax'
  BY <1>1, <1>2, <1>3 DEF IInv, RunningIsActive, AdmissionMatchesWork, LiveWithinMax
<1>6. RetryBudget' /\ NoOldWorker'
  BY <1>1, <1>2 DEF IInv, RetryBudget, NoOldWorker, TypeOK
<1>7. StallInv'
  BY <1>1, <1>2 DEF IInv, StallInv
<1> QED
  BY <1>3, <1>4, <1>5, <1>6, <1>7 DEF IInv

(* Both refusals of admission defer the part and leave a smaller list.     *)
LEMMA RefusedKeeps ==
  ASSUME IInv, NEW p \in Parts, CapacityExhausted(p) \/ AreaBusy(p)
  PROVE  IInv' /\ UNCHANGED state
<1>1. /\ phase = "dispatch" /\ admitted = None /\ todo' \subseteq todo /\ progress' = TRUE
      /\ todo \subseteq Ready(state) /\ wait' = [wait EXCEPT ![p] = 1]
  BY ConsidersFacts DEF CapacityExhausted, AreaBusy
<1>2. UNCHANGED <<state, active, recovered, attempts, stall, phase, admitted, worker, areas,
                  leases>>
  BY DEF CapacityExhausted, AreaBusy, heldVars
<1>3. TypeOK' /\ TickInv' /\ Sound(state)'
  BY <1>1, <1>2 DEF IInv, TypeOK, TickInv, Sound, FailedDependency, Ready
<1>4. RunningIsActive' /\ AdmissionMatchesWork' /\ RetryBudget' /\ NoOldWorker' /\ LiveWithinMax'
  BY <1>1, <1>2
  DEF IInv, RunningIsActive, Running, AdmissionMatchesWork, RetryBudget, NoOldWorker,
      LiveWithinMax
<1>5. StallInv'
  BY <1>1, <1>2 DEF IInv, StallInv
<1> QED
  BY <1>2, <1>3, <1>4, <1>5 DEF IInv

LEMMA AdmitKeeps ==
  ASSUME IInv, NEW p \in Parts, Admit(p)
  PROVE  IInv' /\ UNCHANGED state
<1>1. /\ phase = "dispatch" /\ admitted = None /\ admitted' = p /\ p \in todo
      /\ todo \subseteq Ready(state) /\ Cardinality(active) < MaxLive
      /\ areas' = areas \cup {p} /\ leases' = leases \cup {p}
  BY ConsidersFacts DEF Admit
<1>2. UNCHANGED <<state, active, recovered, attempts, wait, stall, phase, todo, progress,
                  worker>>
  BY DEF Admit
<1>3. TypeOK' /\ TickInv' /\ Sound(state)'
  BY <1>1, <1>2 DEF IInv, TypeOK, TickInv, Sound, FailedDependency, Ready
<1>4. RunningIsActive' /\ RetryBudget' /\ NoOldWorker' /\ LiveWithinMax'
  BY <1>1, <1>2 DEF IInv, RunningIsActive, Running, RetryBudget, NoOldWorker, LiveWithinMax
<1>5. AdmissionMatchesWork'
  BY <1>1, <1>2, ConstantTypes DEF IInv, AdmissionMatchesWork
<1>6. StallInv'
  BY <1>1, <1>2 DEF IInv, StallInv, WaitingForRetry
<1> QED
  BY <1>2, <1>3, <1>4, <1>5, <1>6 DEF IInv

(* While a part is admitted it is ready, and its dispatch ends the same    *)
(* way for the list of parts however it ends.                              *)
LEMMA AdmittedFacts ==
  ASSUME IInv, NEW p \in Parts, admitted = p
  PROVE  /\ phase = "dispatch" /\ p \in todo /\ p \in leases /\ p \in areas
         /\ todo \subseteq Ready(state)
         /\ state[p] = "pending" /\ \A d \in Deps[p] : state[d] = "done"
         /\ Cardinality(active) < MaxLive
         /\ active = Running(state) /\ p \notin active
         /\ areas = active \cup {p}
         /\ \A q \in leases : q \in recovered \/ q = p \/ worker[q] = "live"
         /\ \A q \in active : worker[q] = "live" => q \in leases
<1>1. admitted # None /\ {admitted} \ {None} = {p}
  BY ConstantTypes
<1>2. p \in todo /\ p \in leases /\ Cardinality(active) < MaxLive
  BY <1>1 DEF IInv, TickInv
<1>3. phase = "dispatch"
  BY <1>1 DEF IInv, TickInv, TypeOK
<1>4. todo \subseteq Ready(state) /\ active = Running(state)
  BY <1>3 DEF IInv, TickInv, RunningIsActive
<1> QED
  BY <1>1, <1>2, <1>3, <1>4 DEF IInv, AdmissionMatchesWork, Ready, Running

LEMMA LaunchKeeps ==
  ASSUME IInv, NEW p \in Parts, Launch(p)
  PROVE  IInv'
<1>1. /\ admitted = p /\ state' = [state EXCEPT ![p] = "running"]
      /\ worker' = [worker EXCEPT ![p] = "live"]
      /\ attempts' = [attempts EXCEPT ![p] = @ + 1]
      /\ active' = active \cup {p}
      /\ admitted' = None /\ todo' = todo \ {p} /\ progress' = TRUE
  BY DEF Launch
<1>2. UNCHANGED <<recovered, wait, stall, phase, areas, leases>>
  BY DEF Launch
<1>3. /\ phase = "dispatch" /\ p \in leases /\ todo \subseteq Ready(state)
      /\ state[p] = "pending" /\ \A d \in Deps[p] : state[d] = "done"
      /\ Cardinality(active) < MaxLive /\ active = Running(state)
      /\ areas = active \cup {p}
      /\ \A q \in leases : q \in recovered \/ q = p \/ worker[q] = "live"
      /\ \A q \in active : worker[q] = "live" => q \in leases
  BY <1>1, AdmittedFacts
<1>4. /\ state' \in [Parts -> PartState] /\ Sound(state')
      /\ Ready(state) \ {p} \subseteq Ready(state')
      /\ Running(state') = Running(state) \cup {p}
  BY <1>1, <1>3, UpdateFacts DEF IInv, TypeOK, PartState
<1>5. TypeOK'
  BY <1>1, <1>2, <1>4 DEF IInv, TypeOK, Worker
<1>6. TickInv' /\ StallInv'
  BY <1>1, <1>2, <1>3, <1>4 DEF IInv, TickInv, StallInv
<1>7. RunningIsActive'
  BY <1>1, <1>3, <1>4 DEF RunningIsActive
<1>8. AdmissionMatchesWork'
  BY <1>1, <1>2, <1>3 DEF IInv, TypeOK, AdmissionMatchesWork
<1>9. RetryBudget'
  <2>1. attempts[p] < MaxAttempts
    BY <1>3 DEF IInv, RetryBudget
  <2>2. ASSUME NEW q \in Parts
        PROVE  attempts'[q] <= MaxAttempts /\ (state'[q] = "pending" => attempts'[q] < MaxAttempts)
    BY <1>1, <2>1, <2>2, ConstantTypes DEF IInv, TypeOK, RetryBudget
  <2> QED
    BY <2>2 DEF RetryBudget
<1>10. LiveWithinMax'
  <2>1. Cardinality(active) \in Nat /\ Cardinality(active \cup {p}) \in Nat
        /\ Cardinality(active \cup {p}) <= Cardinality(active) + 1
    BY ActiveCount DEF IInv, TypeOK
  <2> QED
    BY <1>1, <1>3, <2>1, ConstantTypes DEF LiveWithinMax
<1>11. NoOldWorker'
  BY <1>1, <1>2 DEF IInv, TypeOK, NoOldWorker
<1> QED
  BY <1>11, <1>4, <1>5, <1>6, <1>7, <1>8, <1>9, <1>10 DEF IInv

LEMMA LaunchDeferredKeeps ==
  ASSUME IInv, NEW p \in Parts, LaunchDeferred(p)
  PROVE  IInv' /\ UNCHANGED state
<1>1. /\ admitted = p /\ areas' = areas \ {p} /\ leases' = leases \ {p}
      /\ admitted' = None /\ todo' = todo \ {p} /\ progress' = TRUE
  BY DEF LaunchDeferred
<1>2. UNCHANGED <<state, active, recovered, attempts, stall, phase, worker>>
  BY DEF LaunchDeferred
<1>3. /\ phase = "dispatch" /\ todo \subseteq Ready(state) /\ p \notin active
      /\ areas = active \cup {p}
      /\ \A q \in leases : q \in recovered \/ q = p \/ worker[q] = "live"
      /\ \A q \in active : worker[q] = "live" => q \in leases
  BY <1>1, AdmittedFacts
<1>4. wait' \in [Parts -> Nat]
  <2>1. PICK w \in 1..MaxDefer : wait' = [wait EXCEPT ![p] = w]
    BY DEF LaunchDeferred
  <2>2. w \in Nat
    BY <2>1, ConstantTypes
  <2> QED
    BY <2>1, <2>2 DEF IInv, TypeOK
<1>5. TypeOK' /\ Sound(state)'
  BY <1>1, <1>2, <1>4 DEF IInv, TypeOK, Sound, FailedDependency
<1>6. TickInv' /\ StallInv'
  BY <1>1, <1>2, <1>3 DEF IInv, TickInv, StallInv, Ready
<1>7. RunningIsActive' /\ RetryBudget' /\ NoOldWorker' /\ LiveWithinMax'
  BY <1>2 DEF IInv, RunningIsActive, Running, RetryBudget, NoOldWorker, LiveWithinMax
<1>8. AdmissionMatchesWork'
  BY <1>1, <1>2, <1>3 DEF AdmissionMatchesWork
<1> QED
  BY <1>2, <1>5, <1>6, <1>7, <1>8 DEF IInv

LEMMA LaunchFailsKeeps ==
  ASSUME IInv, NEW p \in Parts, LaunchFails(p)
  PROVE  IInv'
<1>1. /\ admitted = p /\ state' = [state EXCEPT ![p] = "failed"]
      /\ areas' = areas \ {p} /\ leases' = leases \ {p}
      /\ admitted' = None /\ todo' = todo \ {p} /\ progress' = TRUE
      /\ worker' \in {worker, [worker EXCEPT ![p] = "live"]}
  BY DEF LaunchFails
<1>2. UNCHANGED <<active, recovered, attempts, wait, stall, phase>>
  BY DEF LaunchFails
<1>3. /\ phase = "dispatch" /\ todo \subseteq Ready(state) /\ p \notin active
      /\ state[p] = "pending" /\ \A d \in Deps[p] : state[d] = "done"
      /\ active = Running(state) /\ areas = active \cup {p}
      /\ \A q \in leases : q \in recovered \/ q = p \/ worker[q] = "live"
      /\ \A q \in active : worker[q] = "live" => q \in leases
  BY <1>1, AdmittedFacts
<1>4. /\ state' \in [Parts -> PartState] /\ Sound(state')
      /\ Ready(state) \ {p} \subseteq Ready(state')
      /\ Running(state') = Running(state) \ {p}
  BY <1>1, <1>3, UpdateFacts DEF IInv, TypeOK, PartState
<1>5. worker' \in [Parts -> Worker] /\ \A q \in Parts \ {p} : worker'[q] = worker[q]
  BY <1>1 DEF IInv, TypeOK, Worker
<1>6. TypeOK'
  BY <1>1, <1>2, <1>4, <1>5 DEF IInv, TypeOK
<1>7. TickInv' /\ StallInv'
  BY <1>1, <1>2, <1>3, <1>4 DEF IInv, TickInv, StallInv
<1>8. RunningIsActive' /\ LiveWithinMax'
  BY <1>1, <1>2, <1>3, <1>4 DEF IInv, RunningIsActive, LiveWithinMax
<1>9. AdmissionMatchesWork'
  BY <1>1, <1>2, <1>3, <1>5 DEF IInv, TypeOK, AdmissionMatchesWork
<1>10. RetryBudget' /\ NoOldWorker'
  BY <1>1, <1>2 DEF IInv, RetryBudget, NoOldWorker, TypeOK
<1> QED
  BY <1>4, <1>6, <1>7, <1>8, <1>9, <1>10 DEF IInv

-----------------------------------------------------------------------------
(* Polling.                                                                *)
LEMMA PollEmptyKeeps ==
  ASSUME IInv, NEW p \in Parts, PollEmpty(p)
  PROVE  IInv' /\ UNCHANGED state
<1>1. phase = "poll" /\ todo' = todo \ {p}
  BY DEF PollEmpty
<1>2. UNCHANGED <<state, active, recovered, attempts, wait, stall, phase, admitted,
                  progress, worker, areas, leases>>
  BY DEF PollEmpty, heldVars
<1>3. TypeOK' /\ TickInv' /\ Sound(state)'
  BY <1>1, <1>2 DEF IInv, TypeOK, TickInv, Sound, FailedDependency, Ready
<1>4. RunningIsActive' /\ AdmissionMatchesWork' /\ RetryBudget' /\ NoOldWorker' /\ LiveWithinMax'
  BY <1>1, <1>2
  DEF IInv, RunningIsActive, Running, AdmissionMatchesWork, RetryBudget, NoOldWorker,
      LiveWithinMax
<1>5. StallInv'
  BY <1>1, <1>2 DEF IInv, StallInv, WaitingForRetry
<1> QED
  BY <1>2, <1>3, <1>4, <1>5 DEF IInv

LEMMA ReconciledFacts ==
  ASSUME NEW o \in Outcome, NEW n \in Nat
  PROVE  /\ Reconciled(o, n) \in {"done", "failed", "conflict", "pending"}
         /\ Reconciled(o, n) = "pending" => n < MaxAttempts
BY ConstantTypes DEF Reconciled, Outcome

LEMMA PollOutcomeFacts ==
  ASSUME IInv, NEW p \in Parts, PollOutcome(p)
  PROVE  /\ phase = "poll" /\ admitted = None /\ todo \subseteq active /\ p \in active
         /\ active = Running(state) /\ state[p] = "running"
         /\ \A d \in Deps[p] : state[d] = "done"
         /\ \E s \in {"done", "failed", "conflict", "pending"} :
              /\ state' = [state EXCEPT ![p] = s]
              /\ s = "pending" => attempts[p] < MaxAttempts
<1>1. /\ phase = "poll" /\ p \in todo /\ worker[p] \in Outcome
      /\ state' = [state EXCEPT ![p] = Reconciled(worker[p], attempts[p])]
  BY DEF PollOutcome
<1>2. admitted = None /\ todo \subseteq active /\ active = Running(state)
  BY <1>1 DEF IInv, TickInv, RunningIsActive
<1>3. p \in active /\ state[p] = "running"
  BY <1>1, <1>2 DEF Running
<1>4. \A d \in Deps[p] : state[d] = "done"
  BY <1>3 DEF IInv, Sound
<1> DEFINE r == Reconciled(worker[p], attempts[p])
<1>5. /\ r \in {"done", "failed", "conflict", "pending"}
      /\ r = "pending" => attempts[p] < MaxAttempts
      /\ state' = [state EXCEPT ![p] = r]
  BY <1>1, ReconciledFacts DEF IInv, TypeOK
<1> HIDE DEF r
<1> QED
  BY <1>1, <1>2, <1>3, <1>4, <1>5

LEMMA PollOutcomeKeeps ==
  ASSUME IInv, NEW p \in Parts, PollOutcome(p)
  PROVE  IInv'
<1>1. /\ worker' = [worker EXCEPT ![p] = "none"]
      /\ areas' = areas \ {p} /\ leases' = leases \ {p}
      /\ active' = active \ {p} /\ recovered' = recovered \ {p}
      /\ todo' = todo \ {p} /\ progress' = TRUE
      /\ UNCHANGED <<attempts, stall, phase, admitted>>
  BY DEF PollOutcome
<1>2. /\ phase = "poll" /\ admitted = None /\ todo \subseteq active /\ p \in active
      /\ active = Running(state) /\ state[p] = "running"
      /\ \A d \in Deps[p] : state[d] = "done"
  BY PollOutcomeFacts
<1>3. PICK s \in {"done", "failed", "conflict", "pending"} :
        /\ state' = [state EXCEPT ![p] = s]
        /\ s = "pending" => attempts[p] < MaxAttempts
  BY PollOutcomeFacts
<1>4. /\ state' \in [Parts -> PartState] /\ Sound(state')
      /\ Running(state') = Running(state) \ {p}
  <2>1. s \in PartState /\ s # "blocked" /\ s # "running"
    BY DEF PartState
  <2> QED
    BY <1>2, <1>3, <2>1, UpdateFacts DEF IInv, TypeOK
<1>5. wait' \in [Parts -> Nat]
  <2>1. \/ \E w \in 0..MaxRetryAfter : wait' = [wait EXCEPT ![p] = w]
        \/ wait' = wait
    BY DEF PollOutcome
  <2>2. \A w \in 0..MaxRetryAfter : w \in Nat
    BY ConstantTypes
  <2> QED
    BY <2>1, <2>2 DEF IInv, TypeOK
<1>6. TypeOK'
  BY <1>1, <1>4, <1>5 DEF IInv, TypeOK, Worker
<1>7. TickInv' /\ StallInv'
  BY <1>1, <1>2 DEF IInv, TickInv, StallInv
<1>8. RunningIsActive'
  BY <1>1, <1>2, <1>4 DEF RunningIsActive
<1>9. AdmissionMatchesWork'
  BY <1>1, <1>2 DEF IInv, TypeOK, AdmissionMatchesWork
<1>10. RetryBudget' /\ NoOldWorker'
  BY <1>1, <1>3 DEF IInv, RetryBudget, NoOldWorker, TypeOK
<1>11. LiveWithinMax'
  <2>1. /\ Cardinality(active) \in Nat /\ Cardinality(active \ {p}) \in Nat
        /\ Cardinality(active \ {p}) <= Cardinality(active)
    BY ActiveCount DEF IInv, TypeOK
  <2> QED
    BY <1>1, <2>1, ConstantTypes DEF IInv, LiveWithinMax
<1> QED
  BY <1>4, <1>6, <1>7, <1>8, <1>9, <1>10, <1>11 DEF IInv

-----------------------------------------------------------------------------
LEMMA CancelActiveKeeps ==
  ASSUME IInv, CancelActive
  PROVE  IInv' /\ UNCHANGED state
<1>1. PICK failed \in SUBSET active :
        /\ active' = failed
        /\ recovered' = recovered \cap failed
        /\ areas' = areas \ (active \ failed)
        /\ leases' = leases \ (recovered \ failed)
        /\ worker' = [p \in Parts |->
                       IF p \in recovered \ failed /\ worker[p] = "live"
                       THEN "retry" ELSE worker[p]]
  BY DEF CancelActive
<1>2. /\ phase \in {"idle", "cancelled"} /\ phase' = "cancelled"
      /\ UNCHANGED <<state, attempts, wait, stall, todo, admitted, progress>>
  BY DEF CancelActive
<1>3. todo = {} /\ admitted = None
  BY <1>2 DEF IInv, TickInv
<1>4. worker' \in [Parts -> Worker]
  BY <1>1 DEF IInv, TypeOK, Worker, Outcome
<1>5. TypeOK' /\ TickInv' /\ Sound(state)'
  BY <1>1, <1>2, <1>3, <1>4 DEF IInv, TypeOK, TickInv, Sound, FailedDependency
<1>6. StallInv' /\ RunningIsActive' /\ RetryBudget' /\ NoOldWorker'
  BY <1>2 DEF IInv, StallInv, RunningIsActive, RetryBudget, NoOldWorker
<1>7. AdmissionMatchesWork'
  BY <1>1, <1>2, <1>3 DEF IInv, TypeOK, AdmissionMatchesWork
<1>8. LiveWithinMax'
  <2>1. /\ Cardinality(active) \in Nat /\ Cardinality(failed) \in Nat
        /\ Cardinality(failed) <= Cardinality(active)
    BY ActiveCount DEF IInv, TypeOK
  <2> QED
    BY <1>1, <2>1, ConstantTypes DEF IInv, LiveWithinMax
<1> QED
  BY <1>2, <1>5, <1>6, <1>7, <1>8 DEF IInv

LEMMA WorkerEndsKeeps ==
  ASSUME IInv, NEW p \in Parts, WorkerEnds(p)
  PROVE  IInv' /\ UNCHANGED state
<1>1. PICK outcome \in Outcome : worker' = [worker EXCEPT ![p] = outcome]
  BY DEF WorkerEnds
<1>2. /\ leases' = IF p \in recovered THEN leases ELSE leases \ {p}
      /\ UNCHANGED <<state, active, recovered, attempts, wait, stall, areas, phase, todo,
                     admitted, progress>>
      /\ worker[p] = "live"
  BY DEF WorkerEnds, tickVars
<1>3. worker' \in [Parts -> Worker] /\ worker'[p] # "live"
      /\ \A q \in Parts \ {p} : worker'[q] = worker[q]
  BY <1>1 DEF IInv, TypeOK, Worker, Outcome
<1>4. TypeOK' /\ Sound(state)'
  BY <1>2, <1>3 DEF IInv, TypeOK, Sound, FailedDependency
<1>6. StallInv' /\ RunningIsActive' /\ RetryBudget' /\ LiveWithinMax'
  BY <1>2
  DEF IInv, StallInv, WaitingForRetry, RunningIsActive, Running, RetryBudget, LiveWithinMax
<1>7. AdmissionMatchesWork'
  BY <1>2, <1>3 DEF IInv, TypeOK, AdmissionMatchesWork
<1>5. NoOldWorker'
  BY <1>2, <1>3 DEF IInv, NoOldWorker
<1>8. TickInv'
  <2>1. admitted # None => admitted # p
    BY <1>2, AdmittedFacts DEF IInv, NoOldWorker, TypeOK
  <2> QED
    BY <1>2, <2>1 DEF IInv, TickInv, Ready
<1> QED
  BY <1>2, <1>4, <1>5, <1>6, <1>7, <1>8 DEF IInv

LEMMA TimePassesKeeps ==
  ASSUME IInv, TimePasses
  PROVE  IInv' /\ UNCHANGED state
<1>1. /\ WaitingForRetry
      /\ wait' = [p \in Parts |-> IF wait[p] > 0 THEN wait[p] - 1 ELSE 0]
      /\ UNCHANGED <<state, active, recovered, attempts, stall, phase, todo, admitted,
                     progress, worker, areas, leases>>
  BY DEF TimePasses, tickVars, heldVars
<1>2. wait' \in [Parts -> Nat]
  BY <1>1 DEF IInv, TypeOK
<1>3. TypeOK' /\ TickInv' /\ Sound(state)'
  BY <1>1, <1>2 DEF IInv, TypeOK, TickInv, Sound, FailedDependency, Ready
<1>4. RunningIsActive' /\ AdmissionMatchesWork' /\ RetryBudget' /\ NoOldWorker' /\ LiveWithinMax'
  BY <1>1
  DEF IInv, RunningIsActive, Running, AdmissionMatchesWork, RetryBudget, NoOldWorker,
      LiveWithinMax
<1>5. StallInv'
  BY <1>1 DEF IInv, StallInv
<1> QED
  BY <1>1, <1>3, <1>4, <1>5 DEF IInv

-----------------------------------------------------------------------------
LEMMA NextKeeps == IInv /\ [Next]_vars => IInv'
<1> SUFFICES ASSUME IInv, [Next]_vars PROVE IInv'
  OBVIOUS
<1>1. CASE BeginTick
  BY <1>1, BeginTickKeeps
<1>2. CASE StopDispatch
  BY <1>2, StopDispatchKeeps
<1>3. CASE EndTick
  BY <1>3, EndTickKeeps
<1>4. ASSUME NEW p \in Parts, Dispatching(p) PROVE IInv'
  <2>1. CASE SkipWaiting(p)
    BY <2>1, SkipWaitingKeeps
  <2>2. CASE PlanFails(p)
    BY <2>2, PlanFailsKeeps
  <2>3. CASE CapacityExhausted(p) \/ AreaBusy(p)
    BY <2>3, RefusedKeeps
  <2>4. CASE Admit(p)
    BY <2>4, AdmitKeeps
  <2>5. CASE Launch(p)
    BY <2>5, LaunchKeeps
  <2>6. CASE LaunchDeferred(p)
    BY <2>6, LaunchDeferredKeeps
  <2>7. CASE LaunchFails(p)
    BY <2>7, LaunchFailsKeeps
  <2> QED
    BY <1>4, <2>1, <2>2, <2>3, <2>4, <2>5, <2>6, <2>7 DEF Dispatching
<1>5. ASSUME NEW p \in Parts, Polling(p) PROVE IInv'
  BY <1>5, PollEmptyKeeps, PollOutcomeKeeps DEF Polling
<1>6. CASE CancelActive
  BY <1>6, CancelActiveKeeps
<1>7. CASE TimePasses
  BY <1>7, TimePassesKeeps
<1>8. ASSUME NEW p \in Parts, WorkerEnds(p) PROVE IInv'
  BY <1>8, WorkerEndsKeeps
<1>9. CASE UNCHANGED vars
  BY <1>9
  DEF vars, IInv, TypeOK, TickInv, StallInv, NoOldWorker, Sound, FailedDependency, Ready,
      WaitingForRetry, RunningIsActive, Running, AdmissionMatchesWork, RetryBudget, LiveWithinMax
<1> QED
  BY <1>1, <1>2, <1>3, <1>4, <1>5, <1>6, <1>7, <1>8, <1>9 DEF Next, Ticking

(* The inductive invariant.                                                *)
THEOREM Invariance == Spec => []IInv
<1>1. FreshInit \/ RecoveredInit => IInv
  BY InitHolds
<1>2. IInv /\ [Next]_vars => IInv'
  BY NextKeeps
<1> QED
  BY <1>1, <1>2, PTL DEF Spec

(* The types hold in every reachable state.                                *)
THEOREM TypeCorrect == Spec => []TypeOK
<1>1. Spec => []IInv
  BY Invariance
<1>2. IInv => TypeOK
  BY DEF IInv
<1> QED
  BY <1>1, <1>2, PTL

(* The parts that look running are exactly those that are driven.          *)
THEOREM DrivesWhatRuns == Spec => []RunningIsActive
<1>1. Spec => []IInv
  BY Invariance
<1>2. IInv => RunningIsActive
  BY DEF IInv
<1> QED
  BY <1>1, <1>2, PTL

(* Area locks and dispatch leases are held for the work that is under way  *)
(* and for nothing else.                                                   *)
THEOREM HoldsWhatItUses == Spec => []AdmissionMatchesWork
<1>1. Spec => []IInv
  BY Invariance
<1>2. IInv => AdmissionMatchesWork
  BY DEF IInv
<1> QED
  BY <1>1, <1>2, PTL

(* No part is attempted more often than max_attempts, or left waiting for  *)
(* an attempt it does not have.                                            *)
THEOREM AttemptsBounded == Spec => []RetryBudget
<1>1. Spec => []IInv
  BY Invariance
<1>2. IInv => RetryBudget
  BY DEF IInv
<1> QED
  BY <1>1, <1>2, PTL

(* max_live bounds the workers the coordinator adds.                       *)
THEOREM LiveBounded == Spec => []LiveWithinMax
<1>1. Spec => []IInv
  BY Invariance
<1>2. IInv => LiveWithinMax
  BY DEF IInv
<1> QED
  BY <1>1, <1>2, PTL

(* A plan whose coordinator drives all its running parts is never given up *)
(* as stalled: with a fresh or a properly recovered start the verdict is   *)
(* unreachable, whatever admission refuses and however workers end.        *)
THEOREM NeverStalled == ASSUME MaxStall > 1 PROVE Spec => []NoStallVerdict
<1>1. Spec => []IInv
  BY Invariance
<1>2. IInv => NoStallVerdict
  BY CoordinatorAssumption DEF IInv, StallInv, NoStallVerdict
<1> QED
  BY <1>1, <1>2, PTL

-----------------------------------------------------------------------------
(* The refinement: every step is a step of the lifecycle or leaves the     *)
(* states alone.                                                           *)
LEMMA RefinedNext ==
  IInv /\ MaxStall > 1 /\ [Next]_vars => [Lifecycle!Next]_state
<1> SUFFICES ASSUME IInv, MaxStall > 1, Next, state' # state PROVE Lifecycle!Next
  BY DEF vars
<1>1. CASE BeginTick
  <2> DEFINE S == {p \in Parts : state[p] = "pending" /\ FailedDependency(state, p)}
  <2>1. state' = [p \in Parts |-> IF p \in S THEN "blocked" ELSE state[p]]
    BY <1>1 DEF BeginTick, BlockFailed
  <2>2. \A p \in S : state[p] = "pending" /\ Lifecycle!FailedDependency(p)
    BY DEF FailedDependency, FailedState, Lifecycle!FailedDependency, Lifecycle!FailedState
  <2>3. S \in SUBSET Parts
    OBVIOUS
  <2> HIDE DEF S
  <2>4. Lifecycle!Block(S)
    BY <2>1, <2>2 DEF Lifecycle!Block
  <2> QED
    BY <2>3, <2>4 DEF Lifecycle!Next
<1>2. CASE StopDispatch \/ EndTick \/ CancelActive \/ TimePasses
  BY <1>2, EndTickKeeps DEF StopDispatch, CancelActive, TimePasses
<1>3. ASSUME NEW p \in Parts, Dispatching(p) PROVE Lifecycle!Next
  <2>1. CASE PlanFails(p)
    <3>1. Lifecycle!Reject(p)
      BY <2>1, ConsidersFacts DEF PlanFails, Lifecycle!Reject, Lifecycle!DependenciesDone
    <3> QED
      BY <3>1 DEF Lifecycle!Next
  <2>2. CASE Launch(p)
    <3>1. Lifecycle!Start(p)
      BY <2>2, AdmittedFacts DEF Launch, Lifecycle!Start, Lifecycle!DependenciesDone
    <3> QED
      BY <3>1 DEF Lifecycle!Next
  <2>3. CASE LaunchFails(p)
    <3>1. Lifecycle!Reject(p)
      BY <2>3, AdmittedFacts DEF LaunchFails, Lifecycle!Reject, Lifecycle!DependenciesDone
    <3> QED
      BY <3>1 DEF Lifecycle!Next
  <2> QED
    BY <1>3, <2>1, <2>2, <2>3
    DEF Dispatching, SkipWaiting, CapacityExhausted, AreaBusy, Admit, LaunchDeferred
<1>4. ASSUME NEW p \in Parts, Polling(p) PROVE Lifecycle!Next
  <2>1. CASE PollOutcome(p)
    <3>1. Lifecycle!End(p)
      BY <2>1, PollOutcomeFacts DEF Lifecycle!End
    <3> QED
      BY <3>1 DEF Lifecycle!Next
  <2> QED
    BY <1>4, <2>1 DEF Polling, PollEmpty
<1>5. ASSUME NEW p \in Parts, WorkerEnds(p) PROVE Lifecycle!Next
  BY <1>5 DEF WorkerEnds
<1> QED
  BY <1>1, <1>2, <1>3, <1>4, <1>5 DEF Next, Ticking

(* The coordinator implements the lifecycle: no interleaving of its ticks  *)
(* with workers, refusals, retries and cancellation makes a part start     *)
(* before its dependencies are done, leave a terminal state, or be blocked *)
(* without a failed dependency.                                            *)
THEOREM Refinement == ASSUME MaxStall > 1 PROVE Spec => ImplementsLifecycle
<1>1. FreshInit \/ RecoveredInit => Lifecycle!Init
  BY InitHolds
  DEF IInv, TypeOK, Sound, FailedDependency, FailedState, PartState, Lifecycle!Init,
      Lifecycle!Coherent, Lifecycle!DependenciesDone, Lifecycle!FailedDependency,
      Lifecycle!FailedState, Lifecycle!PartState
<1>2. IInv /\ [Next]_vars => [Lifecycle!Next]_state
  BY RefinedNext
<1>3. Spec => []IInv
  BY Invariance
<1> QED
  BY <1>1, <1>2, <1>3, PTL DEF Spec, ImplementsLifecycle, Lifecycle!Spec
=============================================================================
