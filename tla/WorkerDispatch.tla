---------------------------- MODULE WorkerDispatch ----------------------------
(***************************************************************************)
(* The workers of one plan and the leases they run under: the dispatch of  *)
(* a part (scheduler/runtime/coordinator, scheduler/service/runner.rs,     *)
(* scheduler/service/provider_runner), its worker thread, polling,         *)
(* cancellation and recovery, composed with the admission ledger.  All     *)
(* attempts at a part have one scheduler run id and so one lease, which    *)
(* the thread, the poll, the coordinator and the recovery of whatever      *)
(* process all release by that id.                                         *)
(*                                                                         *)
(* The plan record is reduced to the part states and to who drives the     *)
(* plan; PlanSupervision has both in full.  Areas are those of AreaLocks:  *)
(* they are one more reason to give up a dispatch.                         *)
(***************************************************************************)
EXTENDS Integers, FiniteSets, Sequences

CONSTANTS
  Procs,         \* run-all processes
  Parts,         \* a part stands for its scheduler run id too
  Plan, Engine, Account, None, NoCap,
  FleetCap, LaneCap, SessionCap, Ttl,
  MaxAttempts,   \* bound of the model: attempts at a part
  MaxTime,       \* bound of the model: the last instant of the clock
  Orderly        \* the plan changes hands only when its driver is dead

VARIABLES
  leases, live, clock,   \* the ledger, the processes that run, the time
  mode,          \* what each process is to the plan
  step,          \* how far a process is with dispatching a part
  act,           \* the coordinator's active parts, by kind of worker
  job,           \* the job table of each process
  att,           \* the attempts at each part, the newest last
  part           \* the part states of the plan record

ledgerVars == <<leases, live, clock>>
vars == <<leases, live, clock, mode, step, act, job, att, part>>

Ledger == INSTANCE DispatchLedger WITH
  Ids <- Parts, Tasks <- {Plan}, Engines <- {Engine}, Accounts <- {Account},
  Sessions <- Parts, Pids <- Procs, TaskCap <- 0, ProviderCap <- NoCap,
  leases <- leases, live <- live, clock <- clock

ASSUME DispatchAssumption ==
  /\ IsFiniteSet(Procs) /\ IsFiniteSet(Parts)
  /\ None \notin Procs \cup Parts /\ None \notin Ledger!Lease
  /\ Ttl \in Nat /\ MaxTime \in Nat /\ MaxAttempts \in Nat /\ Orderly \in BOOLEAN

(* thread: closing is between the end of the worker and the release of the *)
(* lease; broken ended with an error.  worker: the provider process.       *)
Attempt == [host : Procs, thread : {"working", "closing", "ended", "broken"},
            status : {"running", "completed", "limited", "failed", "cancelled", "withdrawn"},
            worker : BOOLEAN]

(* The ledger as in its own module; a job is an attempt that exists, and a *)
(* managed part has one.                                                   *)
TypeOK ==
  /\ Ledger!TypeOK
  /\ mode \in [Procs -> {"out", "rehydrating", "driving", "overtaken", "stopping", "left"}]
  /\ step \in [Procs -> [Parts -> {"idle", "admitted", "ensured", "bound"}]]
  /\ act \in [Procs -> [Parts -> {"none", "managed", "recovered"}]]
  /\ \A r \in Parts :
       /\ Len(att[r]) <= MaxAttempts
       /\ \A n \in DOMAIN att[r] : att[r][n] \in Attempt
       /\ \A p \in Procs :
            /\ job[p][r] \in {0} \cup DOMAIN att[r]
            /\ act[p][r] = "managed" => job[p][r] # 0
  /\ part \in [Parts -> {"pending", "running", "done", "failed"}]

-----------------------------------------------------------------------------
Last(r) == att[r][Len(att[r])]

(* run_is_live: a run that still counts as running lives as long as its    *)
(* supervisor or its worker does; a cancelled one counts as ended.         *)
IsLive(r) ==
  att[r] # <<>> /\ Last(r).status = "running" /\ (Last(r).host \in live \/ Last(r).worker)

(* reconcile: what may be tried again is tried again up to max_attempts.   *)
Outcomes(status) ==
  CASE status = "completed" -> {"done"}
    [] status = "failed" -> {"failed"}
    [] OTHER -> {"pending", "failed"}

(* What inspecting the record says of the last attempt, once it has ended. *)
Found(r) == IF att[r] = <<>> THEN "running" ELSE Last(r).status

Init ==
  /\ Ledger!Init
  /\ \E p \in Procs : mode = [q \in Procs |-> IF q = p THEN "driving" ELSE "out"]
  /\ step = [p \in Procs |-> [r \in Parts |-> "idle"]]
  /\ act = [p \in Procs |-> [r \in Parts |-> "none"]]
  /\ job = [p \in Procs |-> [r \in Parts |-> 0]]
  /\ att = [r \in Parts |-> <<>>]
  /\ part = [r \in Parts |-> "pending"]

-----------------------------------------------------------------------------
(* Transactions of the ledger by run id.                                   *)

Release(r) == Ledger!Release(r, clock)

(* Wrong on purpose: a lease that is there already is taken over.          *)
EnsureReservedTakingOver(p, r) ==
  /\ p \in live
  /\ \/ Ledger!ReserveTx(p, r, Plan, Engine, clock)
     \/ leases[r] # None /\ leases' = [leases EXCEPT ![r].owner = p]
  /\ UNCHANGED <<live, clock>>

EnsureReserved(p, r) == Ledger!EnsureReserved(p, r, Plan, Engine, clock)

(* Dispatch of a part, for which the coordinator looks up the ledger three *)
(* times.  First its admission ...                                         *)
Admit(p, r) ==
  /\ mode[p] = "driving" /\ part[r] = "pending"
  /\ \A q \in Parts : step[p][q] = "idle"
  /\ Len(att[r]) < MaxAttempts
  /\ EnsureReserved(p, r)
  /\ step' = [step EXCEPT ![p][r] = "admitted"]
  /\ UNCHANGED <<mode, act, job, att, part>>

(* ... then the runner, if it has no job of that id ...                    *)
Ensure(p, r) ==
  /\ step[p][r] = "admitted" /\ job[p][r] = 0
  /\ EnsureReserved(p, r)
  /\ step' = [step EXCEPT ![p][r] = "ensured"]
  /\ UNCHANGED <<mode, act, job, att, part>>

(* ... and when the account is known.                                      *)
Bind(p, r) ==
  /\ step[p][r] = "ensured" /\ p \in live
  /\ Ledger!Bind(r, Engine, Account, r, clock)
  /\ step' = [step EXCEPT ![p][r] = "bound"]
  /\ UNCHANGED <<mode, act, job, att, part>>

(* Wrong on purpose: what fails before the launch keeps its lease.         *)
GiveUpHolding(p, r) ==
  /\ step[p][r] # "idle" /\ p \in live
  /\ step' = [step EXCEPT ![p][r] = "idle"]
  /\ part' \in {part, [part EXCEPT ![r] = IF @ = "pending" THEN "failed" ELSE @]}
  /\ UNCHANGED <<ledgerVars, mode, act, job, att>>

(* The areas are busy, an event cannot be written, the ledger has no room, *)
(* no account can be selected, the run record or the thread cannot be      *)
(* created: the lease is given back; the part is deferred or has failed.   *)
GiveUp(p, r) ==
  /\ step[p][r] # "idle" /\ p \in live
  /\ Release(r)
  /\ step' = [step EXCEPT ![p][r] = "idle"]
  /\ part' \in {part, [part EXCEPT ![r] = IF @ = "pending" THEN "failed" ELSE @]}
  /\ UNCHANGED <<mode, act, job, att>>

Started(p, r, status) ==
  /\ step[p][r] = "bound" /\ p \in live
  /\ att' = [att EXCEPT ![r] = Append(@, [host |-> p, thread |-> "working",
                                          status |-> status, worker |-> TRUE])]
  /\ job' = [job EXCEPT ![p][r] = Len(att'[r])]
  /\ step' = [step EXCEPT ![p][r] = "idle"]

Spawn(p, r) ==
  /\ Started(p, r, "running")
  /\ act' = [act EXCEPT ![p][r] = "managed"]
  /\ part' = [part EXCEPT ![r] = "running"]
  /\ UNCHANGED <<ledgerVars, mode>>

(* The plan record refuses the receipt: the run is marked aborted, and the *)
(* lease given back without waiting for the worker to end.                 *)
SpawnRefused(p, r) ==
  /\ Started(p, r, "withdrawn")
  /\ Release(r)
  /\ part' = [part EXCEPT ![r] = IF @ = "pending" THEN "failed" ELSE @]
  /\ UNCHANGED <<mode, act>>

-----------------------------------------------------------------------------
(* The worker thread: the provider process ends, also because its run was  *)
(* cancelled, and the record is finalised.                                 *)
WorkerEnds(r, n) ==
  /\ att[r][n].thread = "working" /\ att[r][n].host \in live
  /\ \E status \in IF att[r][n].status = "running" THEN {"completed", "limited", "failed"}
                                                    ELSE {att[r][n].status, "failed"} :
       att' = [att EXCEPT ![r][n].thread = "closing", ![r][n].worker = FALSE,
                          ![r][n].status = status]
  /\ UNCHANGED <<ledgerVars, mode, step, act, job, part>>

(* execute_run: the lease goes with the thread; if it cannot be released   *)
(* the outcome is an error whatever the worker did.                        *)
ThreadCloses(r, n) ==
  /\ att[r][n].thread = "closing" /\ att[r][n].host \in live
  /\ \/ Release(r) /\ att' = [att EXCEPT ![r][n].thread = "ended"]
     \/ UNCHANGED ledgerVars /\ att' = [att EXCEPT ![r][n].thread = "broken"]
  /\ UNCHANGED <<mode, step, act, job, part>>

(* A worker whose supervisor is gone ends, and nobody writes it down.      *)
OrphanEnds(r, n) ==
  /\ att[r][n].worker /\ att[r][n].host \notin live
  /\ att' = [att EXCEPT ![r][n].worker = FALSE]
  /\ UNCHANGED <<ledgerVars, mode, step, act, job, part>>

(* poll_request and the reconciliation of its outcome: each releases the   *)
(* run id again.  The outcome is lost and the command ends with an error   *)
(* when its event cannot be written; so it does, later, for a process that *)
(* was overtaken.                                                          *)
Poll(p, r) ==
  /\ act[p][r] = "managed" /\ p \in live
  /\ mode[p] \in {"driving", "overtaken"}
  /\ LET a == att[r][job[p][r]]
     IN  /\ a.thread \in {"ended", "broken"}
         /\ \/ /\ mode[p] = "driving"
               /\ \E s \in Outcomes(IF a.thread = "broken" THEN "failed" ELSE a.status) :
                    part' = [part EXCEPT ![r] = s]
               /\ UNCHANGED mode
            \/ mode' = [mode EXCEPT ![p] = "left"] /\ UNCHANGED part
  /\ Release(r)
  /\ job' = [job EXCEPT ![p][r] = 0]
  /\ act' = [act EXCEPT ![p][r] = "none"]
  /\ UNCHANGED <<step, att>>

(* A recovered worker is polled by inspecting its record.                  *)
PollRecovered(p, r) ==
  /\ act[p][r] = "recovered" /\ p \in live /\ mode[p] = "driving"
  /\ ~IsLive(r)
  /\ \E s \in Outcomes(Found(r)) : part' = [part EXCEPT ![r] = s]
  /\ Release(r)
  /\ act' = [act EXCEPT ![p][r] = "none"]
  /\ UNCHANGED <<mode, step, job, att>>

-----------------------------------------------------------------------------
(* The plan was interrupted: the driver's next tick cancels what is active *)
(* and gives the plan up.                                                  *)
SeesInterrupt(p) ==
  /\ mode[p] = "driving" /\ p \in live
  /\ \A r \in Parts : step[p][r] = "idle"
  /\ mode' = [mode EXCEPT ![p] = "stopping"]
  /\ UNCHANGED <<ledgerVars, step, act, job, att, part>>

(* Wrong on purpose: cancelling releases at once.                          *)
CancelManagedReleasing(p, r) ==
  /\ mode[p] = "stopping" /\ p \in live /\ act[p][r] = "managed"
  /\ att' = [att EXCEPT ![r][job[p][r]].status = IF @ = "running" THEN "cancelled" ELSE @]
  /\ Release(r)
  /\ act' = [act EXCEPT ![p][r] = "none"]
  /\ UNCHANGED <<mode, step, job, part>>

(* cancel_request marks the record, and release_after_cancel leaves the    *)
(* lease to the thread.                                                    *)
CancelManaged(p, r) ==
  /\ mode[p] = "stopping" /\ p \in live /\ act[p][r] = "managed"
  /\ att' = [att EXCEPT ![r][job[p][r]].status = IF @ = "running" THEN "cancelled" ELSE @]
  /\ act' = [act EXCEPT ![p][r] = "none"]
  /\ UNCHANGED <<ledgerVars, mode, step, job, part>>

(* A recovered worker is told to stop, and its supervisor before it.  Both *)
(* are gone when this succeeds, and the lease is released.                 *)
CancelRecovered(p, r) ==
  /\ mode[p] = "stopping" /\ p \in live /\ act[p][r] = "recovered"
  /\ Last(r).host \notin live
  /\ att' = [att EXCEPT ![r][Len(att[r])].status = IF @ = "running" THEN "cancelled" ELSE @,
                        ![r][Len(att[r])].worker = FALSE]
  /\ Release(r)
  /\ act' = [act EXCEPT ![p][r] = "none"]
  /\ UNCHANGED <<mode, step, job, part>>

Leave(p) ==
  /\ mode[p] = "stopping" /\ p \in live
  /\ \A r \in Parts : act[p][r] = "none"
  /\ mode' = [mode EXCEPT ![p] = "left"]
  /\ UNCHANGED <<ledgerVars, step, act, job, att, part>>

(* Another process takes the plan over; to be a driver that was overtaken  *)
(* in the middle of a dispatch is left to PlanSupervision.                 *)
TakeOver(q) ==
  /\ mode[q] = "out" /\ q \in live
  /\ \A p \in Procs, r \in Parts : step[p][r] = "idle"
  /\ Orderly => \A p \in Procs : mode[p] = "out" \/ p \notin live
  /\ mode' = [p \in Procs |->
       IF p = q THEN "rehydrating" ELSE IF mode[p] = "driving" THEN "overtaken" ELSE mode[p]]
  /\ UNCHANGED <<ledgerVars, step, act, job, att, part>>

ToRehydrate(q, r) == mode[q] = "rehydrating" /\ q \in live /\ part[r] = "running" /\ act[q][r] = "none"

(* admit_recovered: a run that lives is admitted again.                    *)
Adopt(q, r) ==
  /\ ToRehydrate(q, r) /\ IsLive(r)
  /\ EnsureReserved(q, r)
  /\ act' = [act EXCEPT ![q][r] = "recovered"]
  /\ UNCHANGED <<mode, step, job, att, part>>

Settle(q, r) ==
  /\ ToRehydrate(q, r) /\ ~IsLive(r)
  /\ \E s \in Outcomes(Found(r)) : part' = [part EXCEPT ![r] = s]
  /\ Release(r)
  /\ UNCHANGED <<mode, step, act, job, att>>

Rehydrated(q) ==
  /\ mode[q] = "rehydrating" /\ q \in live
  /\ \A r \in Parts : part[r] = "running" => act[q][r] = "recovered"
  /\ mode' = [mode EXCEPT ![q] = "driving"]
  /\ UNCHANGED <<ledgerVars, step, act, job, att, part>>

(* A process ends, its threads with it; the workers go on.                 *)
Exit(p) ==
  /\ mode[p] # "out"
  /\ Ledger!Exit(p)
  /\ att' = [r \in Parts |-> [n \in DOMAIN att[r] |->
       IF att[r][n].host = p THEN [att[r][n] EXCEPT !.thread = "ended"] ELSE att[r][n]]]
  /\ act' = [act EXCEPT ![p] = [r \in Parts |-> "none"]]
  /\ step' = [step EXCEPT ![p] = [r \in Parts |-> "idle"]]
  /\ job' = [job EXCEPT ![p] = [r \in Parts |-> 0]]
  /\ UNCHANGED <<mode, part>>

Tick == Ledger!Tick /\ UNCHANGED <<mode, step, act, job, att, part>>

-----------------------------------------------------------------------------
Dispatching(p, r) ==
  Admit(p, r) \/ Ensure(p, r) \/ Bind(p, r) \/ GiveUp(p, r) \/ Spawn(p, r) \/ SpawnRefused(p, r)

Following(p, r) ==
  Poll(p, r) \/ PollRecovered(p, r) \/ CancelManaged(p, r) \/ CancelRecovered(p, r)

Recovering(p, r) == Adopt(p, r) \/ Settle(p, r)

Working(r, n) == WorkerEnds(r, n) \/ ThreadCloses(r, n) \/ OrphanEnds(r, n)

Next ==
  \/ \E p \in Procs, r \in Parts : Dispatching(p, r) \/ Following(p, r) \/ Recovering(p, r)
  \/ \E r \in Parts : \E n \in DOMAIN att[r] : Working(r, n)
  \/ \E p \in Procs : SeesInterrupt(p) \/ Leave(p) \/ TakeOver(p) \/ Rehydrated(p) \/ Exit(p)
  \/ Tick

Spec == Init /\ [][Next]_vars

-----------------------------------------------------------------------------
(* A worker keeps a lease from before it starts until its thread has seen  *)
(* it end, also when its run is cancelled meanwhile, whoever polls,        *)
(* releases or recovers; and one that was adopted from a dead supervisor   *)
(* has a lease again as long as the one who adopted it follows it.  Only a *)
(* launch the plan record refused is excluded (Coordinator has it).        *)
HeldUntilEnd ==
  \A r \in Parts :
    \/ leases[r] # None
    \/ /\ \A n \in DOMAIN att[r] :
            att[r][n].thread = "working" => att[r][n].status = "withdrawn"
       /\ IsLive(r) => \A p \in live : act[p][r] # "recovered"

(* A process that goes on has a lease only for what it is dispatching or   *)
(* follows, or for a worker that is winding down: no failure on the way    *)
(* leaks one.                                                              *)
NothingLeaked ==
  \A r \in Parts : (leases[r] # None /\ leases[r].owner \in live) =>
    LET p == leases[r].owner
    IN  \/ mode[p] \in {"stopping", "left"}
        \/ step[p][r] # "idle" \/ act[p][r] # "none"
        \/ \E n \in DOMAIN att[r] : att[r][n].host = p /\ att[r][n].thread \in {"working", "closing"}

(* Every step of the plan's processes is a transaction of the ledger, or   *)
(* none: what is shown of DispatchLedger holds here.                       *)
ImplementsLedger == Ledger!Spec
=============================================================================
