---------------------------- MODULE PlanSupervision ----------------------------
(***************************************************************************)
(* The durable record of one plan and the processes that supervise it      *)
(* (scheduler/persistence, scheduler/service): each start, attach, tick or *)
(* recover command is a process of its own with a copy of the part states, *)
(* the supervisor lease in the record says whose copy counts, and the      *)
(* interrupt command goes past the lease.  Workers outlive the process     *)
(* that started them.                                                      *)
(*                                                                         *)
(* Every write of the record is a transaction under the plan's file lock;  *)
(* save and save_owned also compare revisions, so that what a process      *)
(* loads and saves in one step is one action here: the loser of a          *)
(* comparison ends with an error, which is Exit.  The status running       *)
(* stands for pending too, and interrupted for killed.  Part states are those *)
(* of Coordinator with conflict and blocked counted as failed, and any     *)
(* pending part may be the next one that is ready.                         *)
(***************************************************************************)
EXTENDS Integers, FiniteSets

CONSTANTS
  Procs,          \* command processes; each has its own supervisor owner id
  Parts,
  None,
  Timely,         \* no process is slower than the lease it works under
  MaxInterrupts   \* bound of the model: interrupt commands

PartState == {"pending", "running", "done", "failed"}
Run == {"none", "live", "cancelled", "completed", "failed", "lost"}
Pc == {"new", "loaded", "acquire", "ready", "recovering", "rehydrate", "persist",
       "persistLast", "idle", "dispatch", "poll", "ending", "releasing", "gone"}
Record == [status : {"running", "done", "failed", "interrupted"},
           part : [Parts -> PartState], owner : Procs \cup {None}, live : BOOLEAN]

ASSUME SupervisionAssumption ==
  /\ IsFiniteSet(Procs) /\ None \notin Procs /\ None \notin Parts
  /\ Timely \in BOOLEAN /\ MaxInterrupts \in Nat

VARIABLES
  rec,          \* the plan record; live: its lease is not released or expired
  pc, mem,      \* where each process is, and the part states it holds
  act,          \* the parts each process has in its coordinator's active table
  launching,    \* the part whose worker a process has started and not recorded
  run,          \* the latest provider run of each part, as recovery inspects it
  host,         \* the process that started it
  unrecorded,   \* parts whose latest run never got into the plan record
  op,           \* where the interrupt command is
  interrupts

vars == <<rec, pc, mem, act, launching, run, host, unrecorded, op, interrupts>>

(* The record, the copies of the processes and the runs of the parts; a    *)
(* process drives only parts it holds as running.                          *)
TypeOK ==
  /\ rec \in Record
  /\ pc \in [Procs -> Pc] /\ mem \in [Procs -> [Parts -> PartState]]
  /\ act \in [Procs -> SUBSET Parts]
  /\ \A s \in Procs : \A p \in act[s] : mem[s][p] = "running"
  /\ launching \in [Procs -> Parts \cup {None}]
  /\ run \in [Parts -> Run] /\ host \in [Parts -> Procs \cup {None}]
  /\ unrecorded \in SUBSET Parts
  /\ op \in {"none", "loaded", "marked"} /\ interrupts \in Nat

-----------------------------------------------------------------------------
Running(part) == {p \in Parts : part[p] = "running"}

Finished(part) == \A p \in Parts : part[p] \in {"done", "failed"}

(* acquire_supervisor refuses only a live lease of another owner.          *)
LeaseFree(s) == rec.live => rec.owner = s

Owned(s) == [rec EXCEPT !.owner = s, !.live = TRUE]

(* save_owned: the caller's lease must be live.                            *)
Owns(s) == rec.live /\ rec.owner = s

(* One command starts the plan: its record is there, everything is         *)
(* pending, and the lease is not taken before the first tick.              *)
Init ==
  /\ rec = [status |-> "running", part |-> [p \in Parts |-> "pending"],
            owner |-> None, live |-> FALSE]
  /\ \E starter \in Procs :
       pc = [s \in Procs |-> IF s = starter THEN "ready" ELSE "new"]
  /\ mem = [s \in Procs |-> [p \in Parts |-> "pending"]]
  /\ act = [s \in Procs |-> {}] /\ launching = [s \in Procs |-> None]
  /\ run = [p \in Parts |-> "none"] /\ host = [p \in Parts |-> None]
  /\ unrecorded = {} /\ op = "none" /\ interrupts = 0

-----------------------------------------------------------------------------
Goes(s, to) == pc' = [pc EXCEPT ![s] = to]

runVars == <<run, host, unrecorded>>
opVars == <<op, interrupts>>

(* attach: the coordinator is built from the record before the lease is    *)
(* acquired.                                                               *)
AttachLoad(s) ==
  /\ pc[s] = "new" /\ rec.status # "done"
  /\ mem' = [mem EXCEPT ![s] = rec.part]
  /\ Goes(s, "loaded")
  /\ UNCHANGED <<rec, act, launching, runVars, opVars>>

(* The record is read again: a plan that is not running is attached        *)
(* without the lease and without looking at its workers.                   *)
AttachGate(s) ==
  /\ pc[s] = "loaded"
  /\ Goes(s, IF rec.status = "running" THEN "acquire" ELSE "ready")
  /\ UNCHANGED <<rec, mem, act, launching, runVars, opVars>>

AttachAcquire(s) ==
  /\ pc[s] = "acquire" /\ LeaseFree(s)
  /\ rec' = Owned(s)
  /\ Goes(s, "rehydrate")
  /\ UNCHANGED <<mem, act, launching, runVars, opVars>>

(* The recover command, on an attached process: the lease is taken first   *)
(* and stays when the plan turns out not to be interrupted.                *)
Recover(s) ==
  /\ pc[s] = "ready" /\ LeaseFree(s)
  /\ IF rec.status = "interrupted"
     THEN rec' = [Owned(s) EXCEPT !.status = "running"] /\ Goes(s, "recovering")
     ELSE rec' = Owned(s) /\ Goes(s, "gone")
  /\ UNCHANGED <<mem, act, launching, runVars, opVars>>

(* Wrong on purpose: a worker without its own process counts as ended.     *)
InspectedOrphaned(p) ==
  IF run[p] = "cancelled" \/ (run[p] = "live" /\ pc[host[p]] = "gone") THEN "lost" ELSE run[p]

(* What recovery inspects of a run: a cancelled one counts as ended, dead  *)
(* or not.                                                                 *)
Inspected(p) == IF run[p] = "cancelled" THEN "lost" ELSE run[p]

(* Wrong on purpose: a worker that is nowhere to be found has done its part. *)
AfterOptimistic(p) ==
  CASE Inspected(p) \in {"completed", "lost"} -> "done"
    [] Inspected(p) = "failed" -> "failed"
    [] Inspected(p) = "none" -> "pending"
    [] Inspected(p) = "live" -> "running"

(* reconcile, for a run that has ended.                                    *)
After(p) ==
  CASE Inspected(p) = "completed" -> "done"
    [] Inspected(p) = "failed" -> "failed"
    [] Inspected(p) \in {"lost", "none"} -> "pending"
    [] Inspected(p) = "live" -> "running"

(* apply_transition and register_recovered: what the coordinator must hold *)
(* of a part for the inspection to apply.                                  *)
Applies(p, held) ==
  CASE Inspected(p) \in {"completed", "live"} -> held = "running"
    [] Inspected(p) = "failed" -> held \in {"pending", "running"}
    [] Inspected(p) \in {"lost", "none"} -> held \in {"failed", "running"}

(* rehydrate_running_parts, with the coordinator's copy m: the parts that  *)
(* run in the record are inspected, the copy is corrected and saved, with  *)
(* no look at the lease.                                                   *)
RehydrateFrom(s, m) ==
  LET found == Running(rec.part)
      fixed == [p \in Parts |-> IF p \in found THEN After(p) ELSE m[p]]
  IN  /\ \A p \in found : Applies(p, m[p])
      /\ mem' = [mem EXCEPT ![s] = fixed]
      /\ act' = [act EXCEPT ![s] = {p \in found : Inspected(p) = "live"}]
      /\ rec' = [rec EXCEPT !.part = fixed]
  /\ UNCHANGED <<launching, runVars, opVars>>

AttachRehydrate(s) ==
  pc[s] = "rehydrate" /\ RehydrateFrom(s, mem[s]) /\ Goes(s, "persist")

(* recover takes the part states from the record.                          *)
RecoverRehydrate(s) ==
  pc[s] = "recovering" /\ RehydrateFrom(s, rec.part) /\ Goes(s, "persistLast")

(* persist_state, up to the save; the recover command is over then.        *)
Persist(s) ==
  /\ pc[s] \in {"persist", "persistLast"}
  /\ rec.status = "running" \/ Finished(mem[s])
  /\ Owns(s)
  /\ rec' = [rec EXCEPT !.part = mem[s]]
  /\ Goes(s, IF Finished(mem[s]) /\ rec.status = "running" THEN "ending"
             ELSE IF pc[s] = "persist" THEN "idle" ELSE "gone")
  /\ UNCHANGED <<mem, act, launching, runVars, opVars>>

(* The terminal transition asks for no lease and looks at no status; only  *)
(* done looks at the parts of the record.                                  *)
End(s) ==
  /\ pc[s] = "ending"
  /\ IF \A p \in Parts : mem[s][p] = "done"
     THEN /\ \A p \in Parts : rec.part[p] = "done"
          /\ rec' = [rec EXCEPT !.status = "done"]
     ELSE rec' = [rec EXCEPT !.status = "failed"]
  /\ Goes(s, "releasing")
  /\ UNCHANGED <<mem, act, launching, runVars, opVars>>

Release(s) ==
  /\ pc[s] = "releasing"
  /\ rec' = IF rec.owner = s THEN [rec EXCEPT !.live = FALSE] ELSE rec
  /\ Goes(s, "gone")
  /\ UNCHANGED <<mem, act, launching, runVars, opVars>>

-----------------------------------------------------------------------------
(* tick, on a plan that is not interrupted: acquire or refresh the lease.  *)
TickBegin(s) ==
  /\ pc[s] \in {"ready", "idle"} /\ rec.status # "interrupted" /\ LeaseFree(s)
  /\ rec' = Owned(s)
  /\ Goes(s, "dispatch")
  /\ UNCHANGED <<mem, act, launching, runVars, opVars>>

(* tick, on an interrupted plan: cancel_active, then the lease is given    *)
(* back, and the process ends.  Cancelling its own worker only marks the   *)
(* run; a worker taken over is told to stop, and if it has not stopped at  *)
(* once the cancellation fails and the lease stays.                        *)
TickInterrupted(s) ==
  /\ pc[s] \in {"ready", "idle"} /\ rec.status = "interrupted"
  /\ LET alive == {p \in act[s] : run[p] = "live"}
         own   == {p \in alive : host[p] = s}
     IN  \E stubborn \in SUBSET (alive \ own) :
           /\ run' = [p \in Parts |-> IF p \in own THEN "cancelled"
                                      ELSE IF p \in alive \ stubborn THEN "lost" ELSE run[p]]
           /\ rec' = IF stubborn = {} /\ rec.owner = s THEN [rec EXCEPT !.live = FALSE] ELSE rec
  /\ Goes(s, "gone")
  /\ act' = [act EXCEPT ![s] = {}]
  /\ UNCHANGED <<mem, launching, host, unrecorded, opVars>>

(* The runner starts a worker; the record does not know of it yet.         *)
Dispatch(s, p) ==
  /\ pc[s] = "dispatch" /\ launching[s] = None /\ mem[s][p] = "pending"
  /\ launching' = [launching EXCEPT ![s] = p]
  /\ run' = [run EXCEPT ![p] = "live"] /\ host' = [host EXCEPT ![p] = s]
  /\ unrecorded' = unrecorded \ {p}
  /\ UNCHANGED <<rec, pc, mem, act, opVars>>

(* part_running, part_failed: no lease, but a plan that runs and a part    *)
(* that is not terminal.                                                   *)
TakesPart(p) == rec.status = "running" /\ rec.part[p] \in {"pending", "running"}

(* Wrong on purpose: the launch reaches the record with the save that ends *)
(* the tick.                                                               *)
RecordLaunchLater(s) ==
  /\ launching[s] # None /\ TakesPart(launching[s])
  /\ LET p == launching[s]
     IN  /\ mem' = [mem EXCEPT ![s][p] = "running"]
         /\ act' = [act EXCEPT ![s] = @ \cup {p}]
  /\ launching' = [launching EXCEPT ![s] = None]
  /\ UNCHANGED <<rec, pc, runVars, opVars>>

RecordLaunch(s) ==
  /\ launching[s] # None /\ TakesPart(launching[s])
  /\ LET p == launching[s]
     IN  /\ rec' = [rec EXCEPT !.part[p] = "running"]
         /\ mem' = [mem EXCEPT ![s][p] = "running"]
         /\ act' = [act EXCEPT ![s] = @ \cup {p}]
  /\ launching' = [launching EXCEPT ![s] = None]
  /\ UNCHANGED <<pc, runVars, opVars>>

(* The record refuses the launch, or the event after it cannot be written: *)
(* the run is marked cancelled, and the part has failed, in the record only *)
(* if that write goes through.                                             *)
LaunchRefused(s) ==
  /\ launching[s] # None
  /\ LET p == launching[s]
     IN  /\ \/ UNCHANGED rec /\ unrecorded' = unrecorded \cup {p}
            \/ /\ TakesPart(p) /\ rec' = [rec EXCEPT !.part[p] = "failed"]
               /\ unrecorded' = unrecorded \cup {p}
            \/ /\ TakesPart(p) /\ rec' = [rec EXCEPT !.part[p] = "running"]
               /\ UNCHANGED unrecorded
         /\ mem' = [mem EXCEPT ![s][p] = "failed"]
         /\ run' = [run EXCEPT ![p] = IF @ = "live" THEN "cancelled" ELSE @]
  /\ launching' = [launching EXCEPT ![s] = None]
  /\ UNCHANGED <<pc, act, host, opVars>>

(* No worker for a pending part: it cannot be prepared, its dependency     *)
(* failed, or the runner refuses for good, which the record is told.       *)
PartFails(s, p) ==
  /\ pc[s] = "dispatch" /\ launching[s] = None /\ mem[s][p] = "pending"
  /\ mem' = [mem EXCEPT ![s][p] = "failed"]
  /\ \/ UNCHANGED rec
     \/ TakesPart(p) /\ rec' = [rec EXCEPT !.part[p] = "failed"]
  /\ UNCHANGED <<pc, act, launching, runVars, opVars>>

StopDispatch(s) ==
  /\ pc[s] = "dispatch" /\ launching[s] = None
  /\ Goes(s, "poll")
  /\ UNCHANGED <<rec, mem, act, launching, runVars, opVars>>

(* The own worker has ended when its thread has, the other one when the    *)
(* inspection says so.                                                     *)
HasEnded(s, p) == IF host[p] = s THEN run[p] \notin {"live", "cancelled"}
                                 ELSE Inspected(p) # "live"

(* reconcile_completed: parts to be tried again fail once their attempts   *)
(* are used up.                                                            *)
Poll(s) ==
  /\ pc[s] = "poll"
  /\ LET ended == {p \in act[s] : HasEnded(s, p)}
     IN  /\ \E last \in SUBSET {p \in ended : After(p) = "pending"} :
              mem' = [mem EXCEPT ![s] = [p \in Parts |->
                        IF p \in last THEN "failed"
                        ELSE IF p \in ended THEN After(p) ELSE mem[s][p]]]
         /\ act' = [act EXCEPT ![s] = @ \ ended]
  /\ Goes(s, "persist")
  /\ UNCHANGED <<rec, launching, runVars, opVars>>

(* A process ends: a command that is over, an error, the signal of the     *)
(* interrupt command, a crash.  Its workers go on, its lease stays.        *)
Exit(s) ==
  /\ pc[s] \notin {"new", "gone"}
  /\ Goes(s, "gone")
  /\ unrecorded' = IF launching[s] = None THEN unrecorded ELSE unrecorded \cup {launching[s]}
  /\ act' = [act EXCEPT ![s] = {}] /\ launching' = [launching EXCEPT ![s] = None]
  /\ UNCHANGED <<rec, mem, run, host, opVars>>

-----------------------------------------------------------------------------
(* A worker ends.  Without the thread of the process that started it       *)
(* nobody writes down how.                                                 *)
RunEnds(p) ==
  /\ run[p] \in {"live", "cancelled"}
  /\ run' = [run EXCEPT ![p] = "lost"]
     \/ /\ run[p] = "live" /\ pc[host[p]] # "gone"
        /\ \E how \in {"completed", "failed"} : run' = [run EXCEPT ![p] = how]
  /\ UNCHANGED <<rec, pc, mem, act, launching, host, unrecorded, opVars>>

(* The lease runs out.  Timely: its owner is dead, and whoever reads the   *)
(* record before that acts on it before the lease runs out.                *)
LeaseExpires ==
  /\ rec.live
  /\ Timely => /\ pc[rec.owner] = "gone"
               /\ \A s \in Procs : pc[s] \notin {"loaded", "acquire", "ready"}
  /\ rec' = [rec EXCEPT !.live = FALSE]
  /\ UNCHANGED <<pc, mem, act, launching, runVars, opVars>>

(* The interrupt command reads the status, marks a plan that was not       *)
(* terminal then, and stops the workers the record knows to run; those     *)
(* that do not stop at once are reported.  The signal it sends to the      *)
(* owner of the lease is an Exit, or is caught.                            *)
InterruptLoad ==
  /\ op = "none" /\ interrupts < MaxInterrupts
  /\ interrupts' = interrupts + 1
  /\ op' = IF rec.status = "running" THEN "loaded" ELSE "marked"
  /\ UNCHANGED <<rec, pc, mem, act, launching, runVars>>

InterruptMark ==
  /\ op = "loaded"
  /\ rec' = [rec EXCEPT !.status = "interrupted"]
  /\ op' = "marked"
  /\ UNCHANGED <<pc, mem, act, launching, runVars, interrupts>>

InterruptCancel ==
  /\ op = "marked"
  /\ \E stopped \in SUBSET {p \in Running(rec.part) : run[p] = "live"} :
       run' = [p \in Parts |-> IF p \in stopped THEN "lost" ELSE run[p]]
  /\ op' = "none"
  /\ UNCHANGED <<rec, pc, mem, act, launching, host, unrecorded, interrupts>>

Next ==
  \/ \E s \in Procs :
       \/ AttachLoad(s) \/ AttachGate(s) \/ AttachAcquire(s) \/ AttachRehydrate(s)
       \/ Recover(s) \/ RecoverRehydrate(s)
       \/ Persist(s) \/ End(s) \/ Release(s)
       \/ TickBegin(s) \/ TickInterrupted(s) \/ StopDispatch(s) \/ Poll(s)
       \/ RecordLaunch(s) \/ LaunchRefused(s) \/ Exit(s)
       \/ \E p \in Parts : Dispatch(s, p) \/ PartFails(s, p)
  \/ \E p \in Parts : RunEnds(p)
  \/ LeaseExpires
  \/ InterruptLoad \/ InterruptMark \/ InterruptCancel

Spec == Init /\ [][Next]_vars

-----------------------------------------------------------------------------
Drivers == {s \in Procs : pc[s] \notin {"new", "loaded", "acquire", "ready", "gone"}}

(* At most one process works under the lease of the plan, from acquiring   *)
(* it to giving it back, whoever crashes, attaches, recovers or            *)
(* interrupts.                                                             *)
OneDriver == Cardinality(Drivers) <= 1

(* A running worker is never forgotten: the record says that its part      *)
(* runs, or it is being launched, or its launch never reached the record.  *)
WorkerAccounted ==
  \A p \in Parts : run[p] = "live" =>
    \/ rec.part[p] = "running"
    \/ p \in unrecorded
    \/ \E s \in Procs : launching[s] = p

Starts(p) == \E s \in Procs : launching[s] # p /\ launching'[s] = p

(* No second worker is started for a part while the worker the record      *)
(* knows of runs and has not been cancelled.                               *)
NoSecondWorker ==
  [][\A p \in Parts : Starts(p) /\ p \notin unrecorded => run[p] # "live"]_vars

(* A part is done in the record only when its latest run completed, or a   *)
(* process with an old copy is starting or has started it once more        *)
(* without the record's consent.                                           *)
DoneIsBacked ==
  \A p \in Parts : rec.part[p] = "done" =>
    \/ run[p] = "completed"
    \/ p \in unrecorded
    \/ \E s \in Procs : launching[s] = p

-----------------------------------------------------------------------------
(* The code does not keep the following in every setting, and no           *)
(* configuration checks it: README, "Known disagreements".                 *)

(* A worker that the record knew of and that still runs, cancelled or not, *)
(* is never joined by another one (interrupted running parts are           *)
(* "inspected without duplicate dispatch").                                *)
NoDuplicateDispatch ==
  [][\A p \in Parts : Starts(p) /\ p \notin unrecorded =>
       run[p] \notin {"live", "cancelled"}]_vars

(* A plan is done only when all its parts are.                             *)
DoneMeansDone == rec.status = "done" => \A p \in Parts : rec.part[p] = "done"
=============================================================================
