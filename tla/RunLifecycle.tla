---------------------------- MODULE RunLifecycle ----------------------------
(***************************************************************************)
(* The record of one run and those who write it: the supervisors that run  *)
(* its attempts (runs/coordinator, runs/execution, runs/lifecycle) and the *)
(* commands kill, resume, retry, ack and clean.  Every access to the       *)
(* record is one step under its lock; between two steps anything may have  *)
(* happened to it.  Accounts are left to AccountRotation: here a           *)
(* supervisor whose attempt hit a limit moves on or stops.                 *)
(*                                                                         *)
(* A process is its supervisor, and stands for the worker it runs too: a   *)
(* supervisor has one worker at a time.                                    *)
(***************************************************************************)
EXTENDS Integers, FiniteSets

CONSTANTS
  Procs,        \* processes that may supervise the run
  Launcher,     \* the one that created it; the others resume or retry it
  None, Gone,
  PoolSize,     \* accounts of the fleet: no failover from this attempt on
  Kills,        \* bound of the model: kill commands
  Crashes,      \* bound of the model: crashes of supervisors
  Faulty,       \* processes whose access to the record may fail
  Patient,      \* resume, retry, ack and clean wait for supervisors to leave
                \* and for each other
  Obedient,     \* a worker that is sent SIGTERM is gone before the kill goes on
  SafeSpawn     \* no crash between the start of a worker and its recording

VARIABLES
  rec,      \* the record on disk
  sup,      \* the supervisors: how far, their copy of the record, a pending signal
  worker,   \* whose worker runs
  kill,     \* the kill command under way
  janitor,  \* the ack or clean command under way
  crashed   \* the number of crashes

vars == <<rec, sup, worker, kill, janitor, crashed>>

(* overdue stands for timeout and stalled, which differ in nothing else.   *)
Terminal == {"done", "limit", "error", "aborted", "overdue"}
Record ==
  [attempt : Nat \ {0}, status : {"running"} \cup Terminal, killed : BOOLEAN,
   ended : BOOLEAN, ack : {"unset", "no", "yes"}, resumed : BOOLEAN,
   sup : Procs \cup {None}, worker : Procs \cup {None}]

ASSUME RunAssumption ==
  /\ IsFiniteSet(Procs) /\ Launcher \in Procs /\ None \notin Procs /\ Gone \notin Record
  /\ PoolSize \in Nat /\ Kills \in Nat /\ Crashes \in Nat /\ Faulty \subseteq Procs
  /\ {Patient, Obedient, SafeSpawn} \subseteq BOOLEAN

Stages ==
  {"unused", "top", "starting", "started", "launching", "spawned", "running",
   "ended", "checked", "planning", "continuing", "moving", "closing",
   "reporting", "failed", "left", "dead"}

(* A running worker belongs to a supervisor that got as far as its start.  *)
TypeOK ==
  /\ rec \in Record \cup {Gone}
  /\ sup \in [Procs -> [at : Stages, run : Record, status : {"running"} \cup Terminal,
                        signal : BOOLEAN]]
  /\ worker \subseteq Procs
  /\ \A p \in worker : sup[p].at \in {"spawned", "running", "dead"}
  /\ kill \in [at : {"idle", "marked", "sent"}, pid : Procs \cup {None},
               kind : {"supervisor", "worker"}, left : 0 .. Kills]
  /\ janitor \in {"idle", "ack", "clean"}
  /\ crashed \in 0 .. Crashes

-----------------------------------------------------------------------------
Alive(p) == p # None /\ sup[p].at \notin {"unused", "left", "dead"}

(* effective_status: a record that says running is believed as long as its *)
(* supervisor lives; without one the run is orphaned or interrupted.       *)
Effective(r) ==
  IF r.status # "running" THEN r.status
  ELSE IF Alive(r.sup) THEN "running"
  ELSE IF r.worker \in worker THEN "orphaned" ELSE "interrupted"

Interrupted(r) == r.killed \/ r.status = "aborted"

(* Wrong on purpose: the copy decides about the status.                    *)
SavedOver(run) ==
  IF rec.attempt > run.attempt THEN rec ELSE [run EXCEPT !.killed = @ \/ rec.killed]

(* save_preserving_control_markers: what a supervisor's copy makes of the  *)
(* record, which a later attempt keeps for itself.                         *)
Saved(run) ==
  IF rec.attempt > run.attempt THEN rec
  ELSE [run EXCEPT !.killed = @ \/ rec.killed,
                   !.status = IF rec.status = "aborted" THEN "aborted" ELSE @]

(* refresh_control_markers, when the record says that the run is to end.   *)
Marked(run) ==
  LET marked == [run EXCEPT !.killed = @ \/ rec.killed]
  IN  IF rec.status # "aborted" THEN marked
      ELSE [marked EXCEPT !.status = "aborted", !.ended = @ \/ rec.ended,
                          !.ack = IF rec.ack = "unset" THEN @ ELSE rec.ack]

Go(p, at) == sup' = [sup EXCEPT ![p].at = at]
Keep(p, at, run) == sup' = [sup EXCEPT ![p].at = at, ![p].run = run]
Others == UNCHANGED <<kill, janitor, crashed>>

(* A supervisor that needs the record and does not find it, or cannot read *)
(* or write it, gives up.                                                  *)
StoreFails(p) ==
  /\ rec = Gone \/ p \in Faulty
  /\ sup[p].at \in {"top", "starting", "started", "ended", "checked", "planning",
                    "continuing", "moving", "closing", "reporting"}
  /\ Go(p, "failed")
  /\ UNCHANGED <<rec, worker>> /\ Others

(* A look at the record before the supervisor goes on: next is what it     *)
(* would do, if the run is not to end.                                     *)
Checks(p, next) ==
  /\ rec # Gone
  /\ \/ /\ Interrupted(rec)
        /\ sup' = [sup EXCEPT ![p].at = "closing", ![p].run = Marked(@),
                              ![p].status = "aborted"]
     \/ /\ ~Interrupted(rec) /\ Go(p, next)
  /\ UNCHANGED <<rec, worker>> /\ Others

Top(p) == sup[p].at = "top" /\ Checks(p, "starting")
Started(p) == sup[p].at = "started" /\ Checks(p, "launching")

(* mark_attempt_started and save_preserving_kill.                          *)
Start(p) ==
  /\ sup[p].at = "starting" /\ rec # Gone
  /\ rec' = Saved([sup[p].run EXCEPT !.status = "running", !.sup = p,
                                     !.worker = None, !.ended = FALSE])
  /\ Keep(p, "started", rec')
  /\ UNCHANGED worker /\ Others

(* run_monitored: the worker runs before the record knows of it.  An       *)
(* attempt that cannot be prepared ends as an error.                       *)
Spawn(p) ==
  /\ sup[p].at = "launching"
  /\ worker' = worker \cup {p}
  /\ sup' = [sup EXCEPT ![p].at = "spawned", ![p].run.worker = p, ![p].signal = FALSE]
  /\ UNCHANGED rec /\ Others

EndAttempt(p, status) ==
  /\ sup' = [sup EXCEPT ![p].at = "ended", ![p].run.status = status,
                        ![p].status = status]
  /\ worker' = worker \ {p}
  /\ UNCHANGED rec /\ Others

CannotStart(p) ==
  \/ sup[p].at = "launching" /\ EndAttempt(p, "error")
  \/ sup[p].at = "spawned" /\ (rec = Gone \/ p \in Faulty) /\ EndAttempt(p, "error")

RecordSpawn(p) ==
  /\ sup[p].at = "spawned" /\ rec # Gone
  /\ rec' = Saved(sup[p].run)
  /\ Go(p, "running")
  /\ UNCHANGED worker /\ Others

(* Wrong on purpose: the mark of a kill is not looked for.                 *)
SignalOnly(p) == sup[p].signal

(* monitor::wait: a signal or a kill goes before the end of the worker,    *)
(* and both before the time limits.  Quota advice ends a worker like a     *)
(* limit that it reported itself.                                          *)
ToAbort(p) == sup[p].signal \/ (rec # Gone /\ rec.killed)
Watch(p) ==
  /\ sup[p].at = "running"
  /\ \/ ToAbort(p) /\ EndAttempt(p, "aborted")
     \/ ~sup[p].signal /\ (rec = Gone \/ p \in Faulty) /\ EndAttempt(p, "error")
     \/ /\ ~ToAbort(p) /\ rec # Gone /\ p \notin worker
        /\ \E status \in {"done", "error", "aborted", "limit"} : EndAttempt(p, status)
Expire(p) ==
  /\ sup[p].at = "running" /\ ~ToAbort(p) /\ rec # Gone
  /\ \E status \in {"limit", "overdue"} : EndAttempt(p, status)

(* The end of an attempt is saved, unless a later attempt has the record.  *)
SaveEnd(p) ==
  /\ sup[p].at = "ended" /\ rec # Gone
  /\ rec' = Saved(sup[p].run)
  /\ IF rec'.attempt > sup[p].run.attempt
     THEN sup' = [sup EXCEPT ![p].at = IF p = Launcher THEN "left" ELSE "reporting",
                             ![p].run = rec', ![p].status = rec'.status]
     ELSE Keep(p, "checked", rec')
  /\ UNCHANGED worker /\ Others

Checked(p) ==
  /\ sup[p].at = "checked"
  /\ Checks(p, IF sup[p].status = "limit" /\ ~sup[p].run.resumed
               THEN "planning" ELSE "closing")

(* plan_target, the continuation, and the failures of both.                *)
Plan(p) ==
  /\ sup[p].at = "planning"
  /\ \/ Checks(p, "closing")
     \/ sup[p].run.attempt < PoolSize /\ Checks(p, "continuing")
Continue(p) ==
  /\ sup[p].at = "continuing"
  /\ \/ Checks(p, "moving")
     \/ Go(p, "closing") /\ UNCHANGED <<rec, worker>> /\ Others

(* apply_failover and save_preserving_kill.                                *)
Move(p) ==
  /\ sup[p].at = "moving" /\ rec # Gone
  /\ rec' = Saved([sup[p].run EXCEPT !.attempt = @ + 1, !.status = "running",
                                     !.ended = FALSE, !.worker = None])
  /\ Keep(p, "top", rec')
  /\ UNCHANGED worker /\ Others

(* RunFinalizer::finish with merge_control_markers: the copy of the        *)
(* supervisor becomes the record.                                          *)
Final(run, status) ==
  LET mine == [run EXCEPT !.status = status, !.ended = TRUE, !.ack = "no",
                          !.killed = @ \/ rec.killed]
  IN  IF rec.status = "aborted" /\ status # "aborted"
      THEN [mine EXCEPT !.status = "aborted",
                        !.ack = IF rec.ack = "unset" THEN @ ELSE rec.ack]
      ELSE mine
Finish(p) ==
  /\ sup[p].at = "closing" /\ rec # Gone
  /\ rec' = Final(sup[p].run, sup[p].status)
  /\ sup' = [sup EXCEPT ![p].at = IF p = Launcher THEN "left" ELSE "reporting",
                        ![p].run = rec', ![p].status = rec'.status]
  /\ UNCHANGED worker /\ Others

(* The end of resume and retry, which write the record once more.          *)
Report(p) ==
  /\ sup[p].at = "reporting" /\ rec # Gone
  /\ rec' = Saved([sup[p].run EXCEPT !.status = sup[p].status, !.ended = TRUE,
                                     !.worker = None, !.sup = None])
  /\ Go(p, "left")
  /\ UNCHANGED worker /\ Others

(* finish_failed, or what resume and retry do with an error.               *)
Failed(run, p) ==
  IF p # Launcher
  THEN [run EXCEPT !.status = "error", !.ended = TRUE, !.worker = None, !.sup = None]
  ELSE IF Interrupted(run)
  THEN [run EXCEPT !.status = "aborted", !.ended = @ \/ run.status # "aborted"]
  ELSE [run EXCEPT !.status = "error", !.ended = TRUE, !.worker = None]
GiveUp(p) ==
  /\ sup[p].at = "failed"
  /\ \/ rec # Gone /\ rec' = Failed(rec, p)
     \/ (rec = Gone \/ p \in Faulty) /\ UNCHANGED rec
  /\ Go(p, "left")
  /\ UNCHANGED worker /\ Others

Supervise(p) ==
  \/ Top(p) \/ Start(p) \/ Started(p) \/ Spawn(p) \/ CannotStart(p) \/ RecordSpawn(p)
  \/ Watch(p) \/ SaveEnd(p) \/ Checked(p) \/ Plan(p) \/ Continue(p) \/ Move(p)
  \/ Finish(p) \/ Report(p) \/ GiveUp(p)

-----------------------------------------------------------------------------
WorkerExit(p) ==
  /\ p \in worker /\ worker' = worker \ {p}
  /\ UNCHANGED <<rec, sup>> /\ Others

Crash(p) ==
  /\ Alive(p) /\ crashed < Crashes
  /\ SafeSpawn => sup[p].at # "spawned"
  /\ crashed' = crashed + 1 /\ Go(p, "dead")
  /\ UNCHANGED <<rec, worker, kill, janitor>>

(* kill: the record is marked, the worker or else the supervisor is sent   *)
(* SIGTERM, and its process id is taken from the record.  A run that has   *)
(* ended is not marked, though its supervisor may not have left.           *)
Target ==
  IF rec.worker \in worker THEN [pid |-> rec.worker, kind |-> "worker"]
  ELSE [pid |-> IF Alive(rec.sup) THEN rec.sup ELSE None, kind |-> "supervisor"]
(* Wrong on purpose: a run that has ended is marked too.                   *)
KillMarkAny ==
  /\ kill.at = "idle" /\ kill.left > 0 /\ rec # Gone
  /\ rec' = [rec EXCEPT !.killed = TRUE, !.status = "aborted", !.ended = TRUE, !.ack = "no"]
  /\ kill' = [at |-> IF Target.pid = None THEN "idle" ELSE "marked", pid |-> Target.pid,
              kind |-> Target.kind, left |-> kill.left - 1]
  /\ UNCHANGED <<sup, worker, janitor, crashed>>

KillMark ==
  /\ kill.at = "idle" /\ kill.left > 0 /\ rec # Gone
  /\ rec.status \in Terminal => Target.pid # None
  /\ rec' = IF rec.status \in Terminal THEN rec
            ELSE [rec EXCEPT !.killed = TRUE, !.status = "aborted",
                             !.ended = TRUE, !.ack = "no"]
  /\ kill' = [at |-> IF Target.pid = None THEN "idle" ELSE "marked", pid |-> Target.pid,
              kind |-> Target.kind, left |-> kill.left - 1]
  /\ UNCHANGED <<sup, worker, janitor, crashed>>

(* A supervisor catches the signal while its worker runs and dies of it    *)
(* otherwise; one that does not lead a process group never gets it.        *)
KillSend ==
  /\ kill.at = "marked" /\ kill' = [kill EXCEPT !.at = "sent"]
  /\ \/ /\ kill.kind = "worker" /\ UNCHANGED sup
        /\ \/ worker' = worker \ {kill.pid}
           \/ ~Obedient /\ UNCHANGED worker
     \/ /\ kill.kind = "supervisor" /\ UNCHANGED worker
        /\ \/ sup' = [sup EXCEPT ![kill.pid].signal = TRUE]
           \/ sup[kill.pid].at \notin {"spawned", "running"} /\ Go(kill.pid, "dead")
           \/ UNCHANGED sup
  /\ UNCHANGED <<rec, janitor, crashed>>

KillClear ==
  /\ kill.at = "sent" /\ kill' = [kill EXCEPT !.at = "idle", !.pid = None]
  /\ rec' = IF rec = Gone THEN Gone
            ELSE [rec EXCEPT
                    !.sup = IF kill.kind = "supervisor" /\ @ = kill.pid THEN None ELSE @,
                    !.worker = IF kill.kind = "worker" /\ @ = kill.pid THEN None ELSE @]
  /\ UNCHANGED <<sup, worker, janitor, crashed>>

(* resume and retry, native tells whether the provider's session goes on.  *)
MayWrite == Patient => janitor = "idle" /\ \A p \in Procs : ~Alive(p)
(* Wrong on purpose: only the supervisor counts.                           *)
ActiveSupervised(r) == Effective(r) = "running"

Active(r) == Effective(r) \in {"running", "orphaned"} \/ r.worker \in worker

Rerun(p) ==
  /\ p # Launcher /\ sup[p].at = "unused" /\ MayWrite
  /\ rec # Gone /\ ~Active(rec)
  /\ \E native \in BOOLEAN :
       rec' = [rec EXCEPT !.attempt = @ + 1, !.status = "running", !.ended = FALSE,
                          !.killed = FALSE, !.ack = "no", !.sup = p, !.worker = None,
                          !.resumed = native]
  /\ Keep(p, "top", rec')
  /\ UNCHANGED <<worker, kill, janitor, crashed>>

(* ack and clean look at the record, and write or remove it later.         *)
MayClean(r, force) ==
  /\ Effective(r) \in Terminal \cup {"interrupted"} /\ r.worker \notin worker
  /\ force \/ (~(r.killed /\ r.status = "aborted") /\ r.ack # "no")
LookAtRun(at) ==
  /\ janitor = "idle" /\ rec # Gone /\ MayWrite
  /\ janitor' = at
  /\ UNCHANGED <<rec, sup, worker, kill, crashed>>
BeginAck == LookAtRun("ack") /\ Effective(rec) \in Terminal \cup {"interrupted"}
BeginClean == LookAtRun("clean") /\ \E force \in BOOLEAN : MayClean(rec, force)

Ack ==
  /\ janitor = "ack" /\ janitor' = "idle"
  /\ rec' = IF rec = Gone THEN Gone ELSE [rec EXCEPT !.ack = "yes"]
  /\ UNCHANGED <<sup, worker, kill, crashed>>

(* The last thing clean does; a worktree with changes keeps the record.    *)
Clean ==
  /\ janitor = "clean" /\ janitor' = "idle"
  /\ rec' \in {rec, Gone}
  /\ UNCHANGED <<sup, worker, kill, crashed>>

-----------------------------------------------------------------------------
New == [attempt |-> 1, status |-> "running", killed |-> FALSE, ended |-> FALSE,
        ack |-> "unset", resumed |-> FALSE, sup |-> Launcher, worker |-> None]

Init ==
  /\ rec = New
  /\ sup = [p \in Procs |-> [at |-> IF p = Launcher THEN "top" ELSE "unused",
                             run |-> New, status |-> "running", signal |-> FALSE]]
  /\ worker = {} /\ crashed = 0
  /\ kill = [at |-> "idle", pid |-> None, kind |-> "worker", left |-> Kills]
  /\ janitor = "idle"

Next ==
  \/ \E p \in Procs : Supervise(p) \/ StoreFails(p) \/ Expire(p) \/ WorkerExit(p) \/ Crash(p) \/ Rerun(p)
  \/ KillMark \/ KillSend \/ KillClear
  \/ BeginAck \/ Ack \/ BeginClean \/ Clean

Spec == Init /\ [][Next]_vars

(* Supervisors and a kill that was begun go on; nothing makes the worker   *)
(* exit or anyone give a command.  A time limit is fair only if there is   *)
(* one: a limit of 0 minutes is none.                                      *)
FairSpec ==
  /\ Spec
  /\ \A p \in Procs : WF_vars(Supervise(p) \/ StoreFails(p))
  /\ WF_vars(KillSend) /\ WF_vars(KillClear)

-----------------------------------------------------------------------------
(* At no time do two workers of the run work in its directory: resume and  *)
(* retry refuse a run whose worker or supervisor lives.                    *)
SingleWorker == Cardinality(worker) <= 1

(* A kill stands until the run is resumed or retried: whatever the         *)
(* supervisor makes of the end of its worker, the run is aborted.          *)
KillStands ==
  [][rec # Gone /\ rec' # Gone /\ rec.killed =>
       \/ rec'.killed /\ rec'.status = "aborted"
       \/ rec'.attempt > rec.attempt /\ rec'.status = "running"]_rec

(* What is recorded stands: nobody puts an older attempt over a newer one, *)
(* or another result over one that was recorded with its end, and the      *)
(* record is removed only when nobody works at the run.                    *)
ResultStands ==
  [][rec # Gone =>
       IF rec' = Gone THEN worker = {} /\ \A p \in Procs : ~Alive(p)
       ELSE /\ rec'.attempt >= rec.attempt
            /\ rec.status \in Terminal /\ rec.ended /\ rec'.attempt = rec.attempt
                 => rec'.status = rec.status]_rec

(* A killed run loses its worker, one that ignores SIGTERM and has no time *)
(* limit too: the supervisor sees the mark.                                *)
KillStops ==
  (rec # Gone /\ rec.killed) ~> (worker = {} \/ rec = Gone \/ ~rec.killed \/ crashed > 0)

=============================================================================
