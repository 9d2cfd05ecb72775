------------------------------ MODULE SelfHeal ------------------------------
(***************************************************************************)
(* reconcile --heal (runs/reconciliation): invocations that look for       *)
(* broken runs and repair them one after the other, with a ledger of       *)
(* repairs that all of them share.  An invocation decides on the records   *)
(* and the time it read when it began; a repair lasts as long as the run   *)
(* it starts.  Meanwhile the user kills, resumes and retries runs.  The    *)
(* commands kill, resume and retry are steps here; RunLifecycle has what   *)
(* happens within them.                                                    *)
(***************************************************************************)
EXTENDS Integers, FiniteSets

CONSTANTS
  Runs, Healers, Nil,
  MaxAttempts, MaxBatch, MaxAge,   \* SelfHealPolicy
  InitialBackoff, MaxBackoff,
  Repeat,        \* is allow_repeat given?
  Excluded,      \* the runs of other owners, which an invocation leaves alone
  Prompt,        \* does no time pass from the start of an invocation to its repairs?
  Broken,        \* the statuses of runs at the start
  Outcomes,      \* the statuses they can end with
  Horizon, Invocations, UserKills, Reruns, HealerCrashes, Failures   \* bounds of the model

VARIABLES now, run, ledger, heal, due, count

healVars == <<now, run, ledger, heal, due, count>>

Least(a, b) == IF a < b THEN a ELSE b

(* interrupted and orphaned are what a running record is called when its   *)
(* supervisor, or also its worker, is gone; overdue stands for timeout and *)
(* stalled.                                                                *)
EndStates == {"aborted", "error", "limit", "overdue", "done"}

ASSUME HealAssumption ==
  /\ IsFiniteSet(Runs) /\ IsFiniteSet(Healers) /\ Nil \notin Runs /\ Nil \notin Healers
  /\ "user" \notin Healers
  /\ {MaxAttempts, MaxBatch, MaxAge, InitialBackoff, MaxBackoff} \subseteq Nat
  /\ Broken \subseteq EndStates \cup {"running"}
  /\ Outcomes \subseteq {"error", "limit", "overdue", "done"}
  /\ {Repeat, Prompt} \subseteq BOOLEAN /\ Excluded \in [Healers -> SUBSET Runs]
  /\ {Horizon, Invocations, UserKills, Reruns, HealerCrashes, Failures} \subseteq Nat

Actions == {"resume", "retry"}
Counted == {"invocations", "kills", "reruns", "crashes", "failures"}

RunRecord ==
  [status : EndStates \cup {"running"}, ended : 0 .. Horizon,
   by : Healers \cup {"user", Nil}, worker : BOOLEAN, killed : BOOLEAN]
Entry == [attempts : 0 .. MaxAttempts, next : Int, flight : [Actions -> Nat]]
Healing ==
  [at : {"idle", "looking", "killing", "starting", "working", "ending"},
   now : 0 .. Horizon, left : SUBSET Runs, seen : [Runs -> EndStates \cup {"running"}],
   used : 0 .. MaxBatch, run : Runs \cup {Nil}, action : Actions \cup {Nil},
   attempt : 0 .. MaxAttempts]

(* A run that somebody supervises has a worker, an invocation supervises   *)
(* the run it repairs, and repairs one run or none.                        *)
Linked ==
  /\ \A r \in Runs :
       /\ run[r].by # Nil => run[r].worker
       /\ run[r].by \in Healers => heal[run[r].by].at = "working" /\ heal[run[r].by].run = r
  /\ \A h \in Healers : heal[h].at \in {"idle", "looking"} <=> heal[h].run = Nil

HealTypeOK ==
  /\ now \in 0 .. Horizon
  /\ run \in [Runs -> RunRecord] /\ ledger \in [Runs -> Entry] /\ heal \in [Healers -> Healing]
  /\ due \in [Runs -> Int]
  /\ count \in [Counted -> Nat]
  /\ Linked

-----------------------------------------------------------------------------
May(what, bound) == count[what] < bound /\ count' = [count EXCEPT ![what] = @ + 1]

(* effective_status, of a record as it was read with the process table as  *)
(* it is.                                                                  *)
EffectiveStatus(status, r) ==
  IF status # "running" THEN status
  ELSE IF run[r].by # Nil THEN "running"
  ELSE IF run[r].worker THEN "orphaned" ELSE "interrupted"

(* classify, ReconcileClass::action.                                       *)
ActionFor(status) ==
  CASE status \in {"orphaned", "interrupted", "aborted", "overdue"} -> "resume"
    [] status \in {"error", "limit"} -> "retry"
    [] OTHER -> Nil

(* backoff_seconds.                                                        *)
Backoff(attempt) == Least(InitialBackoff * 2 ^ (attempt - 1), MaxBackoff)

(* decision_for.                                                           *)
Eligible(h, r) ==
  /\ ledger[r].attempts < MaxAttempts
  /\ ledger[r].attempts > 0 => ledger[r].next <= heal[h].now /\ Repeat

Idle == [at |-> "idle", now |-> 0, left |-> {}, seen |-> [r \in Runs |-> "running"], used |-> 0,
         run |-> Nil, action |-> Nil, attempt |-> 0]

(* ReconciliationService::reconcile reads the records once.                *)
Begin(h) ==
  /\ heal[h].at = "idle" /\ May("invocations", Invocations)
  /\ heal' = [heal EXCEPT ![h] = [Idle EXCEPT !.at = "looking", !.now = now, !.left = Runs,
                !.seen = [r \in Runs |-> run[r].status]]]
  /\ UNCHANGED <<now, run, ledger, due>>

Heals(h, r) ==
  /\ ActionFor(EffectiveStatus(heal[h].seen[r], r)) # Nil
  /\ r \notin Excluded[h]
  /\ heal[h].used < MaxBatch
  /\ heal[h].now <= run[r].ended + MaxAge

(* The runs that need no repair, or not now, are passed.                   *)
Skip(h) ==
  /\ heal[h].at = "looking"
  /\ \E r \in heal[h].left :
       /\ ~(Heals(h, r) /\ Eligible(h, r))
       /\ heal' = [heal EXCEPT ![h].left = @ \ {r}]
  /\ UNCHANGED <<now, run, ledger, due, count>>

(* Wrong on purpose: the attempt is counted when the repair is over.       *)
ReserveUncounted(h) ==
  /\ heal[h].at = "looking"
  /\ \E r \in heal[h].left :
       /\ Heals(h, r) /\ Eligible(h, r)
       /\ heal' = [heal EXCEPT ![h].left = @ \ {r}, ![h].run = r, ![h].at = "starting",
                               ![h].action = ActionFor(EffectiveStatus(heal[h].seen[r], r)),
                               ![h].attempt = ledger[r].attempts + 1]
       /\ ledger' = [ledger EXCEPT ![r].flight[heal'[h].action] = @ + 1]
       /\ due' = [due EXCEPT ![r] = now + Backoff(ledger[r].attempts + 1)]
  /\ UNCHANGED <<now, run, count>>

(* SelfHealStore::reserve, in one step under the ledger's lock.  due is    *)
(* when the wait for the next repair is over by the clock.                 *)
Reserve(h) ==
  /\ heal[h].at = "looking"
  /\ \E r \in heal[h].left :
       LET status == EffectiveStatus(heal[h].seen[r], r)
           attempt == ledger[r].attempts + 1
       IN  /\ Heals(h, r) /\ Eligible(h, r)
           /\ heal' = [heal EXCEPT ![h].left = @ \ {r}, ![h].run = r, ![h].action = ActionFor(status),
                         ![h].at = IF status = "orphaned" THEN "killing" ELSE "starting",
                         ![h].attempt = attempt]
           /\ ledger' = [ledger EXCEPT ![r].attempts = attempt,
                                       ![r].next = heal[h].now + Backoff(attempt),
                                       ![r].flight[ActionFor(status)] = @ + 1]
           /\ due' = [due EXCEPT ![r] = now + Backoff(attempt)]
  /\ UNCHANGED <<now, run, count>>

(* kill_one: a run whose worker runs is stopped, and aborted unless it has *)
(* ended.                                                                  *)
Stopped(r, killed) ==
  IF run[r].status # "running" THEN [run EXCEPT ![r].worker = FALSE, ![r].by = Nil]
  ELSE [run EXCEPT ![r] = [status |-> "aborted", ended |-> now, by |-> Nil, worker |-> FALSE,
                           killed |-> killed]]
KillOrphan(h) ==
  /\ heal[h].at = "killing"
  /\ run' = Stopped(heal[h].run, run[heal[h].run].killed)
  /\ heal' = [heal EXCEPT ![h].at = "starting"]
  /\ UNCHANGED <<now, ledger, due, count>>

Live(r) == run[r].worker
Launched(r, by) ==
  [run EXCEPT ![r] = [status |-> "running", ended |-> now, by |-> by, worker |-> TRUE, killed |-> FALSE]]

(* Wrong on purpose: a run is started beside its live worker.              *)
StartAnyway(h) ==
  /\ heal[h].at = "starting"
  /\ run' = Launched(heal[h].run, h)
  /\ heal' = [heal EXCEPT ![h].at = "working"]
  /\ UNCHANGED <<now, ledger, due, count>>

(* resume and retry refuse a run that is active.                           *)
StartRun(h) ==
  /\ heal[h].at = "starting"
  /\ IF Live(heal[h].run)
     THEN heal' = [heal EXCEPT ![h].at = "ending"] /\ UNCHANGED run
     ELSE /\ run' = Launched(heal[h].run, h)
          /\ heal' = [heal EXCEPT ![h].at = "working"]
  /\ UNCHANGED <<now, ledger, due, count>>
StartFails(h) ==
  /\ heal[h].at \in {"killing", "starting"} /\ May("failures", Failures)
  /\ heal' = [heal EXCEPT ![h].at = "ending"]
  /\ UNCHANGED <<now, run, ledger, due>>

Ended(r, status) ==
  [run EXCEPT ![r] = [@ EXCEPT !.status = status, !.ended = now, !.by = Nil, !.worker = FALSE]]

(* The repair is over when its run is, or when the run was killed.         *)
Works(h) ==
  /\ heal[h].at = "working"
  /\ IF run[heal[h].run].by = h
     THEN \E status \in Outcomes : run' = Ended(heal[h].run, status)
     ELSE UNCHANGED run
  /\ heal' = [heal EXCEPT ![h].at = "ending"]
  /\ UNCHANGED <<now, ledger, due, count>>

(* SelfHealStore::complete marks an event of the action that is in flight. *)
Complete(h) ==
  /\ heal[h].at = "ending"
  /\ ledger' = [ledger EXCEPT ![heal[h].run].flight[heal[h].action] = @ - 1]
  /\ heal' = [heal EXCEPT ![h].at = "looking", ![h].used = @ + 1, ![h].run = Nil,
                          ![h].action = Nil, ![h].attempt = 0]
  /\ UNCHANGED <<now, run, due, count>>
End(h) ==
  /\ heal[h].at = "looking" /\ heal[h].left = {}
  /\ heal' = [heal EXCEPT ![h] = Idle]
  /\ UNCHANGED <<now, run, ledger, due, count>>

(* An invocation dies: the worker it supervised goes on alone, or ends.    *)
HealerCrash(h) ==
  /\ heal[h].at # "idle" /\ May("crashes", HealerCrashes)
  /\ heal' = [heal EXCEPT ![h] = Idle]
  /\ \E worker \in BOOLEAN :
       run' = [r \in Runs |-> IF run[r].by = h THEN [run[r] EXCEPT !.by = Nil, !.worker = worker] ELSE run[r]]
  /\ UNCHANGED <<now, ledger, due>>

UserKill(r) ==
  /\ Live(r) /\ May("kills", UserKills) /\ run' = Stopped(r, TRUE)
  /\ UNCHANGED <<now, ledger, heal, due>>
UserRun(r) ==
  /\ ~Live(r) /\ May("reruns", Reruns) /\ run' = Launched(r, "user")
  /\ UNCHANGED <<now, ledger, heal, due>>
UserRunEnds(r) ==
  /\ run[r].by = "user"
  /\ \E status \in Outcomes : run' = Ended(r, status)
  /\ UNCHANGED <<now, ledger, heal, due, count>>
WorkerExits(r) ==
  /\ run[r].worker /\ run[r].by = Nil
  /\ run' = [run EXCEPT ![r].worker = FALSE]
  /\ UNCHANGED <<now, ledger, heal, due, count>>
Tick ==
  /\ now < Horizon /\ now' = now + 1
  /\ Prompt => \A h \in Healers : heal[h].at # "looking"
  /\ UNCHANGED <<run, ledger, heal, due, count>>

HealInit ==
  /\ now = 0
  /\ run \in [Runs -> {[status |-> s, ended |-> 0, by |-> Nil, worker |-> s = "running",
                         killed |-> FALSE] : s \in Broken}]
  /\ ledger = [r \in Runs |-> [attempts |-> 0, next |-> 0, flight |-> [a \in Actions |-> 0]]]
  /\ heal = [h \in Healers |-> Idle]
  /\ due = [r \in Runs |-> 0]
  /\ count = [invocations |-> 0, kills |-> 0, reruns |-> 0, crashes |-> 0, failures |-> 0]

HealNext ==
  \/ Tick
  \/ \E h \in Healers :
       \/ Begin(h) \/ Skip(h) \/ Reserve(h) \/ KillOrphan(h) \/ StartRun(h) \/ StartFails(h)
       \/ Works(h) \/ Complete(h) \/ End(h) \/ HealerCrash(h)
  \/ \E r \in Runs : UserKill(r) \/ UserRun(r) \/ UserRunEnds(r) \/ WorkerExits(r)

HealSpec == HealInit /\ [][HealNext]_healVars

-----------------------------------------------------------------------------
Busy(r) == {h \in Healers : heal[h].run = r}

(* Repairs of one run are reservations of their own, however many          *)
(* invocations overlap: no two have the same number, all are counted, also *)
(* those of invocations that died, and an event is in flight exactly for a *)
(* repair under way or for one whose invocation died.                      *)
OwnReservation ==
  \A r \in Runs :
    /\ \A g, h \in Busy(r) : g # h => heal[g].attempt # heal[h].attempt
    /\ \A h \in Busy(r) : heal[h].attempt <= ledger[r].attempts
    /\ \A a \in Actions :
         LET busy == Cardinality({h \in Busy(r) : heal[h].action = a})
         IN  /\ ledger[r].flight[a] >= busy
             /\ count.crashes = 0 => ledger[r].flight[a] = busy

(* Without allow_repeat a run is repaired once at most, by whomever, even  *)
(* if the invocation that repaired it died before it was done.             *)
RepairedOnce ==
  [][\A h \in Healers :
       heal[h].run = Nil /\ heal'[h].run # Nil =>
         Repeat \/ \A a \in Actions : ledger[heal'[h].run].flight[a] = 0 /\ due[heal'[h].run] = 0]_healVars

(* A repair never takes a run over from its supervisor: of invocations and *)
(* user one at a time works on a run.                                      *)
NotTakenOver ==
  [][\A r \in Runs : run[r].by # Nil /\ run'[r].by # Nil => run'[r].by = run[r].by]_healVars

-----------------------------------------------------------------------------
(* The code does not keep the following in every setting, and no           *)
(* configuration checks it: README, "Known disagreements".                 *)

(* Between two repairs of a run passes the wait that the first one calls   *)
(* for.                                                                    *)
Spaced ==
  [][\A h \in Healers :
       heal[h].run = Nil /\ heal'[h].run # Nil => now >= due[heal'[h].run]]_healVars

(* A repair starts runs that are stalled, interrupted, orphaned, errored   *)
(* or at a limit, and no others.                                           *)
RepairsBroken ==
  [][\A h \in Healers, r \in Runs :
       run[r].by # h /\ run'[r].by = h => run[r].status # "done" /\ ~run[r].killed]_healVars

(* A repair kills orphans, not runs that are supervised.                   *)
KillsOrphans ==
  [][\A h \in Healers :
       heal[h].at = "killing" /\ heal'[h].at = "starting" => run[heal[h].run].by = Nil]_healVars
=============================================================================
