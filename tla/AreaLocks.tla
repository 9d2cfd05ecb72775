------------------------------ MODULE AreaLocks ------------------------------
(***************************************************************************)
(* The area locks of one repository (scheduler/locks): one lock file per   *)
(* area in a shared directory, taken by the supervisor process of a plan   *)
(* for the run of each part it dispatches.  "*" locks the whole            *)
(* repository.  All files of one request are taken inside one advisory     *)
(* file lock, the guard (.areas.guard), which the operating system frees   *)
(* when its holder dies.                                                   *)
(*                                                                         *)
(* An area stands for its file name.  A manager is the AreaLockManager of  *)
(* one supervisor process with the FallbackTtlLiveness that the plan       *)
(* commands construct: its `now` is the time of its construction and never *)
(* moves, it is both the time stamp of the files the manager creates and   *)
(* the time staleness is judged at.                                        *)
(***************************************************************************)
EXTENDS Integers

CONSTANTS
  Managers,     \* supervisor processes
  Runs,         \* scheduler run ids, "<plan>-<part>"
  Areas,        \* areas other than the whole repository
  Star,         \* the area "*"
  None,
  Torn,         \* a lock file whose owner cannot be parsed
  Ttl,          \* FALLBACK_TTL_SECONDS
  MaxTime,      \* bound of the model: the last instant of the clock
  MaxCrashes    \* bound of the model: crashes in one behaviour

AllAreas == Areas \cup {Star}
LockOwner == [run : Runs, ts : Nat]

ASSUME AreaLocksAssumption ==
  /\ Star \notin Areas
  /\ None \notin LockOwner /\ Torn \notin LockOwner /\ None # Torn
  /\ None \notin Managers
  /\ Ttl \in Nat /\ MaxTime \in Nat /\ MaxCrashes \in Nat

VARIABLES
  file,     \* the lock directory: the owner in each lock file, None if absent
  guard,    \* the manager inside the transaction lock, or None
  op,       \* the acquisition each manager is in the middle of, or None
  holds,    \* areas granted and not yet released, with the stamp of their file
  built,    \* when each manager was constructed
  alive,    \* the managers whose process runs
  clock,
  crashes

vars == <<file, guard, op, holds, built, alive, clock, crashes>>

Operation == [run : Runs, want : SUBSET AllAreas, todo : SUBSET AllAreas,
              made : SUBSET AllAreas]
Hold == [mgr : Managers, run : Runs, area : AllAreas, ts : Nat]

(* None is told apart from every acquisition.                              *)
ASSUME NoneIsNoOperation == None \notin Operation

(* A lock file names an owner or is torn; grants, pending acquisitions and *)
(* the guard belong to managers.                                           *)
TypeOK ==
  /\ file \in [AllAreas -> LockOwner \cup {None, Torn}]
  /\ guard \in Managers \cup {None}
  /\ op \in [Managers -> Operation \cup {None}]
  /\ holds \in SUBSET Hold
  /\ built \in [Managers -> Nat]
  /\ alive \in SUBSET Managers
  /\ clock \in Nat
  /\ crashes \in Nat

Init ==
  /\ file = [a \in AllAreas |-> None]
  /\ guard = None
  /\ op = [m \in Managers |-> None]
  /\ holds = {}
  /\ built = [m \in Managers |-> 0]
  /\ alive = {}
  /\ clock = 0
  /\ crashes = 0

-----------------------------------------------------------------------------
OwnedBy(f, r) == f \in LockOwner /\ f.run = r

(* FallbackTtlLiveness::is_stale, an unreadable owner being stale at once. *)
Stale(m, f) == f = Torn \/ (f \in LockOwner /\ built[m] - f.ts > Ttl)

(* Wrong on purpose: the whole repository is locked without a look at the  *)
(* areas inside it.                                                        *)
CandidatesOfPart(a) == {Star} \ {a}

(* The other lock files acquire must find free before area a is granted.   *)
Candidates(a) == IF a = Star THEN Areas ELSE {Star}

Conflicts(m, a, r) ==
  \E b \in Candidates(a) :
    /\ file[b] \in LockOwner
    /\ file[b].run # r
    /\ ~ Stale(m, file[b])

(* The areas a request stands for: none, or "*" among them, is "*" alone.  *)
Normalized(want) == IF want = {} \/ Star \in want THEN {Star} ELSE want

(* One supervisor works for a run at a time (the supervisor lease of the   *)
(* plan), and the coordinator asks for a part only while it is not active. *)
Undriven(r) ==
  /\ \A h \in holds : h.run # r
  /\ \A m \in Managers : op[m] # None => op[m].run # r

BeginAcquire(m, r, want) ==
  /\ m \in alive /\ op[m] = None /\ guard = None
  /\ Undriven(r)
  /\ guard' = m
  /\ op' = [op EXCEPT ![m] = [run |-> r, want |-> Normalized(want),
                              todo |-> Normalized(want), made |-> {}]]
  /\ UNCHANGED <<file, holds, built, alive, clock, crashes>>

(* The file of area a is absent or reclaimed, or already the run's own,    *)
(* and no other lock stands in the way.                                    *)
TakeArea(m, a) ==
  /\ guard = m /\ op[m] # None /\ a \in op[m].todo
  /\ LET r    == op[m].run
         free == file[a] = None \/ (Stale(m, file[a]) /\ ~ OwnedBy(file[a], r))
     IN  /\ free \/ OwnedBy(file[a], r)
         /\ ~ Conflicts(m, a, r)
         /\ file' = IF free THEN [file EXCEPT ![a] = [run |-> r, ts |-> built[m]]]
                            ELSE file
         /\ op' = [op EXCEPT ![m].todo = @ \ {a},
                             ![m].made = IF free THEN @ \cup {a} ELSE @]
  /\ UNCHANGED <<guard, holds, built, alive, clock, crashes>>

(* Wrong on purpose: the file created for the refused area itself stays.   *)
RefuseKeepingLast(m, a) ==
  /\ guard = m /\ op[m] # None /\ a \in op[m].todo
  /\ LET r    == op[m].run
         free == file[a] = None \/ (Stale(m, file[a]) /\ ~ OwnedBy(file[a], r))
     IN  /\ ~ (free \/ OwnedBy(file[a], r)) \/ Conflicts(m, a, r)
         /\ file' = [b \in AllAreas |->
                      IF b \in op[m].made THEN None
                      ELSE IF b = a /\ free THEN [run |-> r, ts |-> built[m]] ELSE file[b]]
  /\ op' = [op EXCEPT ![m] = None]
  /\ guard' = None
  /\ UNCHANGED <<holds, built, alive, clock, crashes>>

(* Area a is busy or conflicts: every file this call created is removed,   *)
(* the one of a among them if it got that far, and acquire returns false.  *)
RefuseArea(m, a) ==
  /\ guard = m /\ op[m] # None /\ a \in op[m].todo
  /\ LET r    == op[m].run
         free == file[a] = None \/ (Stale(m, file[a]) /\ ~ OwnedBy(file[a], r))
         undo == op[m].made \cup (IF free THEN {a} ELSE {})
     IN  /\ ~ (free \/ OwnedBy(file[a], r)) \/ Conflicts(m, a, r)
         /\ file' = [b \in AllAreas |-> IF b \in undo THEN None ELSE file[b]]
  /\ op' = [op EXCEPT ![m] = None]
  /\ guard' = None
  /\ UNCHANGED <<holds, built, alive, clock, crashes>>

FinishAcquire(m) ==
  /\ guard = m /\ op[m] # None /\ op[m].todo = {}
  /\ holds' = holds \cup
       {[mgr |-> m, run |-> op[m].run, area |-> a, ts |-> file[a].ts] : a \in op[m].want}
  /\ op' = [op EXCEPT ![m] = None]
  /\ guard' = None
  /\ UNCHANGED <<file, built, alive, clock, crashes>>

(* Wrong on purpose: the file of a released area goes whoever owns it.     *)
ReleaseAnyOwner(m, r) ==
  /\ m \in alive /\ op[m] = None /\ guard = None
  /\ LET mine == {h \in holds : h.mgr = m /\ h.run = r}
     IN  /\ mine # {}
         /\ holds' = holds \ mine
         /\ file' = [a \in AllAreas |-> IF \E h \in mine : h.area = a THEN None ELSE file[a]]
  /\ UNCHANGED <<guard, op, built, alive, clock, crashes>>

(* release_area_locks: only files that still name the run are removed.     *)
Release(m, r) ==
  /\ m \in alive /\ op[m] = None /\ guard = None
  /\ LET mine == {h \in holds : h.mgr = m /\ h.run = r}
     IN  /\ mine # {}
         /\ holds' = holds \ mine
         /\ file' = [a \in AllAreas |->
                      IF OwnedBy(file[a], r) /\ \E h \in mine : h.area = a
                      THEN None ELSE file[a]]
  /\ UNCHANGED <<guard, op, built, alive, clock, crashes>>

(* A supervisor dies: its files stay, half-written if it was creating one, *)
(* its grants die with it, and the guard is freed by the operating system. *)
Crash(m) ==
  /\ m \in alive /\ crashes < MaxCrashes
  /\ crashes' = crashes + 1
  /\ alive' = alive \ {m}
  /\ holds' = {h \in holds : h.mgr # m}
  /\ op' = [op EXCEPT ![m] = None]
  /\ guard' = IF guard = m THEN None ELSE guard
  /\ \/ UNCHANGED file
     \/ /\ guard = m /\ op[m] # None
        /\ \E a \in op[m].todo : file[a] = None /\ file' = [file EXCEPT ![a] = Torn]
  /\ UNCHANGED <<built, clock>>

(* A supervisor is started, or restarted after a crash: `now` is read once. *)
Start(m) ==
  /\ m \notin alive
  /\ alive' = alive \cup {m}
  /\ built' = [built EXCEPT ![m] = clock]
  /\ UNCHANGED <<file, guard, op, holds, clock, crashes>>

Tick ==
  /\ clock < MaxTime
  /\ clock' = clock + 1
  /\ UNCHANGED <<file, guard, op, holds, built, alive, crashes>>

Next ==
  \/ \E m \in Managers, r \in Runs, want \in SUBSET AllAreas : BeginAcquire(m, r, want)
  \/ \E m \in Managers, a \in AllAreas : TakeArea(m, a) \/ RefuseArea(m, a)
  \/ \E m \in Managers : FinishAcquire(m)
  \/ \E m \in Managers, r \in Runs : Release(m, r)
  \/ \E m \in Managers : Start(m) \/ Crash(m)
  \/ Tick

Spec == Init /\ [][Next]_vars

-----------------------------------------------------------------------------
Overlap(a, b) == a = b \/ a = Star \/ b = Star

Expired(h) == clock - h.ts > Ttl

(* Two runs are granted overlapping areas only once the lock file one of   *)
(* them was granted on is older than the TTL: files, the repository-wide   *)
(* lock and requests for several areas together exclude each other across  *)
(* processes, crashes and reclaims.                                        *)
AreaExclusion ==
  \A h, k \in holds :
    (h.run # k.run /\ Overlap(h.area, k.area)) => (Expired(h) \/ Expired(k))

(* Without a crash no lock file is left behind: a refused request undoes   *)
(* exactly what it created, and a release by a run whose file was          *)
(* reclaimed meanwhile does not remove the new owner's file.               *)
NoLeakedLock ==
  crashes = 0 =>
    \A a \in AllAreas : file[a] # None =>
      \/ \E h \in holds : h.area = a /\ OwnedBy(file[a], h.run)
      \/ \E m \in Managers : op[m] # None /\ a \in op[m].made /\ OwnedBy(file[a], op[m].run)

(* A grant younger than the TTL is backed by its own lock file, whatever   *)
(* other managers reclaim, refuse or release.                              *)
GrantBacked ==
  \A h \in holds :
    file[h.area] = [run |-> h.run, ts |-> h.ts] \/ Expired(h)
=============================================================================
