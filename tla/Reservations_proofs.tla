------------------------- MODULE Reservations_proofs -------------------------
(***************************************************************************)
(* What is reserved of shared things: the areas of a repository            *)
(* (AreaLocks), and then the agents of the queue (AgentQueue).             *)
(***************************************************************************)
EXTENDS AreaLocks, AgentQueue, FiniteSetTheorems, TLAPS

(***************************************************************************)
(* AreaLocks, for every set of managers, runs and areas, every TTL and     *)
(* every number of crashes: the type invariant, that young grants are      *)
(* backed by their files, mutual exclusion of overlapping areas, and that  *)
(* without a crash no lock file is left behind.                            *)
(***************************************************************************)

(* Only the manager inside the guard is in the middle of an acquisition.   *)
GuardInv == \A m \in Managers : op[m] # None => guard = m

AliveInv == \A m \in Managers : op[m] # None => m \in alive

BuiltInv == \A m \in Managers : built[m] <= clock

(* A run is driven by one manager, which either holds or acquires for it.  *)
DriverInv ==
  /\ \A h \in holds, m \in Managers : op[m] # None => op[m].run # h.run
  /\ \A h, k \in holds : h.run = k.run => h.mgr = k.mgr

(* Inside the guard, the areas already taken are the run's and unopposed.  *)
TakenInv ==
  \A m \in Managers : op[m] # None =>
    /\ op[m].todo \subseteq op[m].want
    /\ op[m].made \subseteq op[m].want \ op[m].todo
    /\ \A a \in op[m].want \ op[m].todo :
         OwnedBy(file[a], op[m].run) /\ ~ Conflicts(m, a, op[m].run)

IInv ==
  TypeOK /\ GuardInv /\ AliveInv /\ BuiltInv /\ DriverInv /\ GrantBacked /\ TakenInv /\ AreaExclusion

-----------------------------------------------------------------------------
(* A manager only calls stale what is past its TTL on the real clock too.  *)
LEMMA StaleIsExpired ==
  ASSUME TypeOK, BuiltInv, NEW m \in Managers, NEW f \in LockOwner, Stale(m, f)
  PROVE  clock - f.ts > Ttl
<1>1. f # Torn
  BY AreaLocksAssumption
<1>2. built[m] - f.ts > Ttl
  BY <1>1 DEF Stale
<1>3. built[m] \in Nat /\ clock \in Nat /\ f.ts \in Nat /\ Ttl \in Nat /\ built[m] <= clock
  BY AreaLocksAssumption DEF TypeOK, BuiltInv, LockOwner
<1> QED
  BY <1>2, <1>3

LEMMA NormalizedType ==
  ASSUME NEW want \in SUBSET AllAreas
  PROVE  Normalized(want) \in SUBSET AllAreas
BY DEF Normalized, AllAreas

LEMMA OperationShape ==
  ASSUME TypeOK, NEW m \in Managers, op[m] # None
  PROVE  /\ op[m] \in Operation
         /\ op[m].run \in Runs
         /\ op[m].want \in SUBSET AllAreas
         /\ op[m].todo \in SUBSET AllAreas
         /\ op[m].made \in SUBSET AllAreas
BY DEF TypeOK, Operation

(* TypeOK is inductive by itself but for FinishAcquire, which reads the    *)
(* stamps of the files it was granted: there TakenInv says they exist.     *)
LEMMA TypeStep ==
  ASSUME TypeOK, TakenInv, [Next]_vars
  PROVE  TypeOK'
<1>1. ASSUME NEW m \in Managers, NEW r \in Runs, NEW want \in SUBSET AllAreas,
             BeginAcquire(m, r, want)
      PROVE  TypeOK'
  <2>1. [run |-> r, want |-> Normalized(want), todo |-> Normalized(want), made |-> {}]
          \in Operation
    BY NormalizedType DEF Operation
  <2> QED
    BY <1>1, <2>1 DEF TypeOK, BeginAcquire
<1>2. ASSUME NEW m \in Managers, NEW a \in AllAreas, TakeArea(m, a)
      PROVE  TypeOK'
  <2>1. op[m] # None /\ op[m] \in Operation
    BY <1>2, OperationShape DEF TakeArea
  <2>2. [run |-> op[m].run, ts |-> built[m]] \in LockOwner
    BY <2>1 DEF TypeOK, Operation, LockOwner
  <2>3. file' \in [AllAreas -> LockOwner \cup {None, Torn}]
    BY <1>2, <2>2 DEF TypeOK, TakeArea
  <2>4. op' \in [Managers -> Operation \cup {None}]
    BY <1>2, <2>1 DEF TypeOK, TakeArea, Operation
  <2> QED
    BY <1>2, <2>3, <2>4 DEF TypeOK, TakeArea
<1>3. ASSUME NEW m \in Managers, NEW a \in AllAreas, RefuseArea(m, a)
      PROVE  TypeOK'
  BY <1>3 DEF TypeOK, RefuseArea
<1>4. ASSUME NEW m \in Managers, FinishAcquire(m)
      PROVE  TypeOK'
  <2>1. op[m] # None /\ op[m] \in Operation
    BY <1>4, OperationShape DEF FinishAcquire
  <2>2. \A a \in op[m].want : file[a] \in LockOwner
    BY <1>4, <2>1 DEF TakenInv, FinishAcquire, OwnedBy
  <2>3. \A a \in op[m].want : [mgr |-> m, run |-> op[m].run, area |-> a, ts |-> file[a].ts] \in Hold
    BY <2>1, <2>2 DEF Operation, Hold, LockOwner
  <2>4. holds' \in SUBSET Hold
    BY <1>4, <2>3 DEF TypeOK, FinishAcquire
  <2> QED
    BY <1>4, <2>4 DEF TypeOK, FinishAcquire
<1>5. ASSUME NEW m \in Managers, NEW r \in Runs, Release(m, r)
      PROVE  TypeOK'
  BY <1>5 DEF TypeOK, Release
<1>6. ASSUME NEW m \in Managers, Start(m)
      PROVE  TypeOK'
  BY <1>6 DEF TypeOK, Start
<1>7. ASSUME NEW m \in Managers, Crash(m)
      PROVE  TypeOK'
  <2>1. file' \in [AllAreas -> LockOwner \cup {None, Torn}]
    BY <1>7 DEF TypeOK, Crash
  <2>2. op' \in [Managers -> Operation \cup {None}] /\ guard' \in Managers \cup {None}
    BY <1>7 DEF TypeOK, Crash
  <2>3. holds' \in SUBSET Hold /\ alive' \in SUBSET Managers /\ crashes' \in Nat
    BY <1>7 DEF TypeOK, Crash
  <2> QED
    BY <1>7, <2>1, <2>2, <2>3 DEF TypeOK, Crash
<1>8. CASE Tick
  BY <1>8 DEF TypeOK, Tick
<1>9. CASE UNCHANGED vars
  BY <1>9 DEF TypeOK, vars
<1> QED
  BY <1>1, <1>2, <1>3, <1>4, <1>5, <1>6, <1>7, <1>8, <1>9 DEF Next

LEMMA GuardStep ==
  ASSUME TypeOK, GuardInv, AliveInv, BuiltInv, [Next]_vars
  PROVE  GuardInv' /\ AliveInv' /\ BuiltInv'
<1>1. ASSUME NEW m \in Managers, NEW r \in Runs, NEW want \in SUBSET AllAreas,
             BeginAcquire(m, r, want)
      PROVE  GuardInv' /\ AliveInv' /\ BuiltInv'
  BY <1>1, AreaLocksAssumption DEF TypeOK, GuardInv, AliveInv, BuiltInv, BeginAcquire
<1>2. ASSUME NEW m \in Managers, NEW a \in AllAreas, TakeArea(m, a)
      PROVE  GuardInv' /\ AliveInv' /\ BuiltInv'
  <2>1. \A n \in Managers : op'[n] # None => op[n] # None
    BY <1>2 DEF TypeOK, TakeArea
  <2> QED
    BY <1>2, <2>1 DEF GuardInv, AliveInv, BuiltInv, TakeArea
<1>3. ASSUME NEW m \in Managers, NEW a \in AllAreas, RefuseArea(m, a)
      PROVE  GuardInv' /\ AliveInv' /\ BuiltInv'
  BY <1>3 DEF TypeOK, GuardInv, AliveInv, BuiltInv, RefuseArea
<1>4. ASSUME NEW m \in Managers, FinishAcquire(m)
      PROVE  GuardInv' /\ AliveInv' /\ BuiltInv'
  BY <1>4 DEF TypeOK, GuardInv, AliveInv, BuiltInv, FinishAcquire
<1>5. ASSUME NEW m \in Managers, NEW r \in Runs, Release(m, r)
      PROVE  GuardInv' /\ AliveInv' /\ BuiltInv'
  BY <1>5 DEF TypeOK, GuardInv, AliveInv, BuiltInv, Release
<1>6. ASSUME NEW m \in Managers, Start(m)
      PROVE  GuardInv' /\ AliveInv' /\ BuiltInv'
  BY <1>6 DEF TypeOK, GuardInv, AliveInv, BuiltInv, Start
<1>7. ASSUME NEW m \in Managers, Crash(m)
      PROVE  GuardInv' /\ AliveInv' /\ BuiltInv'
  BY <1>7 DEF TypeOK, GuardInv, AliveInv, BuiltInv, Crash
<1>8. CASE Tick
  BY <1>8 DEF TypeOK, GuardInv, AliveInv, BuiltInv, Tick
<1>9. CASE UNCHANGED vars
  BY <1>9 DEF GuardInv, AliveInv, BuiltInv, vars
<1> QED
  BY <1>1, <1>2, <1>3, <1>4, <1>5, <1>6, <1>7, <1>8, <1>9 DEF Next

LEMMA DriverStep ==
  ASSUME TypeOK, GuardInv, DriverInv, [Next]_vars
  PROVE  DriverInv'
<1>1. ASSUME NEW m \in Managers, NEW r \in Runs, NEW want \in SUBSET AllAreas,
             BeginAcquire(m, r, want)
      PROVE  DriverInv'
  BY <1>1 DEF TypeOK, DriverInv, BeginAcquire, Undriven
<1>2. ASSUME NEW m \in Managers, NEW a \in AllAreas, TakeArea(m, a)
      PROVE  DriverInv'
  <2>1. \A n \in Managers : op'[n] # None => op[n] # None /\ op'[n].run = op[n].run
    BY <1>2 DEF TypeOK, Operation, TakeArea
  <2> QED
    BY <1>2, <2>1 DEF DriverInv, TakeArea
<1>3. ASSUME NEW m \in Managers, NEW a \in AllAreas, RefuseArea(m, a)
      PROVE  DriverInv'
  BY <1>3 DEF TypeOK, DriverInv, RefuseArea
<1>4. ASSUME NEW m \in Managers, FinishAcquire(m)
      PROVE  DriverInv'
  <2>1. \A h \in holds' : h \in holds \/ (h.mgr = m /\ h.run = op[m].run)
    BY <1>4 DEF FinishAcquire
  <2>2. \A n \in Managers : op'[n] # None => n # m /\ op[n] = op'[n]
    BY <1>4 DEF TypeOK, FinishAcquire
  <2>3. \A n \in Managers : n # m => op[n] = None
    BY <1>4 DEF GuardInv, FinishAcquire
  <2>4. \A h \in holds : h.run # op[m].run
    BY <1>4 DEF DriverInv, FinishAcquire
  <2> QED
    BY <2>1, <2>2, <2>3, <2>4 DEF DriverInv
<1>5. ASSUME NEW m \in Managers, NEW r \in Runs, Release(m, r)
      PROVE  DriverInv'
  BY <1>5 DEF DriverInv, Release
<1>6. ASSUME NEW m \in Managers, Start(m)
      PROVE  DriverInv'
  BY <1>6 DEF DriverInv, Start
<1>7. ASSUME NEW m \in Managers, Crash(m)
      PROVE  DriverInv'
  BY <1>7 DEF TypeOK, DriverInv, Crash
<1>8. CASE Tick
  BY <1>8 DEF DriverInv, Tick
<1>9. CASE UNCHANGED vars
  BY <1>9 DEF DriverInv, vars
<1> QED
  BY <1>1, <1>2, <1>3, <1>4, <1>5, <1>6, <1>7, <1>8, <1>9 DEF Next

(* What an acquisition writes or removes is its own file, an absent one or *)
(* one past its TTL, so every other grant stays backed or has expired.     *)
LEMMA BackedStep ==
  ASSUME IInv, [Next]_vars
  PROVE  GrantBacked'
<1> USE DEF IInv
<1>0. ASSUME holds' \subseteq holds, clock' = clock,
             \A h \in holds' : file'[h.area] = file[h.area] \/ Expired(h)
      PROVE  GrantBacked'
  BY <1>0 DEF GrantBacked, Expired
<1>1. ASSUME NEW m \in Managers, NEW r \in Runs, NEW want \in SUBSET AllAreas,
             BeginAcquire(m, r, want)
      PROVE  GrantBacked'
  BY <1>0, <1>1 DEF BeginAcquire
<1>2. ASSUME NEW m \in Managers, NEW a \in AllAreas, TakeArea(m, a)
      PROVE  GrantBacked'
  <2>1. ASSUME NEW h \in holds, file'[h.area] # file[h.area]
        PROVE  Expired(h)
    <3>1. h.area = a /\ (file[a] = None \/ (Stale(m, file[a]) /\ ~ OwnedBy(file[a], op[m].run)))
      BY <1>2, <2>1 DEF TypeOK, Hold, TakeArea
    <3>2. CASE file[a] = [run |-> h.run, ts |-> h.ts]
      <4>1. file[a] \in LockOwner /\ file[a].ts = h.ts
        BY <3>2 DEF TypeOK, Hold, LockOwner
      <4>2. Stale(m, file[a])
        BY <3>1, <4>1, AreaLocksAssumption
      <4>3. clock - file[a].ts > Ttl
        BY <4>1, <4>2, StaleIsExpired
      <4> QED
        BY <4>1, <4>3 DEF Expired
    <3> QED
      BY <3>1, <3>2 DEF GrantBacked
  <2> QED
    BY <1>0, <1>2, <2>1 DEF TakeArea
<1>3. ASSUME NEW m \in Managers, NEW a \in AllAreas, RefuseArea(m, a)
      PROVE  GrantBacked'
  <2>1. ASSUME NEW h \in holds, file'[h.area] # file[h.area]
        PROVE  Expired(h)
    <3>1. \/ h.area \in op[m].made
          \/ h.area = a /\ (file[a] = None \/ (Stale(m, file[a]) /\ ~ OwnedBy(file[a], op[m].run)))
      BY <1>3, <2>1 DEF TypeOK, Hold, RefuseArea
    <3>2. op[m] # None /\ h.run # op[m].run
      BY <1>3 DEF DriverInv, RefuseArea
    <3>3. CASE file[h.area] = [run |-> h.run, ts |-> h.ts]
      <4>1. file[h.area] \in LockOwner /\ file[h.area].ts = h.ts /\ file[h.area].run = h.run
        BY <3>3 DEF TypeOK, Hold, LockOwner
      <4>2. h.area \notin op[m].made
        BY <3>2, <4>1 DEF TakenInv, OwnedBy
      <4>3. Stale(m, file[h.area])
        BY <3>1, <4>1, <4>2, AreaLocksAssumption
      <4>4. clock - file[h.area].ts > Ttl
        BY <4>1, <4>3, StaleIsExpired
      <4> QED
        BY <4>1, <4>4 DEF Expired
    <3> QED
      BY <3>3 DEF GrantBacked
  <2> QED
    BY <1>0, <1>3, <2>1 DEF RefuseArea
<1>4. ASSUME NEW m \in Managers, FinishAcquire(m)
      PROVE  GrantBacked'
  <2>1. file' = file /\ clock' = clock
    BY <1>4 DEF FinishAcquire
  <2>2. ASSUME NEW h \in holds', h \notin holds
        PROVE  file[h.area] = [run |-> h.run, ts |-> h.ts]
    <3>1. PICK a \in op[m].want :
            h = [mgr |-> m, run |-> op[m].run, area |-> a, ts |-> file[a].ts]
      BY <1>4, <2>2 DEF FinishAcquire
    <3>2. OwnedBy(file[a], op[m].run)
      BY <1>4, <3>1 DEF TakenInv, FinishAcquire
    <3> QED
      BY <3>1, <3>2 DEF OwnedBy, LockOwner
  <2> QED
    BY <2>1, <2>2 DEF GrantBacked, Expired
<1>5. ASSUME NEW m \in Managers, NEW r \in Runs, Release(m, r)
      PROVE  GrantBacked'
  <2>1. ASSUME NEW h \in holds', file'[h.area] # file[h.area]
        PROVE  Expired(h)
    <3>1. h \in holds /\ h.run # r
      BY <1>5, <2>1 DEF DriverInv, Release
    <3>2. OwnedBy(file[h.area], r)
      BY <1>5, <2>1, <3>1 DEF TypeOK, Hold, Release
    <3>3. file[h.area] # [run |-> h.run, ts |-> h.ts]
      BY <3>1, <3>2 DEF OwnedBy
    <3> QED
      BY <3>1, <3>3 DEF GrantBacked
  <2> QED
    BY <1>0, <1>5, <2>1 DEF Release
<1>6. ASSUME NEW m \in Managers, Start(m)
      PROVE  GrantBacked'
  BY <1>0, <1>6 DEF Start
<1>7. ASSUME NEW m \in Managers, Crash(m)
      PROVE  GrantBacked'
  <2>1. ASSUME NEW h \in holds', file'[h.area] # file[h.area]
        PROVE  Expired(h)
    <3>1. h \in holds /\ file[h.area] = None
      BY <1>7, <2>1 DEF TypeOK, Hold, Crash
    <3>2. [run |-> h.run, ts |-> h.ts] \in LockOwner
      BY <3>1 DEF TypeOK, Hold, LockOwner
    <3> QED
      BY <3>1, <3>2, AreaLocksAssumption DEF GrantBacked
  <2> QED
    BY <1>0, <1>7, <2>1 DEF Crash
<1>8. CASE Tick
  <2>1. ASSUME NEW h \in holds, clock - h.ts > Ttl
        PROVE  clock' - h.ts > Ttl
    <3>1. h.ts \in Nat /\ clock \in Nat /\ clock' = clock + 1 /\ Ttl \in Nat
      BY <1>8, AreaLocksAssumption DEF TypeOK, Hold, Tick
    <3> QED
      BY <2>1, <3>1
  <2> QED
    BY <1>8, <2>1 DEF GrantBacked, Expired, Tick
<1>9. CASE UNCHANGED vars
  BY <1>0, <1>9 DEF vars
<1> QED
  BY <1>1, <1>2, <1>3, <1>4, <1>5, <1>6, <1>7, <1>8, <1>9 DEF Next

LEMMA TakenStep ==
  ASSUME IInv, [Next]_vars
  PROVE  TakenInv'
<1> USE DEF IInv
<1>0. ASSUME op' = op, built' = built, guard' = guard,
             \A m \in Managers : op[m] = None
      PROVE  TakenInv'
  BY <1>0 DEF TakenInv
<1>1. ASSUME NEW m \in Managers, NEW r \in Runs, NEW want \in SUBSET AllAreas,
             BeginAcquire(m, r, want)
      PROVE  TakenInv'
  <2>1. \A n \in Managers : n # m => op'[n] = None
    BY <1>1, AreaLocksAssumption DEF TypeOK, GuardInv, BeginAcquire
  <2>2. op'[m].want = op'[m].todo /\ op'[m].made = {}
    BY <1>1 DEF TypeOK, BeginAcquire
  <2> QED
    BY <2>1, <2>2 DEF TakenInv
<1>2. ASSUME NEW m \in Managers, NEW a \in AllAreas, TakeArea(m, a)
      PROVE  TakenInv'
  <2>1. op[m] # None /\ op[m] \in Operation /\ a \in op[m].todo
    BY <1>2, OperationShape DEF TakeArea
  <2>2. \A n \in Managers : n # m => op'[n] = None
    BY <1>2 DEF TypeOK, GuardInv, TakeArea
  <2>3. PICK r \in Runs : r = op[m].run
    BY <2>1 DEF Operation
  <2>4. /\ op'[m].run = r /\ op'[m].want = op[m].want
        /\ op'[m].todo = op[m].todo \ {a}
        /\ op'[m].made \subseteq op[m].made \cup {a}
    BY <1>2, <2>1, <2>3 DEF TypeOK, Operation, TakeArea
  <2>5. OwnedBy(file'[a], r)
    <3>1. [run |-> r, ts |-> built[m]] \in LockOwner
      BY DEF TypeOK, LockOwner
    <3> QED
      BY <1>2, <2>3, <3>1 DEF TypeOK, TakeArea, OwnedBy
  <2>6. \A b \in AllAreas : b # a => file'[b] = file[b]
    BY <1>2 DEF TypeOK, TakeArea
  <2>7. built' = built
    BY <1>2 DEF TakeArea
  <2>8. ASSUME NEW b \in AllAreas, ~ Conflicts(m, b, r)
        PROVE  ~ Conflicts(m, b, r)'
    <3>1. Candidates(b) \subseteq AllAreas
      BY DEF Candidates, AllAreas
    <3> QED
      BY <2>5, <2>6, <2>7, <2>8, <3>1 DEF Conflicts, Stale, OwnedBy
  <2>9. ASSUME NEW b \in op'[m].want \ op'[m].todo
        PROVE  OwnedBy(file'[b], r) /\ ~ Conflicts(m, b, r)'
    <3>1. b \in AllAreas /\ (b = a \/ b \in op[m].want \ op[m].todo)
      BY <2>1, <2>4, <2>9 DEF Operation
    <3>2. OwnedBy(file'[b], r)
      BY <2>1, <2>3, <2>5, <2>6, <3>1 DEF TakenInv
    <3>3. ~ Conflicts(m, b, r)
      BY <1>2, <2>1, <2>3, <3>1 DEF TakenInv, TakeArea
    <3> QED
      BY <2>8, <3>1, <3>2, <3>3
  <2>10. op[m].todo \subseteq op[m].want /\ op[m].made \subseteq op[m].want \ op[m].todo
    BY <2>1 DEF TakenInv
  <2>11. op'[m].todo \subseteq op'[m].want /\ op'[m].made \subseteq op'[m].want \ op'[m].todo
    BY <2>1, <2>4, <2>10
  <2> QED
    BY <2>2, <2>4, <2>9, <2>11 DEF TakenInv
<1>3. ASSUME NEW m \in Managers, NEW a \in AllAreas, RefuseArea(m, a)
      PROVE  TakenInv'
  <2>1. \A n \in Managers : op'[n] = None
    BY <1>3 DEF TypeOK, GuardInv, RefuseArea
  <2> QED
    BY <2>1 DEF TakenInv
<1>4. ASSUME NEW m \in Managers, FinishAcquire(m)
      PROVE  TakenInv'
  <2>1. \A n \in Managers : op'[n] = None
    BY <1>4 DEF TypeOK, GuardInv, FinishAcquire
  <2> QED
    BY <2>1 DEF TakenInv
<1>5. ASSUME NEW m \in Managers, NEW r \in Runs, Release(m, r)
      PROVE  TakenInv'
  <2>1. \A n \in Managers : op'[n] = None
    BY <1>5, AreaLocksAssumption DEF TypeOK, GuardInv, Release
  <2> QED
    BY <2>1 DEF TakenInv
<1>6. ASSUME NEW m \in Managers, Start(m)
      PROVE  TakenInv'
  <2>1. op[m] = None
    BY <1>6 DEF AliveInv, Start
  <2>2. ASSUME NEW n \in Managers, op[n] # None, NEW b, NEW r, ~ Conflicts(n, b, r)
        PROVE  ~ Conflicts(n, b, r)'
    BY <1>6, <2>1, <2>2 DEF TypeOK, Conflicts, Stale, Start
  <2> QED
    BY <1>6, <2>2 DEF TakenInv, Start
<1>7. ASSUME NEW m \in Managers, Crash(m)
      PROVE  TakenInv'
  <2>1. ASSUME NEW n \in Managers, op'[n] # None
        PROVE  n # m /\ op[n] = op'[n] /\ file' = file /\ built' = built
    BY <1>7, <2>1 DEF TypeOK, GuardInv, Crash
  <2>2. ASSUME NEW n \in Managers, op'[n] # None, NEW b, NEW r, ~ Conflicts(n, b, r)
        PROVE  ~ Conflicts(n, b, r)'
    BY <2>1, <2>2 DEF Conflicts, Stale
  <2> QED
    BY <2>1, <2>2 DEF TakenInv
<1>8. CASE Tick
  BY <1>8 DEF TakenInv, Conflicts, Stale, Tick
<1>9. CASE UNCHANGED vars
  BY <1>9 DEF TakenInv, Conflicts, Stale, vars
<1> QED
  BY <1>1, <1>2, <1>3, <1>4, <1>5, <1>6, <1>7, <1>8, <1>9 DEF Next

(* A new grant is backed by its files, and nobody who might oppose it has  *)
(* a live file: the older grants it overlaps have therefore expired.       *)
LEMMA ExclusionStep ==
  ASSUME IInv, [Next]_vars
  PROVE  AreaExclusion'
<1> USE DEF IInv
<1>0. ASSUME holds' \subseteq holds, clock' = clock
      PROVE  AreaExclusion'
  BY <1>0 DEF AreaExclusion, Expired
<1>1. ASSUME NEW m \in Managers, FinishAcquire(m)
      PROVE  AreaExclusion'
  <2>1. op[m] # None /\ op[m] \in Operation /\ op[m].todo = {} /\ clock' = clock
    BY <1>1, OperationShape DEF FinishAcquire
  <2>2. \A h \in holds' : h \in holds \/ (h.run = op[m].run /\ h.area \in op[m].want)
    BY <1>1 DEF FinishAcquire
  <2>3. ASSUME NEW k \in holds, NEW a \in op[m].want, Overlap(a, k.area)
        PROVE  Expired(k)
    <3>1. k.run # op[m].run /\ k \in Hold
      BY <2>1 DEF DriverInv, TypeOK
    <3>2. OwnedBy(file[a], op[m].run) /\ ~ Conflicts(m, a, op[m].run)
      BY <2>1 DEF TakenInv
    <3>3. CASE file[k.area] = [run |-> k.run, ts |-> k.ts]
      <4>1. file[k.area] \in LockOwner /\ file[k.area].run = k.run /\ file[k.area].ts = k.ts
        BY <3>1, <3>3 DEF Hold, LockOwner
      <4>2. k.area # a
        BY <3>1, <3>2, <4>1 DEF OwnedBy
      <4>3. k.area \in Candidates(a)
        BY <2>1, <2>3, <3>1, <4>2 DEF Overlap, Candidates, Hold, AllAreas
      <4>4. Stale(m, file[k.area])
        BY <3>1, <3>2, <4>1, <4>3 DEF Conflicts
      <4>5. clock - file[k.area].ts > Ttl
        BY <4>1, <4>4, StaleIsExpired
      <4> QED
        BY <4>1, <4>5 DEF Expired
    <3> QED
      BY <3>3 DEF GrantBacked
  <2>4. ASSUME NEW h \in holds', NEW k \in holds', h.run # k.run, Overlap(h.area, k.area)
        PROVE  Expired(h)' \/ Expired(k)'
    <3>1. CASE h \in holds /\ k \in holds
      BY <2>1, <2>4, <3>1 DEF AreaExclusion, Expired
    <3>2. CASE h \in holds /\ k \notin holds
      <4>1. k.area \in op[m].want /\ Overlap(k.area, h.area)
        BY <2>2, <2>4, <3>2 DEF Overlap
      <4> QED
        BY <2>1, <2>3, <3>2, <4>1 DEF Expired
    <3>3. CASE h \notin holds /\ k \in holds
      <4>1. h.area \in op[m].want
        BY <2>2, <3>3
      <4> QED
        BY <2>1, <2>3, <2>4, <3>3, <4>1 DEF Expired
    <3> QED
      BY <2>2, <2>4, <3>1, <3>2, <3>3
  <2> QED
    BY <2>4 DEF AreaExclusion
<1>2. ASSUME Tick
      PROVE  AreaExclusion'
  <2>1. ASSUME NEW h \in holds, clock - h.ts > Ttl
        PROVE  clock' - h.ts > Ttl
    <3>1. h.ts \in Nat /\ clock \in Nat /\ clock' = clock + 1 /\ Ttl \in Nat
      BY <1>2, AreaLocksAssumption DEF TypeOK, Hold, Tick
    <3> QED
      BY <2>1, <3>1
  <2> QED
    BY <1>2, <2>1 DEF AreaExclusion, Expired, Tick
<1>3. CASE UNCHANGED vars
  BY <1>0, <1>3 DEF vars
<1>4. ASSUME NEW m \in Managers, NEW r \in Runs, NEW want \in SUBSET AllAreas,
             BeginAcquire(m, r, want)
      PROVE  AreaExclusion'
  BY <1>0, <1>4 DEF BeginAcquire
<1>5. ASSUME NEW m \in Managers, NEW a \in AllAreas, TakeArea(m, a) \/ RefuseArea(m, a)
      PROVE  AreaExclusion'
  BY <1>0, <1>5 DEF TakeArea, RefuseArea
<1>6. ASSUME NEW m \in Managers, NEW r \in Runs, Release(m, r)
      PROVE  AreaExclusion'
  BY <1>0, <1>6 DEF Release
<1>7. ASSUME NEW m \in Managers, Start(m) \/ Crash(m)
      PROVE  AreaExclusion'
  BY <1>0, <1>7 DEF Start, Crash
<1> QED
  BY <1>1, <1>2, <1>3, <1>4, <1>5, <1>6, <1>7 DEF Next

(* Without a crash every file is that of a grant or was made by the        *)
(* acquisition under way, which takes back what it made if it is refused.  *)
LEMMA LeakStep ==
  ASSUME IInv, NoLeakedLock, [Next]_vars
  PROVE  NoLeakedLock'
<1> USE DEF IInv
<1> DEFINE Kept(a) == \E h \in holds : h.area = a /\ OwnedBy(file[a], h.run)
           Made(a) == \E m \in Managers :
                        op[m] # None /\ a \in op[m].made /\ OwnedBy(file[a], op[m].run)
<1>0. ASSUME crashes' = crashes,
             crashes = 0 => \A a \in AllAreas : file'[a] # None => Kept(a)' \/ Made(a)'
      PROVE  NoLeakedLock'
  BY <1>0 DEF NoLeakedLock
<1>1. ASSUME file' = file, holds' = holds, crashes' = crashes,
             \A m \in Managers : op[m] # None => op'[m] = op[m]
      PROVE  NoLeakedLock'
  BY <1>1 DEF NoLeakedLock
<1>2. ASSUME NEW m \in Managers, NEW r \in Runs, NEW want \in SUBSET AllAreas,
             BeginAcquire(m, r, want)
      PROVE  NoLeakedLock'
  <2>1. \A n \in Managers : op[n] # None => op'[n] = op[n]
    BY <1>2 DEF TypeOK, BeginAcquire
  <2> QED
    BY <1>1, <1>2, <2>1 DEF BeginAcquire
<1>3. ASSUME NEW m \in Managers, NEW a \in AllAreas, TakeArea(m, a)
      PROVE  NoLeakedLock'
  <2> DEFINE free == file[a] = None \/ (Stale(m, file[a]) /\ ~ OwnedBy(file[a], op[m].run))
             grown == IF free THEN op[m].made \cup {a} ELSE op[m].made
  <2>1. op[m] # None /\ op[m] \in Operation /\ op[m].run \in Runs
    BY <1>3, OperationShape DEF TakeArea
  <2>2. /\ op'[m].run = op[m].run /\ op'[m].made = grown
        /\ op'[m] # None
        /\ \A n \in Managers : n # m => op'[n] = op[n]
    <3>1. op' = [op EXCEPT ![m] = [op[m] EXCEPT !.todo = @ \ {a}, !.made = grown]]
      BY <1>3 DEF TypeOK, Operation, TakeArea
    <3>2. /\ [op[m] EXCEPT !.todo = @ \ {a}, !.made = grown].run = op[m].run
          /\ [op[m] EXCEPT !.todo = @ \ {a}, !.made = grown].made = grown
      BY <2>1 DEF Operation
    <3>3. op'[m] # None
      <4>1. op'[m] = [op[m] EXCEPT !.todo = @ \ {a}, !.made = grown] /\ grown \in SUBSET AllAreas
        BY <2>1, <3>1 DEF TypeOK, Operation
      <4>2. op'[m] \in Operation
        BY <2>1, <4>1 DEF Operation
      <4> QED
        BY <4>2, NoneIsNoOperation
    <3> QED
      BY <3>1, <3>2, <3>3 DEF TypeOK
  <2>3. ASSUME NEW b \in AllAreas, file'[b] # None, crashes = 0
        PROVE  Kept(b)' \/ Made(b)'
    <3>1. CASE b = a /\ free
      <4>1. file'[a] = [run |-> op[m].run, ts |-> built[m]]
        BY <1>3, <3>1 DEF TypeOK, TakeArea
      <4>2. OwnedBy(file'[a], op'[m].run)
        BY <2>1, <2>2, <4>1 DEF TypeOK, OwnedBy, LockOwner
      <4> QED
        BY <2>2, <3>1, <4>2
    <3>2. CASE b # a \/ ~free
      <4>1. file'[b] = file[b] /\ holds' = holds
        BY <1>3, <3>2 DEF TypeOK, TakeArea
      <4>2. Kept(b) \/ Made(b)
        BY <2>3, <4>1 DEF NoLeakedLock
      <4>3. CASE Kept(b)
        BY <4>1, <4>3
      <4>4. CASE Made(b)
        <5>1. PICK n \in Managers :
                op[n] # None /\ b \in op[n].made /\ OwnedBy(file[b], op[n].run)
          BY <4>4
        <5>2. op'[n] # None /\ b \in op'[n].made /\ op'[n].run = op[n].run
          BY <2>2, <5>1
        <5> QED
          BY <4>1, <5>1, <5>2
      <4> QED
        BY <4>2, <4>3, <4>4
    <3> QED
      BY <3>1, <3>2
  <2> QED
    BY <1>0, <1>3, <2>3 DEF TakeArea
<1>4. ASSUME NEW m \in Managers, NEW a \in AllAreas, RefuseArea(m, a)
      PROVE  NoLeakedLock'
  <2>1. ASSUME NEW b \in AllAreas, file'[b] # None, crashes = 0
        PROVE  Kept(b)'
    <3>1. file'[b] = file[b] /\ b \notin op[m].made /\ holds' = holds
      BY <1>4, <2>1 DEF TypeOK, RefuseArea
    <3>2. ~ Made(b)
      BY <1>4, <3>1 DEF GuardInv, RefuseArea
    <3> QED
      BY <2>1, <3>1, <3>2 DEF NoLeakedLock
  <2> QED
    BY <1>0, <1>4, <2>1 DEF RefuseArea
<1>5. ASSUME NEW m \in Managers, FinishAcquire(m)
      PROVE  NoLeakedLock'
  <2>1. ASSUME NEW b \in AllAreas, file'[b] # None, crashes = 0
        PROVE  Kept(b)'
    <3>1. file' = file /\ holds \subseteq holds' /\ (Kept(b) \/ Made(b))
      BY <1>5, <2>1 DEF NoLeakedLock, FinishAcquire
    <3>2. CASE Kept(b)
      BY <3>1, <3>2
    <3>3. CASE Made(b)
      <4>1. b \in op[m].made /\ OwnedBy(file[b], op[m].run) /\ op[m] # None
        BY <1>5, <3>3 DEF GuardInv, FinishAcquire
      <4>2. b \in op[m].want
        BY <4>1 DEF TakenInv
      <4>3. [mgr |-> m, run |-> op[m].run, area |-> b, ts |-> file[b].ts] \in holds'
        BY <1>5, <4>2 DEF FinishAcquire
      <4> QED
        BY <3>1, <4>1, <4>3
    <3> QED
      BY <3>1, <3>2, <3>3
  <2> QED
    BY <1>0, <1>5, <2>1 DEF FinishAcquire
<1>6. ASSUME NEW m \in Managers, NEW r \in Runs, Release(m, r)
      PROVE  NoLeakedLock'
  <2>1. ASSUME NEW b \in AllAreas, file'[b] # None, crashes = 0
        PROVE  Kept(b)' \/ Made(b)'
    <3>1. /\ file'[b] = file[b] /\ op' = op
          /\ ~ (OwnedBy(file[b], r) /\ \E h \in holds : h.mgr = m /\ h.run = r /\ h.area = b)
      BY <1>6, <2>1 DEF TypeOK, Release
    <3>2. CASE Made(b)
      BY <3>1, <3>2
    <3>3. CASE Kept(b)
      <4>1. PICK h \in holds : h.area = b /\ OwnedBy(file[b], h.run)
        BY <3>3
      <4>2. h \in holds'
        BY <1>6, <3>1, <4>1 DEF Release
      <4> QED
        BY <3>1, <4>1, <4>2
    <3> QED
      BY <2>1, <3>1, <3>2, <3>3 DEF NoLeakedLock
  <2> QED
    BY <1>0, <1>6, <2>1 DEF Release
<1>7. ASSUME NEW m \in Managers, Start(m)
      PROVE  NoLeakedLock'
  BY <1>1, <1>7 DEF Start
<1>8. ASSUME NEW m \in Managers, Crash(m)
      PROVE  NoLeakedLock'
  <2>1. crashes' # 0
    BY <1>8 DEF TypeOK, Crash
  <2> QED
    BY <2>1 DEF NoLeakedLock
<1>9. CASE Tick
  BY <1>1, <1>9 DEF Tick
<1>10. CASE UNCHANGED vars
  BY <1>1, <1>10 DEF vars
<1> QED
  BY <1>2, <1>3, <1>4, <1>5, <1>6, <1>7, <1>8, <1>9, <1>10 DEF Next

LEMMA InitIInv == Init => IInv
<1> SUFFICES ASSUME Init PROVE IInv
  OBVIOUS
<1>1. TypeOK
  BY DEF Init, TypeOK
<1> QED
  BY <1>1 DEF Init, IInv, GuardInv, AliveInv, BuiltInv, DriverInv, GrantBacked, TakenInv, AreaExclusion

(* IInv holds of every behaviour.                                          *)
THEOREM Invariance == Spec => []IInv
<1>1. IInv /\ [Next]_vars => IInv'
  BY TypeStep, GuardStep, DriverStep, BackedStep, TakenStep, ExclusionStep DEF IInv
<1> QED
  BY InitIInv, <1>1, PTL DEF Spec

(* Every variable keeps its type.                                          *)
THEOREM TypeCorrect == Spec => []TypeOK
BY Invariance, PTL DEF IInv

(* Two runs hold overlapping areas only when one of the lock files they    *)
(* were granted on is older than the TTL (locks/manager.rs, acquire.rs).   *)
THEOREM Exclusion == Spec => []AreaExclusion
BY Invariance, PTL DEF IInv

(* A grant younger than the TTL is backed by its own lock file.            *)
THEOREM Backed == Spec => []GrantBacked
BY Invariance, PTL DEF IInv

(* Without a crash no lock file outlives its grant: a refused request and  *)
(* a late release leave nothing behind (locks/manager.rs).                 *)
THEOREM NothingLeaks == Spec => []NoLeakedLock
<1>1. Init => NoLeakedLock
  BY DEF Init, NoLeakedLock
<1>2. IInv /\ NoLeakedLock /\ [Next]_vars => NoLeakedLock'
  BY LeakStep
<1> QED
  BY Invariance, <1>1, <1>2, PTL DEF Spec

-----------------------------------------------------------------------------
(***************************************************************************)
(* AgentQueue, for every set of tasks, sessions, budgets and wants, every  *)
(* TTL and every wait for the lock: the type invariant, that agents stay   *)
(* idle only when nobody may have them, that tasks start in the order of   *)
(* the file, and that what a caller was told stays reserved.               *)
(*                                                                         *)
(* The allocation and the dropping of reservations are recursive functions *)
(* over the list.  Recursion proves that such a function exists; what it   *)
(* computes is shown place by place with CountUp.                          *)
(***************************************************************************)

(* Every set of numbers has a least one.  Intervals stand for their upper  *)
(* ends: of finite sets, a nonempty set has one that includes no other.    *)
LEMMA LeastNumber ==
  ASSUME NEW S \in SUBSET Nat, S # {}
  PROVE  \E m \in S : \A n \in S : ~ (n < m)
<1> DEFINE R == StrictSubsetOrdering(Nat)
           T == {1 .. n : n \in S}
<1>1. IsWellFoundedOn(R, FiniteSubsetsOf(Nat))
  BY FS_StrictSubsetOrderingWellFounded
<1>2. T \subseteq FiniteSubsetsOf(Nat) /\ T # {}
  <2>1. \A n \in Nat : IsFiniteSet(1 .. n) /\ 1 .. n \subseteq Nat
    BY FS_Interval
  <2> QED BY <2>1 DEF FiniteSubsetsOf
<1>3. ASSUME NEW m \in S, NEW n \in S, n < m
      PROVE  <<1 .. n, 1 .. m>> \in R
  <2>1. 1 .. n \subseteq 1 .. m /\ m \in 1 .. m /\ m \notin 1 .. n
    BY <1>3
  <2>2. 1 .. n \in SUBSET Nat /\ 1 .. m \in SUBSET Nat
    OBVIOUS
  <2> QED BY <2>1, <2>2 DEF StrictSubsetOrdering
<1>4. \E x \in T : \A y \in T : ~ (<<y, x>> \in R)
  <2> HIDE DEF T, R
  <2> QED BY <1>1, <1>2, WFMin
<1>5. PICK m \in S : \A y \in T : ~ (<<y, 1 .. m>> \in R)
  BY <1>4
<1> QED BY <1>3, <1>5

(* Counting up to N.                                                       *)
LEMMA CountUp ==
  ASSUME NEW N \in Nat, NEW S, 0 \in S, \A i \in 1 .. N : i - 1 \in S => i \in S
  PROVE  \A i \in 0 .. N : i \in S
<1> SUFFICES ASSUME NEW k \in 0 .. N, k \notin S PROVE FALSE
  OBVIOUS
<1> DEFINE T == {i \in 0 .. N : i \notin S}
<1>1. T \in SUBSET Nat /\ T # {}
  OBVIOUS
<1>2. PICK m \in T : \A n \in T : ~ (n < m)
  <2> HIDE DEF T
  <2> QED BY <1>1, LeastNumber
<1>3. m # 0 /\ m \in 1 .. N /\ m - 1 \in 0 .. N /\ m - 1 < m
  BY <1>2
<1> QED BY <1>2, <1>3

(* A function that a step defines from one number to the next exists.      *)
StepOn(step, N, S) == step \in [(1 .. N) \X S -> S]
Follows(g, step, s, N, S) ==
  g \in [0 .. N -> S] /\ g[0] = s /\ \A i \in 1 .. N : g[i] = step[<<i, g[i - 1]>>]
LEMMA Recursion ==
  ASSUME NEW N \in Nat, NEW S, NEW s \in S, NEW step, StepOn(step, N, S)
  PROVE  \E g : Follows(g, step, s, N, S)
<1> USE DEF StepOn, Follows
<1> DEFINE Up(n, g) == g[0] = s /\ \A i \in 1 .. n : g[i] = step[<<i, g[i - 1]>>]
           T == {n \in 0 .. N : \E g \in [0 .. n -> S] : Up(n, g)}
<1>1. 0 \in T
  <2>1. [i \in 0 .. 0 |-> s] \in [0 .. 0 -> S] /\ Up(0, [i \in 0 .. 0 |-> s])
    OBVIOUS
  <2>2. \E g \in [0 .. 0 -> S] : Up(0, g)
    <3> HIDE DEF Up
    <3> QED BY <2>1
  <2> HIDE DEF Up
  <2> QED BY <2>2
<1>2. ASSUME NEW n \in 1 .. N, n - 1 \in T PROVE n \in T
  <2>1. PICK g \in [0 .. n - 1 -> S] : Up(n - 1, g)
    BY <1>2
  <2>2. n - 1 \in 0 .. n - 1 /\ g[n - 1] \in S
    BY <2>1
  <2>3. step[<<n, g[n - 1]>>] \in S
    BY <2>2
  <2> DEFINE h == [i \in 0 .. n |-> IF i = n THEN step[<<n, g[n - 1]>>] ELSE g[i]]
  <2>4. h \in [0 .. n -> S]
    BY <2>3
  <2>5. h[0] = s
    BY <2>1
  <2>6. h[n] = step[<<n, h[n - 1]>>]
    <3>1. h[n] = step[<<n, g[n - 1]>>] /\ h[n - 1] = g[n - 1]
      OBVIOUS
    <3> HIDE DEF h
    <3> QED BY <3>1
  <2>7. ASSUME NEW i \in 1 .. n - 1 PROVE h[i] = step[<<i, h[i - 1]>>]
    BY <2>1
  <2>8. \A i \in 1 .. n : i = n \/ i \in 1 .. n - 1
    OBVIOUS
  <2>9. Up(n, h)
    <3> HIDE DEF h
    <3> QED BY <2>5, <2>6, <2>7, <2>8
  <2>10. \E e \in [0 .. n -> S] : Up(n, e)
    <3> HIDE DEF Up, h
    <3> QED BY <2>4, <2>9
  <2> QED BY <2>10
<1>3. \A i \in 0 .. N : i \in T
  <2> HIDE DEF T
  <2> QED BY <1>1, <1>2, CountUp
<1>4. N \in T
  BY <1>3
<1> QED BY <1>4

-----------------------------------------------------------------------------
(* Min and Max of two numbers.                                             *)
LEMMA TwoNumbers ==
  ASSUME NEW a \in Int, NEW b \in Int
  PROVE  /\ Min({a, b}) = IF a <= b THEN a ELSE b
         /\ Max({a, b}) = IF a <= b THEN b ELSE a
BY DEF Min, Max

(* Sums are those of the amounts before, and one more.                     *)
Adds(a, N) ==
  /\ Sums(a) \in [0 .. N -> Nat] /\ Sums(a)[0] = 0
  /\ \A i \in 1 .. N : Sums(a)[i] = Sums(a)[i - 1] + a[i]
  /\ Total(a) = Sums(a)[N]
LEMMA SumsDef == ASSUME NEW N \in Nat, NEW a \in [1 .. N -> Nat] PROVE Adds(a, N)
<1> DEFINE Eq(g) == g = [i \in 0 .. Len(a) |-> IF i = 0 THEN 0 ELSE g[i - 1] + a[i]]
           step == [p \in (1 .. N) \X Nat |-> p[2] + a[p[1]]]
<1>1. Len(a) = N
  OBVIOUS
<1>2. step \in [(1 .. N) \X Nat -> Nat]
  OBVIOUS
<1>3. PICK g \in [0 .. N -> Nat] : g[0] = 0 /\ \A i \in 1 .. N : g[i] = step[<<i, g[i - 1]>>]
  <2>1. StepOn(step, N, Nat)
    BY <1>2 DEF StepOn
  <2> HIDE DEF step
  <2>2. \E g : Follows(g, step, 0, N, Nat)
    BY <2>1, Recursion
  <2> QED BY <2>2 DEF Follows
<1>4. \A i \in 1 .. N : g[i] = g[i - 1] + a[i]
  <2> SUFFICES ASSUME NEW i \in 1 .. N PROVE g[i] = g[i - 1] + a[i]
    OBVIOUS
  <2>1. g[i - 1] \in Nat
    OBVIOUS
  <2>2. step[<<i, g[i - 1]>>] = g[i - 1] + a[i]
    BY <2>1
  <2> QED BY <1>3, <2>2
<1>5. Eq(g)
  BY <1>1, <1>3, <1>4
<1>6. Sums(a) = CHOOSE h : Eq(h)
  BY DEF Sums
<1>7. Eq(Sums(a))
  <2> HIDE DEF Eq
  <2> QED BY <1>5, <1>6
<1> DEFINE h == Sums(a)
<1>8. h = [i \in 0 .. N |-> h[i]] /\ h[0] = 0 /\ \A i \in 1 .. N : h[i] = h[i - 1] + a[i]
  BY <1>1, <1>7
<1> HIDE DEF h
<1>9. \A i \in 0 .. N : h[i] \in Nat
  <2> DEFINE T == {j \in 0 .. N : h[j] \in Nat}
  <2>1. 0 \in T
    BY <1>8
  <2>2. ASSUME NEW i \in 1 .. N, i - 1 \in T PROVE i \in T
    <3>1. h[i] = h[i - 1] + a[i] /\ h[i - 1] \in Nat /\ a[i] \in Nat
      BY <1>8, <2>2
    <3> QED BY <3>1
  <2> HIDE DEF T
  <2>3. \A i \in 0 .. N : i \in T
    BY <2>1, <2>2, CountUp
  <2> QED BY <2>3 DEF T
<1> QED BY <1>1, <1>8, <1>9 DEF h, Total, Adds

-----------------------------------------------------------------------------
(* A step of Serving: what one reservation gets, and what is left then.    *)
Counts == [gets : Nat, free : Nat, active : Nat]
Gets(r, before, waiting, places) == Min({Ask(r, waiting, before.active, places), before.free})
After(r, before, waiting, places) ==
  LET n == Gets(r, before, waiting, places)
  IN  [gets |-> n, free |-> before.free - n,
       active |-> before.active + IF r.granted = 0 /\ n > 0 THEN 1 ELSE 0]

LEMMA Fields ==
  ASSUME NEW r \in Reservation
  PROVE  /\ r.task \in Tasks /\ r.want \in Wants /\ r.want \in 1 .. U32Max /\ r.granted \in Nat
         /\ r.session \in Owners /\ r.age \in 0 .. MaxAge
BY QueueAssumption DEF Reservation

LEMMA AskType ==
  ASSUME NEW r \in Reservation, NEW waiting \in BOOLEAN, NEW places \in Nat, NEW active \in Nat
  PROVE  Ask(r, waiting, active, places) \in Nat
BY Fields, QueueAssumption DEF Ask, Monus

LEMMA AfterType ==
  ASSUME NEW r \in Reservation, NEW waiting \in BOOLEAN, NEW places \in Nat, NEW before \in Counts
  PROVE  /\ After(r, before, waiting, places) \in Counts
         /\ Gets(r, before, waiting, places) =
              IF Ask(r, waiting, before.active, places) <= before.free
              THEN Ask(r, waiting, before.active, places) ELSE before.free
<1> DEFINE ask == Ask(r, waiting, before.active, places)
           n == Gets(r, before, waiting, places)
<1>1. before.active \in Nat /\ before.free \in Nat
  BY DEF Counts
<1>2. ask \in Nat
  BY <1>1, AskType
<1>3. n = IF ask <= before.free THEN ask ELSE before.free
  <2> HIDE DEF ask
  <2> QED BY <1>1, <1>2, TwoNumbers DEF Gets, ask
<1>4. n \in Nat /\ before.free - n \in Nat
  <2> HIDE DEF n, ask
  <2> QED BY <1>1, <1>2, <1>3
<1>5. (IF r.granted = 0 /\ n > 0 THEN 1 ELSE 0) \in Nat
  OBVIOUS
<1> HIDE DEF n
<1> QED BY <1>1, <1>3, <1>4, <1>5 DEF After, Counts, n

(* Those who have agents can be counted.                                   *)
LEMMA ActiveFinite ==
  ASSUME NEW q \in Seq(Reservation)
  PROVE  IsFiniteSet(Active(q)) /\ Cardinality(Active(q)) \in Nat
<1>1. Active(q) \subseteq 1 .. Len(q) /\ Len(q) \in Nat
  BY DEF Active
<1>2. IsFiniteSet(1 .. Len(q))
  BY <1>1, FS_Interval
<1>3. IsFiniteSet(Active(q))
  BY <1>1, <1>2, FS_Subset
<1> QED BY <1>3, FS_CardinalityType

Serves(q, free, waiting, places) ==
  LET after == Serving(q, free, waiting, places)
  IN  /\ after \in [0 .. Len(q) -> Counts]
      /\ after[0] = [gets |-> 0, free |-> free, active |-> Cardinality(Active(q))]
      /\ \A i \in 1 .. Len(q) : after[i] = After(q[i], after[i - 1], waiting, places)
LEMMA ServingDef ==
  ASSUME NEW q \in Seq(Reservation), NEW free \in Nat, NEW waiting \in BOOLEAN, NEW places \in Nat
  PROVE  Serves(q, free, waiting, places)
<1> DEFINE N == Len(q)
           first == [gets |-> 0, free |-> free, active |-> Cardinality(Active(q))]
           Eq(g) == g = [i \in 0 .. N |->
             IF i = 0 THEN first ELSE After(q[i], g[i - 1], waiting, places)]
           step == [p \in (1 .. N) \X Counts |-> After(q[p[1]], p[2], waiting, places)]
<1>1. N \in Nat /\ \A i \in 1 .. N : q[i] \in Reservation
  OBVIOUS
<1>2. first \in Counts
  BY ActiveFinite DEF Counts
<1> HIDE DEF N, first
<1>3. step \in [(1 .. N) \X Counts -> Counts]
  BY <1>1, AfterType
<1>4. PICK g \in [0 .. N -> Counts] :
        g[0] = first /\ \A i \in 1 .. N : g[i] = step[<<i, g[i - 1]>>]
  <2>1. StepOn(step, N, Counts)
    BY <1>3 DEF StepOn
  <2> HIDE DEF step
  <2>2. \E g : Follows(g, step, first, N, Counts)
    BY <1>1, <1>2, <2>1, Recursion
  <2> QED BY <2>2 DEF Follows
<1>5. \A i \in 1 .. N : g[i] = After(q[i], g[i - 1], waiting, places)
  <2> SUFFICES ASSUME NEW i \in 1 .. N PROVE g[i] = After(q[i], g[i - 1], waiting, places)
    OBVIOUS
  <2>1. g[i - 1] \in Counts
    BY <1>1
  <2>2. step[<<i, g[i - 1]>>] = After(q[i], g[i - 1], waiting, places)
    BY <2>1
  <2> QED BY <1>4, <2>2
<1>6. Eq(g)
  BY <1>1, <1>4, <1>5
<1> DEFINE after == Serving(q, free, waiting, places)
<1>7. after = CHOOSE h : Eq(h)
  BY DEF Serving, N, first, After, Gets
<1>8. Eq(after)
  <2> HIDE DEF Eq, after
  <2> QED BY <1>6, <1>7
<1>9. /\ after = [i \in 0 .. N |-> after[i]] /\ after[0] = first
      /\ \A i \in 1 .. N : after[i] = After(q[i], after[i - 1], waiting, places)
  <2> HIDE DEF after
  <2> QED BY <1>1, <1>8
<1> HIDE DEF after
<1>10. \A i \in 0 .. N : after[i] \in Counts
  <2> DEFINE T == {j \in 0 .. N : after[j] \in Counts}
  <2>1. 0 \in T
    BY <1>1, <1>2, <1>9
  <2>2. ASSUME NEW i \in 1 .. N, i - 1 \in T PROVE i \in T
    <3>1. after[i - 1] \in Counts /\ q[i] \in Reservation
      BY <1>1, <2>2
    <3>2. After(q[i], after[i - 1], waiting, places) \in Counts
      BY <3>1, AfterType
    <3>3. i \in 0 .. N
      BY <1>1
    <3> QED BY <1>9, <3>2, <3>3
  <2> HIDE DEF T
  <2>3. \A i \in 0 .. N : i \in T
    BY <1>1, <2>1, <2>2, CountUp
  <2> QED BY <2>3 DEF T
<1> QED BY <1>1, <1>9, <1>10 DEF after, N, first, Serves

-----------------------------------------------------------------------------
(* The recursion of Retained.                                              *)
LEMMA RetainedDef ==
  ASSUME NEW q \in Seq(Reservation), NEW stay
  PROVE  /\ Retained(q, stay)[0] = <<>>
         /\ \A i \in 1 .. Len(q) :
              Retained(q, stay)[i] = IF i \in stay THEN Append(Retained(q, stay)[i - 1], q[i])
                                 ELSE Retained(q, stay)[i - 1]
<1> DEFINE N == Len(q)
           S == Seq(Reservation)
           Next1(i, x) == IF i \in stay THEN Append(x, q[i]) ELSE x
           Eq(g) == g = [i \in 0 .. N |->
             IF i = 0 THEN <<>> ELSE IF i \in stay THEN Append(g[i - 1], q[i]) ELSE g[i - 1]]
           step == [p \in (1 .. N) \X S |-> Next1(p[1], p[2])]
<1>1. N \in Nat /\ \A i \in 1 .. N : q[i] \in Reservation
  OBVIOUS
<1> HIDE DEF N
<1>2. <<>> \in S
  OBVIOUS
<1>3. \A i \in 1 .. N, x \in S : Next1(i, x) \in S
  BY <1>1
<1> HIDE DEF S
<1>4. StepOn(step, N, S)
  <2> HIDE DEF Next1
  <2>1. step \in [(1 .. N) \X S -> S]
    BY <1>3
  <2> QED BY <2>1 DEF StepOn
<1>5. PICK g : Follows(g, step, <<>>, N, S)
  <2> HIDE DEF step
  <2> QED BY <1>1, <1>2, <1>4, Recursion
<1>6. \A i \in 1 .. N : g[i] = Next1(i, g[i - 1])
  <2> SUFFICES ASSUME NEW i \in 1 .. N PROVE g[i] = Next1(i, g[i - 1])
    OBVIOUS
  <2> HIDE DEF Next1
  <2>1. g[i - 1] \in S
    BY <1>1, <1>5 DEF Follows
  <2>2. step[<<i, g[i - 1]>>] = Next1(i, g[i - 1])
    BY <2>1
  <2> HIDE DEF step
  <2> QED BY <1>5, <2>2 DEF Follows
<1>7. Eq(g)
  <2> HIDE DEF step
  <2>1. g = [i \in 0 .. N |-> g[i]] /\ g[0] = <<>>
    BY <1>5 DEF Follows
  <2> QED BY <1>1, <1>6, <2>1
<1> DEFINE k == Retained(q, stay)
<1>8. k = CHOOSE h : Eq(h)
  BY DEF Retained, N
<1>9. Eq(k)
  <2> HIDE DEF Eq, k
  <2> QED BY <1>7, <1>8
<1>10. k[0] = <<>> /\ \A i \in 1 .. N : k[i] = Next1(i, k[i - 1])
  <2> HIDE DEF k, Next1
  <2>1. k[0] = <<>>
    BY <1>1, <1>9
  <2>2. ASSUME NEW i \in 1 .. N PROVE k[i] = Next1(i, k[i - 1])
    <3>1. i \in 0 .. N /\ i # 0
      BY <1>1
    <3> QED BY <1>9, <3>1 DEF Next1
  <2> QED BY <2>1, <2>2
<1> QED BY <1>10 DEF N

(* out has the reservations of q with an index in stay, in their order.    *)
Embeds(out, q, f, stay) ==
  /\ out \in Seq(Reservation) /\ f \in [1 .. Len(out) -> stay]
  /\ \A j \in 1 .. Len(out) : out[j] = q[f[j]]
  /\ \A j, k \in 1 .. Len(out) : j < k => f[j] < f[k]
  /\ \A i \in stay : \E j \in 1 .. Len(out) : f[j] = i

LEMMA OneMoreKept ==
  ASSUME NEW q \in Seq(Reservation), NEW i \in 1 .. Len(q), NEW S \in SUBSET (1 .. i - 1),
         NEW out, NEW f, Embeds(out, q, f, S)
  PROVE  \E g : Embeds(Append(out, q[i]), q, g, S \cup {i})
<1> DEFINE n == Len(out) + 1
           new == Append(out, q[i])
           g == [j \in 1 .. n |-> IF j = n THEN i ELSE f[j]]
<1>1. out \in Seq(Reservation) /\ q[i] \in Reservation /\ Len(out) \in Nat
  BY DEF Embeds
<1>2. /\ new \in Seq(Reservation) /\ Len(new) = n /\ new[n] = q[i]
      /\ \A j \in 1 .. Len(out) : new[j] = out[j]
  BY <1>1
<1>3. \A j \in 1 .. n : j = n \/ j \in 1 .. Len(out)
  BY <1>1
<1>4. \A j \in 1 .. Len(out) : f[j] \in S /\ f[j] < i
  <2>1. \A j \in 1 .. Len(out) : f[j] \in S
    BY DEF Embeds
  <2>2. \A x \in S : x < i
    OBVIOUS
  <2> QED BY <2>1, <2>2
<1>5. n \in 1 .. n /\ \A j \in 1 .. Len(out) : j \in 1 .. n /\ j < n
  BY <1>1
<1>6. g[n] = i /\ \A j \in 1 .. Len(out) : g[j] = f[j]
  BY <1>5
<1>7. g \in [1 .. n -> S \cup {i}]
  BY <1>3, <1>4
<1> HIDE DEF g, new
<1>8. \A j \in 1 .. n : new[j] = q[g[j]]
  BY <1>2, <1>3, <1>6 DEF Embeds
<1>9. \A j, k \in 1 .. n : j < k => g[j] < g[k]
  <2> SUFFICES ASSUME NEW j \in 1 .. n, NEW k \in 1 .. n, j < k PROVE g[j] < g[k]
    OBVIOUS
  <2>1. j \in 1 .. Len(out)
    BY <1>1
  <2> QED BY <1>3, <1>4, <1>6, <2>1 DEF Embeds
<1>10. \A x \in S \cup {i} : \E j \in 1 .. n : g[j] = x
  BY <1>5, <1>6 DEF Embeds
<1>11. Embeds(new, q, g, S \cup {i})
  BY <1>2, <1>7, <1>8, <1>9, <1>10 DEF Embeds
<1> QED BY <1>11 DEF new

(* What is kept.                                                           *)
LEMMA OnlyKeeps ==
  ASSUME NEW q \in Seq(Reservation), NEW stay \in SUBSET DOMAIN q
  PROVE  \E f : Embeds(Only(q, stay), q, f, stay)
<1> DEFINE N == Len(q)
           T == {i \in 0 .. N : \E f : Embeds(Retained(q, stay)[i], q, f, stay \cap (1 .. i))}
<1>1. N \in Nat /\ DOMAIN q = 1 .. N
  OBVIOUS
<1>2. 0 \in T
  <2> DEFINE f == [j \in 1 .. 0 |-> 0]
  <2>1. stay \cap (1 .. 0) = {} /\ Len(<<>>) = 0 /\ <<>> \in Seq(Reservation)
    OBVIOUS
  <2>2. Embeds(<<>>, q, f, {})
    BY <2>1 DEF Embeds
  <2>3. Retained(q, stay)[0] = <<>>
    BY RetainedDef
  <2> HIDE DEF f
  <2> QED BY <1>1, <2>1, <2>2, <2>3
<1>3. ASSUME NEW i \in 1 .. N, i - 1 \in T PROVE i \in T
  <2>1. PICK f : Embeds(Retained(q, stay)[i - 1], q, f, stay \cap (1 .. i - 1))
    BY <1>3
  <2>2. CASE i \in stay
    <3>1. stay \cap (1 .. i) = (stay \cap (1 .. i - 1)) \cup {i}
      BY <2>2
    <3>2. \E g : Embeds(Append(Retained(q, stay)[i - 1], q[i]), q, g, (stay \cap (1 .. i - 1)) \cup {i})
      BY <2>1, OneMoreKept
    <3>3. Retained(q, stay)[i] = Append(Retained(q, stay)[i - 1], q[i])
      BY <2>2, RetainedDef
    <3>4. \E g : Embeds(Retained(q, stay)[i], q, g, stay \cap (1 .. i))
      BY <3>1, <3>2, <3>3
    <3> QED BY <1>1, <3>4
  <2>3. CASE i \notin stay
    <3>1. stay \cap (1 .. i) = stay \cap (1 .. i - 1)
      BY <2>3
    <3>2. Retained(q, stay)[i] = Retained(q, stay)[i - 1]
      BY <2>3, RetainedDef
    <3>3. Embeds(Retained(q, stay)[i], q, f, stay \cap (1 .. i))
      BY <2>1, <3>1, <3>2
    <3> QED BY <1>1, <3>3
  <2> QED BY <2>2, <2>3
<1> HIDE DEF T
<1>4. \A i \in 0 .. N : i \in T
  BY <1>1, <1>2, <1>3, CountUp
<1>5. N \in T /\ stay \cap (1 .. N) = stay
  BY <1>1, <1>4
<1> QED BY <1>5 DEF T, Only

-----------------------------------------------------------------------------
(* Nobody has more agents than it wants; who has agents comes before who   *)
(* has none; a task has one reservation; two reservations are of the same  *)
(* task, session and age and want the same.                                *)
Modest(q) == \A i \in DOMAIN q : q[i].granted <= q[i].want
Ordered(q) ==
  \A i, j \in DOMAIN q : i < j /\ q[j].granted > 0 => q[i].granted > 0
Single(q) == \A i, j \in DOMAIN q : q[i].task = q[j].task => i = j
Alike(r, s) == r.task = s.task /\ r.want = s.want /\ r.session = s.session /\ r.age = s.age

(* What a reservation gets is no more than it asks for.                    *)
GetsRight(q, free, waiting, places, i) ==
  LET after == Serving(q, free, waiting, places)
      ask == Ask(q[i], waiting, after[i - 1].active, places)
  IN  /\ q[i] \in Reservation /\ q[i].granted <= q[i].want
      /\ after[i - 1] \in Counts /\ after[i] \in Counts /\ ask \in Nat
      /\ after[i].gets = IF ask <= after[i - 1].free THEN ask ELSE after[i - 1].free
      /\ after[i].free = after[i - 1].free - after[i].gets
      /\ after[i].active = after[i - 1].active
                           + IF q[i].granted = 0 /\ after[i].gets > 0 THEN 1 ELSE 0
      /\ after[i].gets <= ask /\ ask <= q[i].want - q[i].granted
LEMMA GetsLemma ==
  ASSUME NEW q \in Seq(Reservation), Modest(q), NEW free \in Nat, NEW waiting \in BOOLEAN,
         NEW places \in Nat, NEW i \in 1 .. Len(q)
  PROVE  GetsRight(q, free, waiting, places, i)
<1> DEFINE after == Serving(q, free, waiting, places)
           ask == Ask(q[i], waiting, after[i - 1].active, places)
<1>1. q[i] \in Reservation /\ q[i].granted <= q[i].want /\ i \in 0 .. Len(q) /\ i - 1 \in 0 .. Len(q)
  BY DEF Modest
<1>2. /\ after[i - 1] \in Counts /\ after[i] \in Counts
      /\ after[i] = After(q[i], after[i - 1], waiting, places)
  <2>1. /\ after \in [0 .. Len(q) -> Counts]
        /\ \A j \in 1 .. Len(q) : after[j] = After(q[j], after[j - 1], waiting, places)
    BY ServingDef DEF Serves
  <2> HIDE DEF after
  <2> QED BY <1>1, <2>1
<1> HIDE DEF after
<1>3. /\ after[i].gets = Gets(q[i], after[i - 1], waiting, places)
      /\ after[i].free = after[i - 1].free - after[i].gets
      /\ after[i].active = after[i - 1].active
                           + IF q[i].granted = 0 /\ after[i].gets > 0 THEN 1 ELSE 0
  BY <1>2 DEF After
<1>4. after[i].gets = IF ask <= after[i - 1].free THEN ask ELSE after[i - 1].free
  BY <1>1, <1>2, <1>3, AfterType
<1>5. after[i - 1].free \in Nat /\ after[i - 1].active \in Nat
  BY <1>2 DEF Counts
<1>6. ask \in Nat
  BY <1>1, <1>5, AskType
<1>7. ask <= q[i].want - q[i].granted
  BY <1>1, Fields DEF Ask, Monus
<1> HIDE DEF ask
<1>8. after[i].gets <= ask
  BY <1>4, <1>5, <1>6
<1> QED BY <1>1, <1>2, <1>3, <1>4, <1>6, <1>7, <1>8 DEF after, ask, GetsRight

(* The reservations stay, with more agents than before if anything.        *)
HandsOut(q, free, waiting, places) ==
  LET after == Serving(q, free, waiting, places)
      out == HandOut(q, free, waiting, places)
  IN  /\ out \in Seq(Reservation) /\ Len(out) = Len(q) /\ DOMAIN out = DOMAIN q
      /\ Modest(out)
      /\ \A i \in 1 .. Len(q) :
           /\ Alike(q[i], out[i]) /\ after[i].gets \in Nat
           /\ out[i].granted = q[i].granted + after[i].gets
LEMMA HandOutKeeps ==
  ASSUME NEW q \in Seq(Reservation), Modest(q), NEW free \in Nat, NEW waiting \in BOOLEAN,
         NEW places \in Nat
  PROVE  HandsOut(q, free, waiting, places)
<1> DEFINE N == Len(q)
           after == Serving(q, free, waiting, places)
           out == HandOut(q, free, waiting, places)
<1>1. N \in Nat /\ DOMAIN q = 1 .. N
  OBVIOUS
<1>2. out = [i \in 1 .. N |-> [q[i] EXCEPT !.granted = @ + after[i].gets]]
  BY DEF HandOut
<1> HIDE DEF out, N
<1>3. ASSUME NEW i \in 1 .. N
      PROVE  /\ out[i] \in Reservation /\ Alike(q[i], out[i]) /\ after[i].gets \in Nat
             /\ out[i].granted = q[i].granted + after[i].gets /\ out[i].granted <= out[i].want
  <2> DEFINE ask == Ask(q[i], waiting, after[i - 1].active, places)
  <2>1. /\ q[i] \in Reservation /\ after[i] \in Counts /\ after[i].gets <= ask /\ ask \in Nat
        /\ ask <= q[i].want - q[i].granted
    BY GetsLemma DEF N, GetsRight
  <2> HIDE DEF ask, after
  <2>2. after[i].gets \in Nat /\ q[i].granted \in Nat /\ q[i].want \in Nat
    BY <2>1, Fields DEF Counts
  <2>3. q[i].granted + after[i].gets \in Nat /\ q[i].granted + after[i].gets <= q[i].want
    <3> DEFINE n == after[i].gets
               m == q[i].granted
               w == q[i].want
    <3>1. n \in Nat /\ m \in Nat /\ w \in Nat /\ ask \in Nat /\ n <= ask /\ ask <= w - m
      BY <2>1, <2>2
    <3> HIDE DEF n, m, w
    <3>2. m + n \in Nat /\ m + n <= w
      BY <3>1
    <3> QED BY <3>2 DEF n, m, w
  <2>4. out[i] = [q[i] EXCEPT !.granted = q[i].granted + after[i].gets]
    BY <1>2
  <2> QED BY <2>1, <2>2, <2>3, <2>4 DEF Reservation, Alike
<1>4. out \in [1 .. N -> Reservation] /\ DOMAIN out = 1 .. N
  BY <1>2, <1>3
<1>5. out \in Seq(Reservation) /\ Len(out) = N
  BY <1>1, <1>4
<1>6. Modest(out)
  BY <1>3, <1>4 DEF Modest
<1> QED BY <1>1, <1>3, <1>4, <1>5, <1>6 DEF N, out, HandsOut

-----------------------------------------------------------------------------
(* What the reservations have.                                             *)
Granted(q) == [i \in DOMAIN q |-> q[i].granted]

LEMMA GrantedType ==
  ASSUME NEW q \in Seq(Reservation)
  PROVE  Granted(q) \in [1 .. Len(q) -> Nat] /\ TotalGranted(q) = Total(Granted(q))
BY Fields DEF Granted, TotalGranted

(* What is handed out is what was free and is no more.                     *)
HandsOutFree(q, free, waiting, places) ==
  LET after == Serving(q, free, waiting, places)
      out == HandOut(q, free, waiting, places)
  IN  /\ after[Len(q)].free \in 0 .. free
      /\ TotalGranted(q) \in Nat
      /\ TotalGranted(out) = TotalGranted(q) + free - after[Len(q)].free
LEMMA HandOutSum ==
  ASSUME NEW q \in Seq(Reservation), Modest(q), NEW free \in Nat, NEW waiting \in BOOLEAN,
         NEW places \in Nat
  PROVE  HandsOutFree(q, free, waiting, places)
<1> DEFINE N == Len(q)
           after == Serving(q, free, waiting, places)
           out == HandOut(q, free, waiting, places)
           s == Sums(Granted(q))
           t == Sums(Granted(out))
           T == {i \in 0 .. N : after[i].free \in 0 .. free /\ t[i] = s[i] + free - after[i].free}
<1>0. HandsOut(q, free, waiting, places)
  BY HandOutKeeps
<1>1. /\ N \in Nat /\ out \in Seq(Reservation) /\ Len(out) = N
      /\ \A i \in 1 .. N : after[i].gets \in Nat /\ out[i].granted = q[i].granted + after[i].gets
  BY <1>0 DEF HandsOut
<1>2. after[0].free = free
  <2>1. Serves(q, free, waiting, places)
    BY ServingDef
  <2> QED BY <2>1 DEF Serves
<1>3. \A i \in 1 .. N : after[i] \in Counts /\ after[i].free = after[i - 1].free - after[i].gets
  <2> SUFFICES ASSUME NEW i \in 1 .. N
               PROVE  after[i] \in Counts /\ after[i].free = after[i - 1].free - after[i].gets
    OBVIOUS
  <2>1. GetsRight(q, free, waiting, places, i)
    BY GetsLemma
  <2> QED BY <2>1 DEF GetsRight
<1> HIDE DEF after, out, s, t
<1>4. /\ s \in [0 .. N -> Nat] /\ s[0] = 0 /\ TotalGranted(q) = s[N]
      /\ \A i \in 1 .. N : s[i] = s[i - 1] + q[i].granted
  <2>1. Granted(q) \in [1 .. N -> Nat] /\ \A i \in 1 .. N : Granted(q)[i] = q[i].granted
    BY GrantedType DEF Granted
  <2>2. Adds(Granted(q), N) /\ TotalGranted(q) = Total(Granted(q))
    BY <1>1, <2>1, SumsDef, GrantedType
  <2> QED BY <2>1, <2>2 DEF s, Adds
<1>5. /\ t \in [0 .. N -> Nat] /\ t[0] = 0 /\ TotalGranted(out) = t[N]
      /\ \A i \in 1 .. N : t[i] = t[i - 1] + out[i].granted
  <2>1. Granted(out) \in [1 .. N -> Nat] /\ \A i \in 1 .. N : Granted(out)[i] = out[i].granted
    BY <1>1, GrantedType DEF Granted
  <2>2. Adds(Granted(out), N) /\ TotalGranted(out) = Total(Granted(out))
    BY <1>1, <2>1, SumsDef, GrantedType
  <2> QED BY <2>1, <2>2 DEF t, Adds
<1>6. \A i \in 1 .. N : q[i].granted \in Nat
  BY Fields
<1> HIDE DEF N
<1>7. 0 \in T
  <2>1. free \in 0 .. free /\ 0 = 0 + free - free /\ 0 \in 0 .. N
    BY <1>1
  <2> QED BY <1>2, <1>4, <1>5, <2>1
<1>8. ASSUME NEW i \in 1 .. N, i - 1 \in T PROVE i \in T
  <2> DEFINE a == after[i].free
             b == after[i - 1].free
             g == after[i].gets
             u == q[i].granted
             v == out[i].granted
             sj == s[i - 1]
             tj == t[i - 1]
  <2>1. a \in Nat /\ g \in Nat /\ a = b - g
    BY <1>1, <1>3 DEF Counts
  <2>2. u \in Nat /\ v = u + g /\ s[i] = sj + u /\ t[i] = tj + v
    BY <1>1, <1>4, <1>5, <1>6
  <2>3. sj \in Nat /\ tj \in Nat
    BY <1>1, <1>4, <1>5
  <2>4. b \in 0 .. free /\ tj = sj + free - b
    BY <1>8
  <2> HIDE DEF a, b, g, u, v, sj, tj
  <2>5. a \in 0 .. free /\ t[i] = s[i] + free - a
    BY <2>1, <2>2, <2>3, <2>4
  <2> QED BY <1>1, <2>5 DEF a
<1>9. N \in T
  <2> HIDE DEF T
  <2>1. \A i \in 0 .. N : i \in T
    BY <1>1, <1>7, <1>8, CountUp
  <2> QED BY <1>1, <2>1
<1>10. s[N] \in Nat
  BY <1>1, <1>4
<1>11. after[N].free \in 0 .. free /\ TotalGranted(out) = TotalGranted(q) + free - after[N].free
  BY <1>4, <1>5, <1>9
<1> QED BY <1>4, <1>10, <1>11 DEF N, after, out, HandsOutFree

(* With something left, everybody got what he asked for.                   *)
ServesAll(q, free, waiting, places) ==
  LET after == Serving(q, free, waiting, places)
  IN  after[Len(q)].free > 0 =>
        \A i \in 1 .. Len(q) : after[i].gets = Ask(q[i], waiting, after[i - 1].active, places)
LEMMA AllServed ==
  ASSUME NEW q \in Seq(Reservation), Modest(q), NEW free \in Nat, NEW waiting \in BOOLEAN,
         NEW places \in Nat
  PROVE  ServesAll(q, free, waiting, places)
<1> DEFINE N == Len(q)
           after == Serving(q, free, waiting, places)
           ask(i) == Ask(q[i], waiting, after[i - 1].active, places)
           T == {j \in 0 .. N : \A i \in 0 .. j : after[j].free <= after[i].free}
<1>1. N \in Nat
  OBVIOUS
<1>2. \A i \in 0 .. N : after[i].free \in Nat
  <2>1. after \in [0 .. N -> Counts]
    BY ServingDef DEF Serves
  <2> HIDE DEF after
  <2>2. \A i \in 0 .. N : after[i] \in Counts
    BY <2>1
  <2> QED BY <2>2 DEF Counts
<1>3. ASSUME NEW i \in 1 .. N
      PROVE  /\ after[i].gets \in Nat /\ after[i].free = after[i - 1].free - after[i].gets
             /\ after[i].gets = ask(i) \/ after[i].gets = after[i - 1].free
  <2>1. GetsRight(q, free, waiting, places, i)
    BY GetsLemma
  <2>2. after[i] \in Counts /\ after[i].free = after[i - 1].free - after[i].gets
    BY <2>1 DEF GetsRight
  <2>3. after[i].gets = ask(i) \/ after[i].gets = after[i - 1].free
    BY <2>1 DEF GetsRight
  <2> QED BY <2>2, <2>3 DEF Counts
<1> HIDE DEF after, N, ask
<1>4. 0 \in T
  BY <1>1, <1>2
<1>5. ASSUME NEW i \in 1 .. N, i - 1 \in T PROVE i \in T
  <2>1. i \in 0 .. N /\ i - 1 \in 0 .. N
    BY <1>1
  <2>2. after[i].free <= after[i - 1].free
    BY <1>2, <1>3, <2>1
  <2>3. ASSUME NEW j \in 0 .. i PROVE after[i].free <= after[j].free
    <3>1. j = i \/ j \in 0 .. i - 1
      BY <1>1
    <3>2. j \in 0 .. i - 1 => after[i - 1].free <= after[j].free
      BY <1>5
    <3>3. j \in 0 .. N
      BY <1>1
    <3>4. after[i].free \in Nat /\ after[i - 1].free \in Nat /\ after[j].free \in Nat
      BY <1>2, <2>1, <3>3
    <3> QED BY <2>2, <3>1, <3>2, <3>4
  <2> QED BY <2>1, <2>3
<1>6. N \in T
  <2> HIDE DEF T
  <2>1. \A i \in 0 .. N : i \in T
    BY <1>1, <1>4, <1>5, CountUp
  <2> QED BY <1>1, <2>1
<1>7. ASSUME after[N].free > 0, NEW i \in 1 .. N PROVE after[i].gets = ask(i)
  <2>1. i \in 0 .. N /\ i - 1 \in 0 .. N /\ N \in 0 .. N
    BY <1>1
  <2>2. after[N].free <= after[i].free
    BY <1>6, <2>1
  <2>3. after[i].free > 0
    BY <1>2, <1>7, <2>1, <2>2
  <2> QED BY <1>2, <1>3, <2>1, <2>3
<1> QED BY <1>7 DEF N, after, ask, ServesAll

-----------------------------------------------------------------------------
(* Those who have agents are served first: nobody starts.                  *)
ServesActive(q, free) ==
  LET after == Serving(q, free, FALSE, 0)
      out == HandOut(q, free, FALSE, 0)
  IN  \A i \in 1 .. Len(q) :
        /\ q[i].granted = 0 => out[i].granted = 0
        /\ q[i].granted > 0 => out[i].granted > 0
        /\ q[i].granted > 0 /\ after[Len(q)].free > 0 => out[i].granted = out[i].want
LEMMA ActiveServed ==
  ASSUME NEW q \in Seq(Reservation), Modest(q), NEW free \in Nat
  PROVE  ServesActive(q, free)
<1> DEFINE N == Len(q)
           after == Serving(q, free, FALSE, 0)
           out == HandOut(q, free, FALSE, 0)
<1>1. \A i \in 1 .. N : /\ Alike(q[i], out[i]) /\ after[i].gets \in Nat
                        /\ out[i].granted = q[i].granted + after[i].gets
  <2>1. HandsOut(q, free, FALSE, 0)
    BY HandOutKeeps
  <2> QED BY <2>1 DEF HandsOut
<1>2. after[N].free > 0 =>
        \A i \in 1 .. N : after[i].gets = Ask(q[i], FALSE, after[i - 1].active, 0)
  BY AllServed DEF ServesAll
<1>3. ASSUME NEW i \in 1 .. N
      PROVE  /\ q[i].granted \in Nat /\ q[i].want \in Nat /\ q[i].granted <= q[i].want
             /\ after[i].gets <= Ask(q[i], FALSE, after[i - 1].active, 0)
  <2>1. GetsRight(q, free, FALSE, 0, i)
    BY GetsLemma
  <2>2. q[i] \in Reservation
    OBVIOUS
  <2>3. q[i].granted \in Nat /\ q[i].want \in Nat
    BY <2>2, Fields, QueueAssumption
  <2>4. q[i].granted <= q[i].want /\ after[i].gets <= Ask(q[i], FALSE, after[i - 1].active, 0)
    BY <2>1 DEF GetsRight
  <2> QED BY <2>3, <2>4
<1> HIDE DEF after, out, N
<1>4. ASSUME NEW i \in 1 .. N
      PROVE  /\ q[i].granted = 0 => out[i].granted = 0
             /\ q[i].granted > 0 => out[i].granted > 0
             /\ q[i].granted > 0 /\ after[N].free > 0 => out[i].granted = out[i].want
  <2> DEFINE ask == Ask(q[i], FALSE, after[i - 1].active, 0)
             u == q[i].granted
             v == out[i].granted
             g == after[i].gets
             w == q[i].want
  <2>1. ask = IF u > 0 THEN (IF w > u THEN w - u ELSE 0) ELSE 0
    BY DEF Ask, Monus
  <2>2. /\ u \in Nat /\ w \in Nat /\ u <= w /\ g \in Nat /\ g <= ask /\ v = u + g
        /\ out[i].want = w /\ (after[N].free > 0 => g = ask)
    BY <1>1, <1>2, <1>3 DEF Alike
  <2> HIDE DEF ask, u, v, g, w
  <2>3. /\ u = 0 => v = 0
        /\ u > 0 => v > 0
        /\ u > 0 /\ after[N].free > 0 => v = w
    BY <2>1, <2>2
  <2> QED BY <2>2, <2>3 DEF u, v, w
<1> QED BY <1>4 DEF after, out, N, ServesActive

(* Those who have agents are the first ones in the file.                   *)
LEMMA ActiveFirst ==
  ASSUME NEW q \in Seq(Reservation), Ordered(q)
  PROVE  \E a \in 0 .. Len(q) : \A i \in 1 .. Len(q) : q[i].granted > 0 <=> i <= a
<1> DEFINE N == Len(q)
           T == {i \in 1 .. N : q[i].granted = 0}
<1>1. N \in Nat /\ DOMAIN q = 1 .. N /\ \A i \in 1 .. N : q[i].granted \in Nat
  BY Fields
<1> HIDE DEF N
<1>2. CASE T = {}
  <2>1. \A i \in 1 .. N : q[i].granted > 0 /\ i <= N
    BY <1>1, <1>2
  <2>2. N \in 0 .. N
    BY <1>1
  <2>3. \E a \in 0 .. N : \A i \in 1 .. N : q[i].granted > 0 <=> i <= a
    BY <2>1, <2>2
  <2> QED BY <2>3 DEF N
<1>3. CASE T # {}
  <2>1. T \in SUBSET Nat
    BY <1>1
  <2>2. PICK m \in T : \A n \in T : ~ (n < m)
    <3> HIDE DEF T
    <3> QED BY <1>3, <2>1, LeastNumber
  <2>3. ASSUME NEW i \in 1 .. N PROVE q[i].granted > 0 <=> i <= m - 1
    <3>1. i <= m - 1 => q[i].granted > 0
      BY <1>1, <2>2
    <3>2. q[i].granted > 0 /\ m < i => FALSE
      BY <1>1, <2>2 DEF Ordered
    <3>3. q[i].granted > 0 => i # m
      BY <1>1, <2>2
    <3> QED BY <1>1, <2>2, <3>1, <3>2, <3>3
  <2>4. m - 1 \in 0 .. N
    BY <1>1, <2>2
  <2> QED BY <2>3, <2>4 DEF N
<1> QED BY <1>2, <1>3

(* Where the first a have agents, a is their number.                       *)
LEMMA ActiveCount ==
  ASSUME NEW q \in Seq(Reservation), NEW a \in 0 .. Len(q),
         \A i \in 1 .. Len(q) : q[i].granted > 0 <=> i <= a
  PROVE  Active(q) = 1 .. a /\ Cardinality(Active(q)) = a /\ Ordered(q)
<1>1. Len(q) \in Nat /\ DOMAIN q = 1 .. Len(q)
  OBVIOUS
<1>2. Active(q) = 1 .. a
  BY <1>1 DEF Active
<1>3. Cardinality(1 .. a) = a
  BY <1>1, FS_Interval
<1> QED BY <1>1, <1>2, <1>3 DEF Ordered

(* Those who wait start in the order of the file, until nothing is free or *)
(* the task budget has no place.                                           *)
StartsInOrder(q, free, places) ==
  LET after == Serving(q, free, TRUE, places)
      out == HandOut(q, free, TRUE, places)
      c == after[Len(q)].active
  IN  /\ c \in 0 .. Len(q)
      /\ \A i \in 1 .. Len(q) :
           /\ out[i].granted > 0 <=> i <= c
           /\ q[i].granted > 0 => out[i].granted = q[i].granted
           /\ after[Len(q)].free > 0 =>
                /\ q[i].granted = 0 /\ out[i].granted > 0 => out[i].granted = out[i].want
                /\ i > c => places # 0 /\ c >= places
LEMMA WaitingServed ==
  ASSUME NEW q \in Seq(Reservation), Modest(q), Ordered(q), NEW free \in Nat, NEW places \in Nat
  PROVE  StartsInOrder(q, free, places)
<1> DEFINE N == Len(q)
           after == Serving(q, free, TRUE, places)
           out == HandOut(q, free, TRUE, places)
           ask(i) == Ask(q[i], TRUE, after[i - 1].active, places)
           Full(i) == after[i].free = 0 \/ (places # 0 /\ after[i].active >= places)
<1>1. PICK a \in 0 .. N : \A i \in 1 .. N : q[i].granted > 0 <=> i <= a
  BY ActiveFirst
<1>2. Cardinality(Active(q)) = a
  BY <1>1, ActiveCount
<1>3. /\ N \in Nat
      /\ \A i \in 1 .. N : /\ Alike(q[i], out[i]) /\ after[i].gets \in Nat
                           /\ out[i].granted = q[i].granted + after[i].gets
  <2>1. HandsOut(q, free, TRUE, places)
    BY HandOutKeeps
  <2> HIDE DEF N
  <2>2. \A i \in 1 .. N : /\ Alike(q[i], out[i]) /\ after[i].gets \in Nat
                         /\ out[i].granted = q[i].granted + after[i].gets
    BY <2>1 DEF HandsOut, N
  <2>3. N \in Nat
    BY DEF N
  <2> QED BY <2>2, <2>3
<1>4. after[N].free > 0 => \A i \in 1 .. N : after[i].gets = ask(i)
  BY AllServed DEF ServesAll
<1>5. /\ after[0].active = a
      /\ \A i \in 0 .. N : after[i] \in Counts
  <2>1. Serves(q, free, TRUE, places)
    BY ServingDef
  <2>2. after \in [0 .. N -> Counts]
    BY <2>1 DEF Serves
  <2>3. after[0] = [gets |-> 0, free |-> free, active |-> a]
    BY <1>2, <2>1 DEF Serves
  <2> HIDE DEF after
  <2> QED BY <2>2, <2>3
<1>6. ASSUME NEW i \in 1 .. N
      PROVE  /\ q[i].granted \in Nat /\ q[i].want \in Nat \ {0}
             /\ ask(i) = IF q[i].granted = 0 /\ (places = 0 \/ after[i - 1].active < places)
                         THEN q[i].want ELSE 0
             /\ after[i].gets = IF ask(i) <= after[i - 1].free THEN ask(i) ELSE after[i - 1].free
             /\ after[i].free = after[i - 1].free - after[i].gets
             /\ after[i].active = after[i - 1].active
                                  + IF q[i].granted = 0 /\ after[i].gets > 0 THEN 1 ELSE 0
  <2>1. GetsRight(q, free, TRUE, places, i)
    BY GetsLemma
  <2>2. q[i].granted \in Nat /\ q[i].want \in Nat \ {0}
    <3>1. q[i] \in Reservation
      OBVIOUS
    <3> QED BY <3>1, Fields, QueueAssumption
  <2> QED BY <2>1, <2>2 DEF GetsRight, Ask
<1> HIDE DEF after, out, N, ask
<1> DEFINE Right(i) ==
             LET c == after[i].active
             IN  /\ i <= a => c = a
                 /\ i > a => c >= a /\ c <= i
                 /\ c < i => Full(i)
                 /\ \A j \in 1 .. i : out[j].granted > 0 <=> j <= c
           T == {i \in 0 .. N : Right(i)}
<1>7. 0 \in T
  BY <1>1, <1>3, <1>5
<1>8. ASSUME NEW i \in 1 .. N, i - 1 \in T PROVE i \in T
  <2> DEFINE c == after[i].active
             b == after[i - 1].active
             f == after[i].free
             e == after[i - 1].free
             g == after[i].gets
             u == q[i].granted
             w == q[i].want
             k == ask(i)
             v == out[i].granted
  <2>0. i \in 0 .. N /\ i - 1 \in 0 .. N /\ i \in Nat /\ i >= 1
    BY <1>3
  <2>1. Right(i - 1)
    BY <1>8
  <2>2. /\ u \in Nat /\ w \in Nat \ {0} /\ k = (IF u = 0 /\ (places = 0 \/ b < places) THEN w ELSE 0)
        /\ g = (IF k <= e THEN k ELSE e) /\ f = e - g
        /\ c = b + IF u = 0 /\ g > 0 THEN 1 ELSE 0
    BY <1>6
  <2>3. b \in Nat /\ e \in Nat /\ c \in Nat /\ f \in Nat /\ g \in Nat /\ v = u + g
    BY <1>3, <1>5, <2>0 DEF Counts
  <2>4. u > 0 <=> i <= a
    BY <1>1
  <2>5. /\ i - 1 <= a => b = a
        /\ i - 1 > a => b >= a /\ b <= i - 1
        /\ b < i - 1 => (e = 0 \/ (places # 0 /\ b >= places))
    BY <2>1
  <2>6. \A j \in 1 .. i - 1 : out[j].granted > 0 <=> j <= b
    BY <2>1
  <2>7. a \in Nat
    BY <1>1, <1>3
  <2> HIDE DEF c, b, f, e, g, u, w, k, v
  <2>8. /\ i <= a => c = a
        /\ i > a => c >= a /\ c <= i
        /\ c < i => f = 0 \/ (places # 0 /\ c >= places)
        /\ v > 0 <=> i <= c
    <3>1. CASE i <= a
      BY <2>0, <2>2, <2>3, <2>4, <2>5, <2>7, <3>1
    <3>2. CASE i > a /\ g > 0
      BY <2>0, <2>2, <2>3, <2>4, <2>5, <2>7, <3>2
    <3>3. CASE i > a /\ g = 0
      BY <2>0, <2>2, <2>3, <2>4, <2>5, <2>7, <3>3
    <3> QED BY <2>0, <2>3, <2>7, <3>1, <3>2, <3>3
  <2>9. ASSUME NEW j \in 1 .. i - 1 PROVE j <= b <=> j <= c
    <3>1. b <= c
      BY <2>2, <2>3
    <3>2. c = b \/ b >= i - 1
      BY <2>0, <2>2, <2>3, <2>4, <2>5, <2>7
    <3> QED BY <2>0, <2>3, <3>1, <3>2
  <2>10. \A j \in 1 .. i : out[j].granted > 0 <=> j <= c
    <3>1. \A j \in 1 .. i : j = i \/ j \in 1 .. i - 1
      BY <2>0
    <3> QED BY <2>6, <2>8, <2>9, <3>1 DEF v
  <2>11. Right(i)
    BY <2>8, <2>10 DEF c, f
  <2> HIDE DEF Right
  <2> QED BY <2>0, <2>11
<1>9. Right(N)
  <2> HIDE DEF Right
  <2>1. \A i \in 0 .. N : i \in T
    <3> HIDE DEF T
    <3> QED BY <1>3, <1>7, <1>8, CountUp
  <2>2. N \in 0 .. N
    BY <1>3
  <2> QED BY <2>1, <2>2
<1> DEFINE c == after[N].active
<1>10. c \in Nat /\ N \in 0 .. N
  BY <1>3, <1>5 DEF Counts
<1>11. c \in 0 .. N /\ a \in Nat
  BY <1>1, <1>3, <1>9, <1>10
<1>12. \A i \in 1 .. N : out[i].granted > 0 <=> i <= c
  BY <1>9
<1>13. after[N].free > 0 /\ c < N => places # 0 /\ c >= places
  BY <1>9
<1> HIDE DEF c
<1>14. ASSUME NEW i \in 1 .. N
       PROVE  /\ q[i].granted > 0 => out[i].granted = q[i].granted
              /\ after[N].free > 0 /\ q[i].granted = 0 /\ out[i].granted > 0
                   => out[i].granted = out[i].want
              /\ after[N].free > 0 /\ i > c => places # 0 /\ c >= places
  <2>0. i - 1 \in 0 .. N
    BY <1>3
  <2>1. after[i - 1].free \in Nat /\ after[i].gets \in Nat
    BY <1>3, <1>5, <2>0 DEF Counts
  <2>2. q[i].granted > 0 => ask(i) = 0
    BY <1>6
  <2>3. q[i].granted > 0 => after[i].gets = 0
    BY <1>6, <2>1, <2>2
  <2>4. q[i].granted > 0 => out[i].granted = q[i].granted
    BY <1>3, <1>6, <2>3
  <2>5. q[i].granted = 0 => out[i].granted = after[i].gets
    BY <1>3, <2>1
  <2>6. after[N].free > 0 /\ q[i].granted = 0 /\ out[i].granted > 0 => out[i].granted = out[i].want
    BY <1>3, <1>4, <1>6, <2>5 DEF Alike
  <2>7. i > c => c < N
    BY <1>3, <1>11
  <2> QED BY <1>13, <2>4, <2>6, <2>7
<1> QED BY <1>11, <1>12, <1>14 DEF c, after, out, N, StartsInOrder

-----------------------------------------------------------------------------
(* With no more agents than wanted, used is what is granted, as far as the *)
(* sum can count.                                                          *)
LEMMA UsedDef ==
  ASSUME NEW q \in Seq(Reservation), Modest(q)
  PROVE  /\ TotalGranted(q) \in Nat
         /\ Used(q) = IF TotalGranted(q) <= U32Max THEN TotalGranted(q) ELSE U32Max
<1> DEFINE N == Len(q)
           f == [i \in DOMAIN q |-> Min({q[i].granted, q[i].want})]
<1>1. \A i \in DOMAIN q : Min({q[i].granted, q[i].want}) = q[i].granted
  <2> SUFFICES ASSUME NEW i \in DOMAIN q PROVE Min({q[i].granted, q[i].want}) = q[i].granted
    OBVIOUS
  <2>1. q[i].granted \in Nat /\ q[i].want \in Nat
    <3>1. q[i] \in Reservation
      OBVIOUS
    <3> QED BY <3>1, Fields, QueueAssumption
  <2>2. q[i].granted <= q[i].want
    BY DEF Modest
  <2>3. Min({q[i].granted, q[i].want}) = IF q[i].granted <= q[i].want THEN q[i].granted ELSE q[i].want
    BY <2>1, TwoNumbers
  <2> QED BY <2>2, <2>3
<1>2. f = Granted(q)
  BY <1>1 DEF Granted
<1>3. TotalGranted(q) = Total(f)
  BY <1>2, GrantedType
<1>4. TotalGranted(q) \in Nat
  <2>1. HandsOutFree(q, 0, FALSE, 0)
    BY HandOutSum
  <2> QED BY <2>1 DEF HandsOutFree
<1>5. Used(q) = Min({TotalGranted(q), U32Max})
  BY <1>3 DEF Used
<1> QED BY <1>4, <1>5, TwoNumbers, QueueAssumption

(* Agents stay idle only when nobody who may have them wants them.         *)
Busy(q, budget, places) ==
  \/ TotalGranted(q) >= budget
  \/ \A i \in DOMAIN q :
       \/ q[i].granted = q[i].want
       \/ q[i].granted = 0 /\ places # 0 /\ Cardinality(Active(q)) >= places

(* The same reservations, none with fewer agents.                          *)
Grown(q, out) ==
  /\ Len(out) = Len(q)
  /\ \A i \in 1 .. Len(q) : Alike(q[i], out[i]) /\ out[i].granted >= q[i].granted

LEMMA HandOutGrows ==
  ASSUME NEW q \in Seq(Reservation), Modest(q), NEW free \in Nat, NEW waiting \in BOOLEAN,
         NEW places \in Nat
  PROVE  LET out == HandOut(q, free, waiting, places)
         IN  out \in Seq(Reservation) /\ Modest(out) /\ Grown(q, out)
<1> DEFINE out == HandOut(q, free, waiting, places)
           after == Serving(q, free, waiting, places)
           N == Len(q)
<1>1. HandsOut(q, free, waiting, places)
  BY HandOutKeeps
<1>2. out \in Seq(Reservation) /\ Modest(out) /\ Len(out) = N
  BY <1>1 DEF HandsOut
<1>3. \A i \in 1 .. N : /\ Alike(q[i], out[i]) /\ after[i].gets \in Nat
                        /\ out[i].granted = q[i].granted + after[i].gets
  <2> HIDE DEF N
  <2> QED BY <1>1 DEF HandsOut, N
<1>4. \A i \in 1 .. N : q[i].granted \in Nat
  BY Fields
<1> HIDE DEF out, after, N
<1>5. \A i \in 1 .. N : out[i].granted >= q[i].granted
  <2> SUFFICES ASSUME NEW i \in 1 .. N PROVE out[i].granted >= q[i].granted
    OBVIOUS
  <2>1. q[i].granted \in Nat /\ after[i].gets \in Nat /\ out[i].granted = q[i].granted + after[i].gets
    BY <1>3, <1>4
  <2> QED BY <2>1
<1> QED BY <1>2, <1>3, <1>5 DEF Grown, out, N

LEMMA GrownTwice ==
  ASSUME NEW q \in Seq(Reservation), NEW t \in Seq(Reservation), NEW out \in Seq(Reservation),
         Grown(q, t), Grown(t, out)
  PROVE  Grown(q, out)
<1>1. Len(out) = Len(q) /\ Len(t) = Len(q)
  BY DEF Grown
<1>2. ASSUME NEW i \in 1 .. Len(q) PROVE Alike(q[i], out[i]) /\ out[i].granted >= q[i].granted
  <2>1. Alike(q[i], t[i]) /\ Alike(t[i], out[i])
    BY <1>1 DEF Grown
  <2>2. t[i].granted >= q[i].granted /\ out[i].granted >= t[i].granted
    BY <1>1 DEF Grown
  <2>3. q[i] \in Reservation /\ t[i] \in Reservation /\ out[i] \in Reservation
    BY <1>1
  <2>4. q[i].granted \in Nat /\ t[i].granted \in Nat /\ out[i].granted \in Nat
    BY <2>3, Fields
  <2> QED BY <2>1, <2>2, <2>4 DEF Alike
<1> QED BY <1>1, <1>2 DEF Grown

(* The allocation takes nothing back, keeps the order in which tasks have  *)
(* started, and leaves agents idle only when nobody may have them.         *)
AllocatedRight(q, budget, places) ==
  LET out == Allocated(q, budget, places)
  IN  /\ out \in Seq(Reservation) /\ Modest(out) /\ Ordered(out) /\ Grown(q, out)
      /\ Busy(out, budget, places)
LEMMA AllocatedLemma ==
  ASSUME NEW q \in Seq(Reservation), Modest(q), Ordered(q),
         NEW budget \in 0 .. U32Max, NEW places \in Nat
  PROVE  AllocatedRight(q, budget, places)
<1> DEFINE N == Len(q)
           free1 == Monus(budget, Used(q))
           t == HandOut(q, free1, FALSE, 0)
           f1 == Serving(q, free1, FALSE, 0)[Len(q)].free
           free2 == Monus(budget, Used(t))
           out == HandOut(t, free2, TRUE, places)
           f2 == Serving(t, free2, TRUE, places)[Len(t)].free
           c == Serving(t, free2, TRUE, places)[Len(t)].active
           Tq == TotalGranted(q)
           Tt == TotalGranted(t)
           To == TotalGranted(out)
<1>0. U32Max \in Nat /\ budget \in Nat /\ budget <= U32Max
  BY QueueAssumption
<1>1. Allocated(q, budget, places) = out
  BY DEF Allocated, StartWaiting, TopUp
<1>2. Tq \in Nat /\ Used(q) = IF Tq <= U32Max THEN Tq ELSE U32Max
  BY UsedDef
<1>3. free1 \in Nat
  <2> DEFINE u == Used(q)
  <2>1. u \in Nat
    BY <1>0, <1>2
  <2> HIDE DEF u
  <2>2. Monus(budget, u) \in Nat
    BY <1>0, <2>1 DEF Monus
  <2> QED BY <2>2 DEF u
<1>4. t \in Seq(Reservation) /\ Modest(t) /\ Grown(q, t)
  <2> HIDE DEF free1
  <2> QED BY <1>3, HandOutGrows
<1>5. f1 \in 0 .. free1 /\ Tt = Tq + free1 - f1
  <2> HIDE DEF free1
  <2>1. HandsOutFree(q, free1, FALSE, 0)
    BY <1>3, HandOutSum
  <2> QED BY <2>1 DEF HandsOutFree
<1>6. \A i \in 1 .. N :
        /\ q[i].granted = 0 => t[i].granted = 0
        /\ q[i].granted > 0 => t[i].granted > 0
        /\ q[i].granted > 0 /\ f1 > 0 => t[i].granted = t[i].want
  <2> HIDE DEF free1, N
  <2>1. ServesActive(q, free1)
    BY <1>3, ActiveServed
  <2> QED BY <2>1 DEF ServesActive, N
<1> HIDE DEF t, f1
<1>7. N \in Nat /\ Len(t) = N /\ DOMAIN q = 1 .. N /\ DOMAIN t = 1 .. N
  BY <1>4 DEF Grown
<1>8. \A i \in 1 .. N : q[i].granted \in Nat
  BY Fields
<1> HIDE DEF free1, N
<1>9. Ordered(t)
  BY <1>6, <1>7, <1>8 DEF Ordered
<1>10. Tt \in Nat /\ Used(t) = IF Tt <= U32Max THEN Tt ELSE U32Max
  BY <1>4, UsedDef
<1>11. free2 \in Nat
  <2> DEFINE u == Used(t)
  <2>1. u \in Nat
    BY <1>0, <1>10
  <2> HIDE DEF u
  <2>2. Monus(budget, u) \in Nat
    BY <1>0, <2>1 DEF Monus
  <2> QED BY <2>2 DEF u
<1>12. out \in Seq(Reservation) /\ Modest(out) /\ Grown(t, out)
  <2> HIDE DEF free2
  <2> QED BY <1>4, <1>11, HandOutGrows
<1>13. f2 \in 0 .. free2 /\ To = Tt + free2 - f2
  <2> HIDE DEF free2
  <2>1. HandsOutFree(t, free2, TRUE, places)
    BY <1>4, <1>11, HandOutSum
  <2> QED BY <2>1 DEF HandsOutFree
<1>14. /\ c \in 0 .. N
       /\ \A i \in 1 .. N :
            /\ out[i].granted > 0 <=> i <= c
            /\ t[i].granted > 0 => out[i].granted = t[i].granted
            /\ f2 > 0 =>
                 /\ t[i].granted = 0 /\ out[i].granted > 0 => out[i].granted = out[i].want
                 /\ i > c => places # 0 /\ c >= places
  <2> HIDE DEF free2
  <2>1. StartsInOrder(t, free2, places)
    BY <1>4, <1>9, <1>11, WaitingServed
  <2>2. StartsInOrder(t, free2, places) =
        (/\ c \in 0 .. Len(t)
         /\ \A i \in 1 .. Len(t) :
              /\ out[i].granted > 0 <=> i <= c
              /\ t[i].granted > 0 => out[i].granted = t[i].granted
              /\ f2 > 0 =>
                   /\ t[i].granted = 0 /\ out[i].granted > 0 => out[i].granted = out[i].want
                   /\ i > c => places # 0 /\ c >= places)
    BY DEF StartsInOrder
  <2> HIDE DEF out, f2, c
  <2> QED BY <1>7, <2>1, <2>2
<1> HIDE DEF out, f2, c
<1>15. Len(out) = N /\ DOMAIN out = 1 .. N /\ \A i \in 1 .. N : Alike(t[i], out[i])
  BY <1>7, <1>12 DEF Grown
<1>16. Ordered(out) /\ Cardinality(Active(out)) = c
  BY <1>12, <1>14, <1>15, ActiveCount
<1>17. Grown(q, out)
  BY <1>4, <1>12, GrownTwice
<1>18. Busy(out, budget, places)
  <2> SUFFICES ASSUME ~ (To >= budget), NEW i \in 1 .. N
               PROVE  \/ out[i].granted = out[i].want
                      \/ out[i].granted = 0 /\ places # 0 /\ c >= places
    BY <1>15, <1>16 DEF Busy
  <2>1. free1 = (IF budget > Used(q) THEN budget - Used(q) ELSE 0)
        /\ free2 = (IF budget > Used(t) THEN budget - Used(t) ELSE 0)
    BY DEF free1, Monus
  <2> HIDE DEF Tq, Tt, To, free2
  <2>2. f1 > 0 /\ f2 > 0
    BY <1>0, <1>2, <1>3, <1>5, <1>10, <1>11, <1>13, <2>1
  <2>3. out[i].granted \in Nat /\ t[i].granted \in Nat /\ c \in Nat
    <3>1. out[i] \in Reservation /\ t[i] \in Reservation
      BY <1>4, <1>7, <1>12, <1>15
    <3> QED BY <1>7, <1>14, <3>1, Fields
  <2>4. CASE t[i].granted > 0
    <3>1. q[i].granted > 0
      BY <1>6, <1>8, <2>4
    <3>2. t[i].granted = t[i].want /\ out[i].granted = t[i].granted
      BY <1>6, <1>14, <2>2, <2>4, <3>1
    <3> QED BY <1>15, <3>2 DEF Alike
  <2>5. CASE t[i].granted = 0 /\ out[i].granted > 0
    BY <1>14, <2>2, <2>5
  <2>6. CASE out[i].granted = 0
    <3>1. i > c
      BY <1>7, <1>14, <2>3, <2>6
    <3> QED BY <1>14, <2>2, <2>6, <3>1
  <2> QED BY <2>3, <2>4, <2>5, <2>6
<1> QED BY <1>1, <1>12, <1>16, <1>17, <1>18 DEF AllocatedRight

-----------------------------------------------------------------------------
(* What a caller was told is of its own task, and of a session that lives. *)
(* While it is no older than the TTL it is in the queue.                   *)
Promise ==
  \A k \in Tasks : \A r \in told[k] :
    /\ r.task = k /\ r.session \notin dead
    /\ r.age <= QueueTtl => \E i \in DOMAIN queue :
         /\ queue[i].task = k /\ queue[i].session = r.session /\ queue[i].age = r.age
         /\ queue[i].granted >= r.granted

(* The inductive invariant: the order and the promises rest on reservations*)
(* that hold no more than they want, for then `used` is what is granted.   *)
QueueInv == QueueTypeOK /\ Modest(queue) /\ Ordered(queue) /\ NothingIdle /\ Promise

-----------------------------------------------------------------------------
(* A queue as a transaction leaves it, but for what is idle.               *)
InOrder(q) == q \in Seq(Reservation) /\ Modest(q) /\ Ordered(q) /\ Single(q)

(* Dropping reservations keeps the order and all others.                   *)
LEMMA OnlyInOrder ==
  ASSUME NEW q, InOrder(q), NEW stay \in SUBSET DOMAIN q
  PROVE  /\ InOrder(Only(q, stay))
         /\ \A i \in stay : \E j \in DOMAIN Only(q, stay) : Only(q, stay)[j] = q[i]
<1> DEFINE out == Only(q, stay)
<1>1. q \in Seq(Reservation)
  BY DEF InOrder
<1>2. PICK f : Embeds(out, q, f, stay)
  BY <1>1, OnlyKeeps
<1> HIDE DEF out
<1>3. out \in Seq(Reservation) /\ DOMAIN out = 1 .. Len(out) /\ Len(out) \in Nat
  BY <1>2 DEF Embeds
<1>4. ASSUME NEW j \in DOMAIN out
      PROVE  out[j] = q[f[j]] /\ f[j] \in DOMAIN q
  BY <1>2, <1>3 DEF Embeds
<1>5. ASSUME NEW j \in DOMAIN out, NEW k \in DOMAIN out, j < k PROVE f[j] < f[k]
  BY <1>2, <1>3, <1>5 DEF Embeds
<1>6. Modest(out)
  BY <1>4 DEF InOrder, Modest
<1>7. Ordered(out)
  BY <1>4, <1>5 DEF InOrder, Ordered
<1>8. Single(out)
  <2> SUFFICES ASSUME NEW j \in DOMAIN out, NEW k \in DOMAIN out, out[j].task = out[k].task
               PROVE  j = k
    BY DEF Single
  <2>1. f[j] = f[k]
    BY <1>4 DEF InOrder, Single
  <2>2. f[j] \in Nat /\ f[k] \in Nat /\ j \in Nat /\ k \in Nat
    BY <1>1, <1>3, <1>4
  <2> QED BY <1>5, <2>1, <2>2
<1>9. \A i \in stay : \E j \in DOMAIN out : out[j] = q[i]
  BY <1>2, <1>3 DEF Embeds
<1> QED BY <1>3, <1>6, <1>7, <1>8, <1>9 DEF InOrder, out

(* A request adds a reservation or raises what one wants.                  *)
LEMMA RequestedInOrder ==
  ASSUME NEW q, InOrder(q), NEW k \in Tasks, NEW n \in Wants, NEW s \in Owners,
         NEW lag \in 0 .. MaxLag
  PROVE  LET out == Requested(q, k, n, s, lag)
         IN  /\ InOrder(out)
             /\ \A i \in DOMAIN q :
                  /\ i \in DOMAIN out
                  /\ out[i].task = q[i].task /\ out[i].session = q[i].session
                  /\ out[i].age = q[i].age /\ out[i].granted = q[i].granted
<1> DEFINE out == Requested(q, k, n, s, lag)
           N == Len(q)
           new == [task |-> k, want |-> n, granted |-> 0, session |-> s, age |-> lag]
           Same == \A i \in DOMAIN q :
                     /\ i \in DOMAIN out
                     /\ out[i].task = q[i].task /\ out[i].session = q[i].session
                     /\ out[i].age = q[i].age /\ out[i].granted = q[i].granted
<1>1. /\ q \in Seq(Reservation) /\ N \in Nat /\ DOMAIN q = 1 .. N
      /\ \A i \in 1 .. N : q[i] \in Reservation
  BY DEF InOrder
<1> HIDE DEF N
<1>2. CASE \E i \in DOMAIN q : q[i].task = k
  <2> DEFINE More(i) == IF q[i].task = k THEN [q[i] EXCEPT !.want = Max({@, n})] ELSE q[i]
  <2>1. out = [i \in 1 .. N |-> More(i)]
    BY <1>1, <1>2 DEF Requested
  <2>2. ASSUME NEW i \in 1 .. N
        PROVE  /\ More(i) \in Reservation
               /\ More(i).task = q[i].task /\ More(i).session = q[i].session
               /\ More(i).age = q[i].age /\ More(i).granted = q[i].granted
               /\ More(i).want \in Nat /\ q[i].want \in Nat /\ More(i).want >= q[i].want
    <3> DEFINE w == q[i].want
               m == Max({w, n})
    <3>1. q[i] \in Reservation /\ w \in Wants
      BY <1>1, Fields
    <3>2. Wants \subseteq Nat
      BY QueueAssumption
    <3>3. More(i) = IF q[i].task = k THEN [q[i] EXCEPT !.want = m] ELSE q[i]
      OBVIOUS
    <3> HIDE DEF w
    <3>4. m = IF w <= n THEN n ELSE w
      BY <3>1, <3>2, TwoNumbers
    <3> HIDE DEF m
    <3>5. m \in Wants /\ m >= w /\ m \in Nat /\ w \in Nat
      BY <3>1, <3>2, <3>4
    <3>6. /\ More(i) \in Reservation
          /\ More(i).task = q[i].task /\ More(i).session = q[i].session
          /\ More(i).age = q[i].age /\ More(i).granted = q[i].granted
          /\ More(i).want = m \/ More(i).want = w
      <4> HIDE DEF More
      <4> QED BY <3>1, <3>3, <3>5 DEF Reservation, w
    <3>7. More(i).want >= w /\ More(i).want \in Nat
      BY <3>5, <3>6
    <3> HIDE DEF More
    <3> QED BY <3>5, <3>6, <3>7 DEF w
  <2> HIDE DEF out, More
  <2>3. out \in Seq(Reservation) /\ DOMAIN out = 1 .. N
    <3>1. out \in [1 .. N -> Reservation]
      BY <2>1, <2>2
    <3> QED BY <1>1, <3>1
  <2>4. \A i \in 1 .. N : out[i] = More(i)
    BY <2>1
  <2>5. Same
    BY <1>1, <2>2, <2>3, <2>4
  <2>6. Modest(out)
    <3> SUFFICES ASSUME NEW i \in 1 .. N PROVE out[i].granted <= out[i].want
      BY <2>3 DEF Modest
    <3>1. q[i].granted <= q[i].want /\ q[i].granted \in Nat
      BY <1>1, Fields DEF InOrder, Modest
    <3>2. /\ out[i].granted = q[i].granted /\ out[i].want \in Nat /\ q[i].want \in Nat
          /\ out[i].want >= q[i].want
      BY <2>2, <2>4
    <3> QED BY <3>1, <3>2
  <2>7. Ordered(out)
    BY <1>1, <2>2, <2>3, <2>4 DEF InOrder, Ordered
  <2>8. Single(out)
    <3>1. \A i \in 1 .. N : out[i].task = q[i].task
      BY <2>2, <2>4
    <3> QED BY <1>1, <2>3, <3>1 DEF InOrder, Single
  <2> QED BY <2>3, <2>5, <2>6, <2>7, <2>8 DEF InOrder, out
<1>3. CASE ~ \E i \in DOMAIN q : q[i].task = k
  <2>1. out = Append(q, new)
    BY <1>3 DEF Requested
  <2>2. new \in Reservation /\ new.granted = 0 /\ new.task = k /\ n \in Nat /\ new.want = n
    <3>1. 0 .. MaxLag \subseteq 0 .. MaxAge /\ n \in Nat
      BY QueueAssumption DEF MaxAge
    <3> QED BY <3>1 DEF Reservation
  <2> HIDE DEF out, new
  <2>3. out \in Seq(Reservation) /\ DOMAIN out = 1 .. N + 1
    BY <1>1, <2>1, <2>2 DEF N
  <2>4. out[N + 1] = new /\ \A i \in 1 .. N : out[i] = q[i]
    BY <1>1, <2>1, <2>2 DEF N
  <2>5. \A i \in 1 .. N + 1 : i = N + 1 \/ i \in 1 .. N
    BY <1>1
  <2>6. Same
    BY <1>1, <2>3, <2>4
  <2>7. Modest(out)
    BY <1>1, <2>2, <2>3, <2>4, <2>5 DEF InOrder, Modest
  <2>8. Ordered(out)
    <3> SUFFICES ASSUME NEW i \in 1 .. N + 1, NEW j \in 1 .. N + 1, i < j, out[j].granted > 0
                 PROVE  out[i].granted > 0
      BY <2>3 DEF Ordered
    <3>1. j \in 1 .. N
      BY <2>2, <2>4, <2>5
    <3>2. i \in 1 .. N
      BY <1>1, <3>1
    <3> QED BY <1>1, <2>4, <3>1, <3>2 DEF InOrder, Ordered
  <2>9. Single(out)
    <3> SUFFICES ASSUME NEW i \in 1 .. N + 1, NEW j \in 1 .. N + 1, out[i].task = out[j].task
                 PROVE  i = j
      BY <2>3 DEF Single
    <3>1. ASSUME i \in 1 .. N, j \in 1 .. N PROVE i = j
      BY <1>1, <2>4, <3>1 DEF InOrder, Single
    <3>2. \A l \in 1 .. N : q[l].task # k
      BY <1>1, <1>3
    <3> QED BY <2>2, <2>4, <2>5, <3>1, <3>2
  <2> QED BY <2>3, <2>6, <2>7, <2>8, <2>9 DEF InOrder, out
<1> QED BY <1>2, <1>3

-----------------------------------------------------------------------------
(* What r promises task k is in the queue q.                               *)
Honoured(r, k, q) ==
  \E i \in DOMAIN q :
    /\ q[i].task = k /\ q[i].session = r.session /\ q[i].age = r.age
    /\ q[i].granted >= r.granted

LEMMA GrownHonoured ==
  ASSUME NEW q \in Seq(Reservation), NEW out \in Seq(Reservation), Grown(q, out),
         NEW r \in Reservation, NEW k, Honoured(r, k, q)
  PROVE  Honoured(r, k, out)
<1>1. PICK i \in DOMAIN q : /\ q[i].task = k /\ q[i].session = r.session /\ q[i].age = r.age
                            /\ q[i].granted >= r.granted
  BY DEF Honoured
<1>2. /\ i \in DOMAIN out /\ Alike(q[i], out[i]) /\ out[i].granted >= q[i].granted
      /\ q[i] \in Reservation /\ out[i] \in Reservation
  BY DEF Grown
<1>3. q[i].granted \in Nat /\ out[i].granted \in Nat /\ r.granted \in Nat
  BY <1>2, Fields
<1>4. out[i].granted >= r.granted
  BY <1>1, <1>2, <1>3
<1> QED BY <1>1, <1>2, <1>4 DEF Alike, Honoured

LEMMA LivingHonoured ==
  ASSUME QueueTypeOK, NEW lag \in 0 .. MaxLag, NEW seen \in SUBSET dead,
         NEW r \in Reservation, r.age <= QueueTtl, r.session \notin dead, NEW k, Honoured(r, k, queue)
  PROVE  Honoured(r, k, Living(lag, seen))
<1>1. PICK i \in DOMAIN queue :
        /\ queue[i].task = k /\ queue[i].session = r.session /\ queue[i].age = r.age
        /\ queue[i].granted >= r.granted
  BY DEF Honoured
<1> DEFINE stay == {j \in DOMAIN queue : Alive(queue[j], lag, seen)}
<1>2. r.age \in Nat /\ lag \in Nat /\ QueueTtl \in Nat
  BY Fields, QueueAssumption
<1>3. r.age - lag <= QueueTtl
  BY <1>2
<1>4. i \in stay
  BY <1>1, <1>3 DEF Alive
<1>5. queue \in Seq(Reservation) /\ stay \in SUBSET DOMAIN queue
  BY DEF QueueTypeOK
<1>6. PICK f : Embeds(Only(queue, stay), queue, f, stay)
  <2> HIDE DEF stay
  <2> QED BY <1>5, OnlyKeeps
<1> HIDE DEF stay
<1>7. \E j \in DOMAIN Only(queue, stay) : Only(queue, stay)[j] = queue[i]
  BY <1>4, <1>6 DEF Embeds
<1>8. Honoured(r, k, Only(queue, stay))
  BY <1>1, <1>7 DEF Honoured
<1> QED BY <1>8 DEF Living, stay

LEMMA LivingInOrder ==
  ASSUME QueueInv, NEW lag, NEW seen
  PROVE  InOrder(Living(lag, seen))
<1>1. InOrder(queue)
  BY DEF QueueInv, QueueTypeOK, InOrder, Single
<1> DEFINE stay == {j \in DOMAIN queue : Alive(queue[j], lag, seen)}
<1>2. stay \in SUBSET DOMAIN queue
  OBVIOUS
<1>3. Living(lag, seen) = Only(queue, stay)
  BY DEF Living
<1> HIDE DEF stay
<1> QED BY <1>1, <1>2, <1>3, OnlyInOrder

-----------------------------------------------------------------------------
(* What a command answers for the tasks in named.                          *)
Answers(named, k) ==
  IF k \in named THEN told'[k] \subseteq {r \in ToSet(queue') : r.task = k /\ r.session \notin dead'}
  ELSE told'[k] = told[k]

(* A command that takes the queue to q, with everything in it that was     *)
(* promised to other tasks, and then allocates.                            *)
LEMMA CommandStep ==
  ASSUME QueueInv, NEW q, InOrder(q), Commit(q),
         agentBudget' \in AgentBudgets, taskBudget' \in TaskBudgets, dead' = dead,
         NEW named \in SUBSET Tasks,
         DOMAIN told' = Tasks, told' = [k \in Tasks |-> told'[k]],
         \A k \in Tasks : Answers(named, k),
         \A k \in Tasks \ named, r \in Reservation :
           r.age <= QueueTtl /\ r.session \notin dead /\ Honoured(r, k, queue) => Honoured(r, k, q)
  PROVE  QueueInv'
<1>1. agentBudget' \in 0 .. U32Max /\ taskBudget' \in Nat
  BY QueueAssumption
<1>2. q \in Seq(Reservation) /\ Modest(q) /\ Ordered(q) /\ Single(q)
  BY DEF InOrder
<1>3. AllocatedRight(q, agentBudget', taskBudget')
  BY <1>1, <1>2, AllocatedLemma
<1>4. /\ queue' \in Seq(Reservation) /\ Modest(queue') /\ Ordered(queue') /\ Grown(q, queue')
      /\ Busy(queue', agentBudget', taskBudget')
  BY <1>3 DEF AllocatedRight, Commit
<1>5. Single(queue')
  <2>1. DOMAIN queue' = DOMAIN q /\ DOMAIN q = 1 .. Len(q)
    BY <1>2, <1>4 DEF Grown
  <2>2. \A i \in DOMAIN q : queue'[i].task = q[i].task
    BY <1>2, <1>4, <2>1 DEF Grown, Alike
  <2> QED BY <1>2, <2>1, <2>2 DEF Single
<1>6. ToSet(queue') \subseteq Reservation
  BY <1>4 DEF ToSet
<1>7. told \in [Tasks -> SUBSET Reservation] /\ dead \subseteq Sessions
  BY DEF QueueInv, QueueTypeOK
<1>8. ASSUME NEW k \in Tasks PROVE told'[k] \in SUBSET Reservation
  BY <1>6, <1>7 DEF Answers
<1>9. told' \in [Tasks -> SUBSET Reservation]
  BY <1>8
<1>10. QueueTypeOK'
  BY <1>4, <1>5, <1>7, <1>9 DEF QueueTypeOK, Single
<1>11. NothingIdle'
  BY <1>4 DEF NothingIdle, Busy
<1>12. Promise'
  <2> SUFFICES ASSUME NEW k \in Tasks, NEW r \in told'[k]
               PROVE  /\ r.task = k /\ r.session \notin dead'
                      /\ r.age <= QueueTtl => Honoured(r, k, queue')
    BY DEF Promise, Honoured
  <2>1. r \in Reservation
    BY <1>8
  <2>2. CASE k \in named
    <3>1. r \in ToSet(queue') /\ r.task = k /\ r.session \notin dead'
      BY <2>2 DEF Answers
    <3>2. PICK i \in DOMAIN queue' : queue'[i] = r
      BY <3>1 DEF ToSet
    <3>3. r.granted \in Nat
      BY <2>1, Fields
    <3> QED BY <3>1, <3>2, <3>3 DEF Honoured
  <2>3. CASE k \notin named
    <3>1. r \in told[k]
      BY <2>3 DEF Answers
    <3>2. r.task = k /\ r.session \notin dead /\ (r.age <= QueueTtl => Honoured(r, k, queue))
      BY <3>1 DEF QueueInv, Promise, Honoured
    <3>3. r.age <= QueueTtl => Honoured(r, k, q)
      BY <2>1, <2>3, <3>2
    <3>4. r.age <= QueueTtl => Honoured(r, k, queue')
      BY <1>2, <1>4, <2>1, <3>3, GrownHonoured
    <3> QED BY <3>2, <3>4
  <2> QED BY <2>2, <2>3
<1> QED BY <1>4, <1>10, <1>11, <1>12 DEF QueueInv

LEMMA TellAnswers ==
  ASSUME NEW named \in SUBSET Tasks, Tell(named, queue'), dead' = dead
  PROVE  /\ DOMAIN told' = Tasks /\ told' = [k \in Tasks |-> told'[k]]
         /\ \A k \in Tasks : Answers(named, k)
<1>1. told' = [k \in Tasks |-> IF k \in named
                               THEN {r \in ToSet(queue') : r.task = k /\ r.session \notin dead}
                               ELSE told[k]]
  BY DEF Tell
<1> QED BY <1>1 DEF Answers

LEMMA BudgetsKept ==
  ASSUME QueueInv
  PROVE  agentBudget \in AgentBudgets /\ taskBudget \in TaskBudgets
BY DEF QueueInv, QueueTypeOK


LEMMA PollStep ==
  ASSUME QueueInv, NEW named \in SUBSET Tasks, NEW lag \in 0 .. MaxLag, NEW seen \in SUBSET dead,
         Poll(named, lag, seen)
  PROVE  QueueInv'
<1> DEFINE q == Living(lag, seen)
<1>1. /\ Commit(q) /\ Tell(named, queue') /\ agentBudget' = agentBudget
      /\ taskBudget' = taskBudget /\ dead' = dead
  BY DEF Poll
<1>2. InOrder(q)
  BY LivingInOrder
<1>3. \A k \in Tasks \ named, r \in Reservation :
        r.age <= QueueTtl /\ r.session \notin dead /\ Honoured(r, k, queue) => Honoured(r, k, q)
  BY LivingHonoured DEF QueueInv
<1>4. /\ DOMAIN told' = Tasks /\ told' = [k \in Tasks |-> told'[k]]
      /\ \A k \in Tasks : Answers(named, k)
  BY <1>1, TellAnswers
<1> HIDE DEF q
<1> QED BY <1>1, <1>2, <1>3, <1>4, BudgetsKept, CommandStep

LEMMA SetBudgetStep ==
  ASSUME QueueInv, NEW agents \in AgentBudgets, NEW tasks \in TaskBudgets,
         NEW lag \in 0 .. MaxLag, NEW seen \in SUBSET dead, SetBudget(agents, tasks, lag, seen)
  PROVE  QueueInv'
<1> DEFINE q == Living(lag, seen)
<1>1. /\ Commit(q) /\ told' = told /\ agentBudget' \in AgentBudgets
      /\ taskBudget' \in TaskBudgets /\ dead' = dead
  BY DEF SetBudget
<1>2. InOrder(q)
  BY LivingInOrder
<1>3. \A k \in Tasks, r \in Reservation :
        r.age <= QueueTtl /\ r.session \notin dead /\ Honoured(r, k, queue) => Honoured(r, k, q)
  BY LivingHonoured DEF QueueInv
<1>4. /\ DOMAIN told' = Tasks /\ told' = [k \in Tasks |-> told'[k]]
      /\ \A k \in Tasks : Answers({}, k)
  BY <1>1 DEF QueueInv, QueueTypeOK, Answers
<1> HIDE DEF q
<1>5. {} \in SUBSET Tasks /\ Tasks \ {} = Tasks
  OBVIOUS
<1> QED BY <1>1, <1>2, <1>3, <1>4, <1>5, CommandStep

LEMMA ReserveStep ==
  ASSUME QueueInv, NEW k \in Tasks, NEW n \in Wants, NEW s \in Owners,
         NEW lag \in 0 .. MaxLag, NEW seen \in SUBSET dead, Reserve(k, n, s, lag, seen)
  PROVE  QueueInv'
<1> DEFINE living == Living(lag, seen)
           q == Requested(living, k, n, s, lag)
<1>1. /\ Commit(q) /\ Tell({k}, queue') /\ agentBudget' = agentBudget
      /\ taskBudget' = taskBudget /\ dead' = dead
  BY DEF Reserve
<1>2. InOrder(living)
  BY LivingInOrder
<1>3. \A l \in Tasks, r \in Reservation :
        r.age <= QueueTtl /\ r.session \notin dead /\ Honoured(r, l, queue) => Honoured(r, l, living)
  BY LivingHonoured DEF QueueInv
<1>4. /\ DOMAIN told' = Tasks /\ told' = [l \in Tasks |-> told'[l]]
      /\ \A l \in Tasks : Answers({k}, l)
  BY <1>1, TellAnswers
<1> HIDE DEF living
<1>5. /\ InOrder(q)
      /\ \A i \in DOMAIN living :
           /\ i \in DOMAIN q
           /\ q[i].task = living[i].task /\ q[i].session = living[i].session
           /\ q[i].age = living[i].age /\ q[i].granted = living[i].granted
  BY <1>2, RequestedInOrder
<1> HIDE DEF q
<1>6. \A l \in Tasks \ {k}, r \in Reservation :
        r.age <= QueueTtl /\ r.session \notin dead /\ Honoured(r, l, queue) => Honoured(r, l, q)
  <2> SUFFICES ASSUME NEW l \in Tasks, NEW r \in Reservation, Honoured(r, l, living)
               PROVE  Honoured(r, l, q)
    BY <1>3
  <2> QED BY <1>5 DEF Honoured
<1> QED BY <1>1, <1>4, <1>5, <1>6, BudgetsKept, CommandStep

LEMMA ReleaseStep ==
  ASSUME QueueInv, NEW named \in SUBSET Tasks, NEW lag \in 0 .. MaxLag, NEW seen \in SUBSET dead,
         ReleaseTasks(named, lag, seen)
  PROVE  QueueInv'
<1> DEFINE living == Living(lag, seen)
           stay == {i \in DOMAIN living : living[i].task \notin named}
           q == Only(living, stay)
<1>1. /\ Commit(q) /\ agentBudget' = agentBudget /\ taskBudget' = taskBudget /\ dead' = dead
      /\ told' = [k \in Tasks |-> IF k \in named THEN {} ELSE told[k]]
  BY DEF ReleaseTasks
<1>2. InOrder(living)
  BY LivingInOrder
<1>3. \A l \in Tasks, r \in Reservation :
        r.age <= QueueTtl /\ r.session \notin dead /\ Honoured(r, l, queue) => Honoured(r, l, living)
  BY LivingHonoured DEF QueueInv
<1>4. /\ DOMAIN told' = Tasks /\ told' = [k \in Tasks |-> told'[k]]
      /\ \A k \in Tasks : Answers(named, k)
  <2> HIDE DEF q
  <2> QED BY <1>1 DEF Answers
<1> HIDE DEF living
<1>5. stay \in SUBSET DOMAIN living
  OBVIOUS
<1>6. \A i \in DOMAIN living : living[i].task \notin named => i \in stay
  OBVIOUS
<1> HIDE DEF stay
<1>7. /\ InOrder(q)
      /\ \A i \in stay : \E j \in DOMAIN q : q[j] = living[i]
  BY <1>2, <1>5, OnlyInOrder
<1> HIDE DEF q
<1>8. \A l \in Tasks \ named, r \in Reservation :
        r.age <= QueueTtl /\ r.session \notin dead /\ Honoured(r, l, queue) => Honoured(r, l, q)
  <2> SUFFICES ASSUME NEW l \in Tasks \ named, NEW r \in Reservation, Honoured(r, l, living)
               PROVE  Honoured(r, l, q)
    BY <1>3
  <2> QED BY <1>6, <1>7 DEF Honoured
<1> QED BY <1>1, <1>4, <1>7, <1>8, BudgetsKept, CommandStep

-----------------------------------------------------------------------------
(* Time passes.                                                            *)
Older(r) == [r EXCEPT !.age = Min({@ + 1, MaxAge})]

LEMMA OlderType ==
  ASSUME NEW r \in Reservation
  PROVE  /\ Older(r) \in Reservation
         /\ Older(r).task = r.task /\ Older(r).session = r.session
         /\ Older(r).granted = r.granted /\ Older(r).want = r.want
         /\ Older(r).age = IF r.age + 1 <= MaxAge THEN r.age + 1 ELSE MaxAge
<1>1. r.age \in 0 .. MaxAge /\ MaxAge \in Nat
  BY Fields, QueueAssumption DEF MaxAge
<1>2. Min({r.age + 1, MaxAge}) = IF r.age + 1 <= MaxAge THEN r.age + 1 ELSE MaxAge
  <2>1. r.age + 1 \in Int /\ MaxAge \in Int
    BY <1>1
  <2> QED BY <2>1, TwoNumbers
<1> DEFINE m == Min({r.age + 1, MaxAge})
<1>3. m \in 0 .. MaxAge
  BY <1>1, <1>2
<1>4. Older(r) = [r EXCEPT !.age = m]
  BY DEF Older
<1> HIDE DEF m
<1>5. /\ Older(r) \in Reservation
      /\ Older(r).task = r.task /\ Older(r).session = r.session
      /\ Older(r).granted = r.granted /\ Older(r).want = r.want
      /\ Older(r).age = m
  BY <1>3, <1>4 DEF Reservation
<1> QED BY <1>2, <1>5 DEF m

LEMMA TickStep == ASSUME QueueInv, TimePasses PROVE QueueInv'
<1>1. /\ queue' = [i \in DOMAIN queue |-> Older(queue[i])]
      /\ told' = [k \in Tasks |-> {Older(r) : r \in told[k]}]
      /\ agentBudget' = agentBudget /\ taskBudget' = taskBudget /\ dead' = dead
  BY DEF TimePasses, Older
<1>2. /\ queue \in Seq(Reservation) /\ told \in [Tasks -> SUBSET Reservation] /\ Single(queue)
      /\ dead \subseteq Sessions /\ agentBudget \in AgentBudgets /\ taskBudget \in TaskBudgets
      /\ Modest(queue) /\ Ordered(queue) /\ NothingIdle /\ Promise
  BY DEF QueueInv, QueueTypeOK, Single
<1> DEFINE N == Len(queue)
<1>3. N \in Nat /\ DOMAIN queue = 1 .. N /\ \A i \in 1 .. N : queue[i] \in Reservation
  BY <1>2
<1> HIDE DEF N
<1>4. DOMAIN queue' = 1 .. N /\ queue' \in Seq(Reservation)
  <2>1. queue' \in [1 .. N -> Reservation]
    BY <1>1, <1>3, OlderType
  <2> QED BY <1>3, <2>1
<1>5. \A i \in 1 .. N :
        /\ queue'[i] = Older(queue[i])
        /\ queue'[i].task = queue[i].task /\ queue'[i].session = queue[i].session
        /\ queue'[i].granted = queue[i].granted /\ queue'[i].want = queue[i].want
  BY <1>1, <1>3, OlderType
<1>6. told' \in [Tasks -> SUBSET Reservation]
  <2>1. \A k \in Tasks : {Older(r) : r \in told[k]} \subseteq Reservation
    BY <1>2, OlderType
  <2> QED BY <1>1, <2>1
<1>7. QueueTypeOK'
  <2>1. \A i, j \in 1 .. N : queue'[i].task = queue'[j].task => i = j
    BY <1>2, <1>3, <1>5 DEF Single
  <2> QED BY <1>1, <1>2, <1>4, <1>6, <2>1 DEF QueueTypeOK
<1>8. Modest(queue') /\ Ordered(queue')
  BY <1>2, <1>3, <1>4, <1>5 DEF Modest, Ordered
<1>9. NothingIdle'
  <2>1. Granted(queue') = Granted(queue)
    BY <1>3, <1>4, <1>5 DEF Granted
  <2>2. TotalGranted(queue') = TotalGranted(queue)
    BY <1>2, <1>4, <2>1, GrantedType
  <2>3. Active(queue') = Active(queue)
    BY <1>3, <1>4, <1>5 DEF Active
  <2>4. Busy(queue, agentBudget, taskBudget)
    BY <1>2 DEF NothingIdle, Busy
  <2>5. Busy(queue', agentBudget', taskBudget')
    BY <1>1, <1>3, <1>4, <1>5, <2>2, <2>3, <2>4 DEF Busy
  <2> QED BY <2>5 DEF NothingIdle, Busy
<1>10. Promise'
  <2> SUFFICES ASSUME NEW k \in Tasks, NEW x \in told'[k]
               PROVE  /\ x.task = k /\ x.session \notin dead'
                      /\ x.age <= QueueTtl => Honoured(x, k, queue')
    BY DEF Promise, Honoured
  <2>1. PICK r \in told[k] : x = Older(r)
    BY <1>1
  <2>2. r \in Reservation
    BY <1>2
  <2>3. r.task = k /\ r.session \notin dead /\ (r.age <= QueueTtl => Honoured(r, k, queue))
    BY <1>2 DEF Promise, Honoured
  <2>4. /\ x.task = r.task /\ x.session = r.session /\ x.granted = r.granted
        /\ x.age = IF r.age + 1 <= MaxAge THEN r.age + 1 ELSE MaxAge
    BY <2>1, <2>2, OlderType
  <2>5. r.age \in Nat /\ QueueTtl \in Nat /\ MaxAge \in Nat /\ MaxAge > QueueTtl
    BY <2>2, Fields, QueueAssumption DEF MaxAge
  <2>6. x.age <= QueueTtl => r.age <= QueueTtl
    BY <2>4, <2>5
  <2>7. Honoured(r, k, queue) => Honoured(x, k, queue')
    <3> SUFFICES ASSUME NEW i \in DOMAIN queue, queue[i].task = k,
                        queue[i].session = r.session, queue[i].age = r.age,
                        queue[i].granted >= r.granted
                 PROVE  Honoured(x, k, queue')
      BY DEF Honoured
    <3>1. i \in 1 .. N /\ queue[i] \in Reservation
      BY <1>3
    <3>2. queue'[i].age = x.age
      BY <1>5, <2>4, <3>1, OlderType
    <3> QED BY <1>4, <1>5, <2>4, <3>1, <3>2 DEF Honoured
  <2> QED BY <1>1, <2>3, <2>4, <2>6, <2>7
<1> QED BY <1>7, <1>8, <1>9, <1>10 DEF QueueInv

LEMMA ExitStep == ASSUME QueueInv, NEW s \in Sessions, Exit(s) PROVE QueueInv'
<1>1. /\ queue' = queue /\ agentBudget' = agentBudget /\ taskBudget' = taskBudget
      /\ dead' = dead \cup {s} /\ told' = [k \in Tasks |-> {r \in told[k] : r.session # s}]
  BY DEF Exit
<1>2. QueueTypeOK'
  BY <1>1 DEF QueueInv, QueueTypeOK
<1>3. Modest(queue') /\ Ordered(queue') /\ NothingIdle'
  BY <1>1 DEF QueueInv, NothingIdle
<1>4. Promise'
  BY <1>1 DEF QueueInv, Promise
<1> QED BY <1>2, <1>3, <1>4 DEF QueueInv

LEMMA RegisterStep == ASSUME QueueInv, NEW s \in Sessions, Register(s) PROVE QueueInv'
<1>1. /\ queue' = queue /\ agentBudget' = agentBudget /\ taskBudget' = taskBudget
      /\ dead' = dead \ {s} /\ told' = told
  BY DEF Register
<1>2. QueueTypeOK'
  BY <1>1 DEF QueueInv, QueueTypeOK
<1>3. Modest(queue') /\ Ordered(queue') /\ NothingIdle'
  BY <1>1 DEF QueueInv, NothingIdle
<1>4. Promise'
  BY <1>1 DEF QueueInv, Promise
<1> QED BY <1>2, <1>3, <1>4 DEF QueueInv

(* The invariant holds at first and is kept by every step.                 *)
LEMMA InitQueue == QueueInit => QueueInv
<1> SUFFICES ASSUME QueueInit PROVE QueueInv
  OBVIOUS
<1>1. DOMAIN queue = {} /\ queue \in Seq(Reservation)
  BY DEF QueueInit
<1>2. QueueTypeOK /\ Promise
  BY <1>1 DEF QueueInit, QueueTypeOK, Promise
<1>3. Modest(queue) /\ Ordered(queue) /\ NothingIdle
  BY <1>1 DEF Modest, Ordered, NothingIdle
<1> QED BY <1>2, <1>3 DEF QueueInv

LEMMA NextQueue == QueueInv /\ [QueueNext]_queueVars => QueueInv'
<1> SUFFICES ASSUME QueueInv, [QueueNext]_queueVars PROVE QueueInv'
  OBVIOUS
<1>1. CASE Commands
  <2>1. PICK lag \in 0 .. MaxLag, seen \in SUBSET dead :
          \/ \E k \in Tasks, n \in Wants, s \in Owners : Reserve(k, n, s, lag, seen)
          \/ \E k, l \in Tasks : ReleaseTasks({k, l}, lag, seen)
          \/ \E k \in Tasks : Poll({k}, lag, seen)
          \/ Poll({}, lag, seen)
          \/ \E agents \in AgentBudgets, tasks \in TaskBudgets : SetBudget(agents, tasks, lag, seen)
    BY <1>1 DEF Commands
  <2>2. CASE \E k \in Tasks, n \in Wants, s \in Owners : Reserve(k, n, s, lag, seen)
    BY <2>2, ReserveStep
  <2>3. CASE \E k, l \in Tasks : ReleaseTasks({k, l}, lag, seen)
    <3>1. \A k, l \in Tasks : {k, l} \in SUBSET Tasks
      OBVIOUS
    <3> QED BY <2>3, <3>1, ReleaseStep
  <2>4. CASE \E k \in Tasks : Poll({k}, lag, seen)
    <3>1. \A k \in Tasks : {k} \in SUBSET Tasks
      OBVIOUS
    <3> QED BY <2>4, <3>1, PollStep
  <2>5. CASE Poll({}, lag, seen)
    <3>1. {} \in SUBSET Tasks
      OBVIOUS
    <3> QED BY <2>5, <3>1, PollStep
  <2>6. CASE \E agents \in AgentBudgets, tasks \in TaskBudgets : SetBudget(agents, tasks, lag, seen)
    BY <2>6, SetBudgetStep
  <2> QED BY <2>1, <2>2, <2>3, <2>4, <2>5, <2>6
<1>2. CASE TimePasses
  BY <1>2, TickStep
<1>3. CASE \E s \in Sessions : Exit(s) \/ Register(s)
  BY <1>3, ExitStep, RegisterStep
<1>4. CASE UNCHANGED queueVars
  <2>1. queue' = queue /\ agentBudget' = agentBudget /\ taskBudget' = taskBudget
        /\ dead' = dead /\ told' = told
    BY <1>4 DEF queueVars
  <2> QED BY <2>1 DEF QueueInv, QueueTypeOK, NothingIdle, Promise
<1> QED BY <1>1, <1>2, <1>3, <1>4 DEF QueueNext

LEMMA QueueInductive == QueueSpec => []QueueInv
<1> QED BY InitQueue, NextQueue, PTL DEF QueueSpec

(* One reservation at most for a task, budgets that may be set, and answers*)
(* that are reservations.                                                  *)
THEOREM QueueTypeCorrect == QueueSpec => []QueueTypeOK
<1>1. QueueInv => QueueTypeOK
  BY DEF QueueInv
<1> QED BY <1>1, QueueInductive, PTL

(* Whatever is dropped, released, asked or set, every transaction leaves   *)
(* agents idle only when nobody who may have them wants them.              *)
THEOREM NeverIdle == QueueSpec => []NothingIdle
<1>1. QueueInv => NothingIdle
  BY DEF QueueInv
<1> QED BY <1>1, QueueInductive, PTL

(* No reservation has agents while one that came earlier has none.         *)
THEOREM FirstComeFirstServed == QueueSpec => []NoOvertaking
<1>1. QueueInv => NoOvertaking
  <2> SUFFICES ASSUME QueueInv PROVE NoOvertaking
    OBVIOUS
  <2>1. queue \in Seq(Reservation) /\ Ordered(queue)
    BY DEF QueueInv, QueueTypeOK
  <2>2. PICK a \in 0 .. Len(queue) : \A i \in 1 .. Len(queue) : queue[i].granted > 0 <=> i <= a
    BY <2>1, ActiveFirst
  <2>3. Active(queue) = 1 .. a /\ Cardinality(Active(queue)) = a
    BY <2>1, <2>2, ActiveCount
  <2> QED BY <2>3 DEF NoOvertaking
<1> QED BY <1>1, QueueInductive, PTL

(* What a caller was told stays reserved for it, by the same session and   *)
(* with no fewer agents, although other commands drop, allocate and change *)
(* budgets with an earlier time and an older view of the dead.             *)
THEOREM PromisesKept == QueueSpec => []PromiseKept
<1>1. QueueInv => PromiseKept
  BY DEF QueueInv, Promise, PromiseKept
<1> QED BY <1>1, QueueInductive, PTL
=============================================================================
