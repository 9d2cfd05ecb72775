---------------------------- MODULE DispatchLedger ----------------------------
(***************************************************************************)
(* The shared dispatch admission authority (concurrency/dispatch): a file  *)
(* of leases, dispatch-admission.json, that every process admitting a      *)
(* worker updates inside one exclusive file lock.  A transaction reads its *)
(* clock before it waits for the lock, reaps the leases that are older     *)
(* than the TTL or whose owner process is dead, checks and applies its     *)
(* operation, and writes the file.  A transaction that is refused writes   *)
(* nothing, its reaping included.                                          *)
(*                                                                         *)
(* The callers are left open: any live process may ask for anything.       *)
(***************************************************************************)
EXTENDS Integers, FiniteSets

CONSTANTS
  Ids,          \* lease ids: scheduler run ids or direct run ids
  Tasks,        \* task ids: plan ids, or a direct run's own id
  Engines, Accounts, Sessions,
  Pids,         \* operating system processes; a pid may be used again
  None,
  NoCap,        \* an absent optional cap
  FleetCap, TaskCap, ProviderCap,   \* TaskCap 0 means no cap
  LaneCap, SessionCap,
  Ttl,          \* lease_ttl_seconds
  MaxTime       \* bound of the model: the last instant of the clock

Lease == [task : Tasks, engine : Engines \cup {None}, account : Accounts \cup {None},
          session : Sessions \cup {None}, owner : Pids, created : Nat]

ASSUME LedgerAssumption ==
  /\ IsFiniteSet(Ids) /\ IsFiniteSet(Tasks) /\ IsFiniteSet(Sessions)
  /\ None \notin Lease /\ None \notin Engines /\ None \notin Accounts /\ None \notin Sessions
  /\ NoCap \notin Nat
  /\ FleetCap \in Nat \cup {NoCap} /\ ProviderCap \in Nat \cup {NoCap}
  /\ TaskCap \in Nat
  /\ LaneCap \in Nat \ {0} /\ SessionCap \in Nat \ {0}
  /\ Ttl \in Nat /\ MaxTime \in Nat

VARIABLES
  leases,   \* the file: the lease of each id, None if there is none
  live,     \* the processes that run
  clock

vars == <<leases, live, clock>>

(* The lease file holds at most one lease of an id, live names processes.  *)
TypeOK ==
  /\ leases \in [Ids -> Lease \cup {None}]
  /\ live \in SUBSET Pids
  /\ clock \in Nat

-----------------------------------------------------------------------------
(* Questions about a lease table L.                                        *)

Held(L) == {i \in Ids : L[i] # None}

TasksOf(L) == {L[i].task : i \in Held(L)}

OnEngine(L, e) == {i \in Held(L) : L[i].engine = e}

OnAccount(L, e, a) == {i \in OnEngine(L, e) : L[i].account = a}

SessionsOf(L, e, a) == {L[i].session : i \in OnAccount(L, e, a)} \ {None}

Below(n, cap) == cap # NoCap => n < cap

(* reap at time t: `created`, never the time of the last bind, is the age. *)
Reap(L, t) ==
  [i \in Ids |-> IF L[i] # None /\ t - L[i].created <= Ttl /\ L[i].owner \in live
                 THEN L[i] ELSE None]

(* check_capacity *)
HasRoom(L, k, e) ==
  /\ Below(Cardinality(Held(L)), FleetCap)
  /\ TaskCap # 0 => (k \in TasksOf(L) \/ Cardinality(TasksOf(L)) < TaskCap)
  /\ e # None => Below(Cardinality(OnEngine(L, e)), ProviderCap)

Without(L, i) == [L EXCEPT ![i] = None]

(* Wrong on purpose: a bind that moves to another engine is not counted    *)
(* there.                                                                  *)
BoundRoomAnyProvider(L, i, e, a, s) ==
  LET others == Without(L, i)
  IN  /\ Cardinality(OnAccount(others, e, a)) < LaneCap
      /\ \/ s \in SessionsOf(others, e, a)
         \/ Cardinality(SessionsOf(others, e, a)) < SessionCap

(* check_bound_capacity: the other leases of the engine and the account.   *)
HasBoundRoom(L, i, e, a, s) ==
  LET others == Without(L, i)
  IN  /\ Below(Cardinality(OnEngine(others, e)), ProviderCap)
      /\ Cardinality(OnAccount(others, e, a)) < LaneCap
      /\ \/ s \in SessionsOf(others, e, a)
         \/ Cardinality(SessionsOf(others, e, a)) < SessionCap

(* A new lease is stamped inside the lock.                                 *)
NewLease(p, k, e) ==
  [task |-> k, engine |-> e, account |-> None, session |-> None,
   owner |-> p, created |-> clock]

-----------------------------------------------------------------------------
Init ==
  /\ leases = [i \in Ids |-> None]
  /\ live = Pids
  /\ clock = 0

(* The transactions on the table; t is when the caller read its clock.     *)

ReserveTx(p, i, k, e, t) ==
  LET L == Reap(leases, t)
  IN  /\ L[i] = None
      /\ HasRoom(L, k, e)
      /\ leases' = [L EXCEPT ![i] = NewLease(p, k, e)]

(* An id that is held already is confirmed when task and engine agree; the *)
(* lease keeps the owner and the age it had.                               *)
ConfirmTx(i, k, e, t) ==
  LET L == Reap(leases, t)
  IN  /\ L[i] # None
      /\ L[i].task = k
      /\ e # None => L[i].engine = e
      /\ leases' = L

EnsureReservedTx(p, i, k, e, t) == ReserveTx(p, i, k, e, t) \/ ConfirmTx(i, k, e, t)

(* Wrong on purpose: a lease that stays on its account changes its session *)
(* unchecked.                                                              *)
BindTxSameAccount(i, e, a, s, t) ==
  LET L == Reap(leases, t)
  IN  /\ L[i] # None
      /\ \/ L[i].engine = e /\ L[i].account = a
         \/ HasBoundRoom(L, i, e, a, s)
      /\ leases' = [L EXCEPT ![i].engine = e, ![i].account = a, ![i].session = s]

BindTx(i, e, a, s, t) ==
  LET L == Reap(leases, t)
  IN  /\ L[i] # None
      /\ \/ /\ L[i].engine = e /\ L[i].account = a /\ L[i].session = s
            /\ leases' = L
         \/ /\ HasBoundRoom(L, i, e, a, s)
            /\ leases' = [L EXCEPT ![i].engine = e, ![i].account = a, ![i].session = s]

ReleaseTx(i, t) == leases' = Without(Reap(leases, t), i)

SnapshotTx(t) == leases' = Reap(leases, t)

-----------------------------------------------------------------------------
Reserve(p, i, k, e, t) == p \in live /\ ReserveTx(p, i, k, e, t) /\ UNCHANGED <<live, clock>>

EnsureReserved(p, i, k, e, t) ==
  p \in live /\ EnsureReservedTx(p, i, k, e, t) /\ UNCHANGED <<live, clock>>

Bind(i, e, a, s, t) == BindTx(i, e, a, s, t) /\ UNCHANGED <<live, clock>>

Release(i, t) == ReleaseTx(i, t) /\ UNCHANGED <<live, clock>>

Snapshot(t) == SnapshotTx(t) /\ UNCHANGED <<live, clock>>

Exit(p) == p \in live /\ live' = live \ {p} /\ UNCHANGED <<leases, clock>>

(* A new process may get the pid of a dead one.                            *)
Launch(p) == p \notin live /\ live' = live \cup {p} /\ UNCHANGED <<leases, clock>>

Tick == clock < MaxTime /\ clock' = clock + 1 /\ UNCHANGED <<leases, live>>

Next ==
  \/ \E t \in 0..clock :
       \/ \E p \in Pids, i \in Ids, k \in Tasks, e \in Engines \cup {None} :
            Reserve(p, i, k, e, t) \/ EnsureReserved(p, i, k, e, t)
       \/ \E i \in Ids, e \in Engines, a \in Accounts, s \in Sessions : Bind(i, e, a, s, t)
       \/ \E i \in Ids : Release(i, t)
       \/ Snapshot(t)
  \/ \E p \in Pids : Exit(p) \/ Launch(p)
  \/ Tick

Spec == Init /\ [][Next]_vars

-----------------------------------------------------------------------------
AtMost(n, cap) == cap = NoCap \/ n <= cap

(* Never more leases than the fleet cap, whichever processes reserve,      *)
(* die, or come back late from waiting for the file lock.                  *)
FleetWithinCap == AtMost(Cardinality(Held(leases)), FleetCap)

(* Never leases of more distinct tasks than the task cap, if there is one. *)
TasksWithinCap == TaskCap # 0 => Cardinality(TasksOf(leases)) <= TaskCap

(* The provider cap is checked at reservation, when the engine is known,   *)
(* and again at the bind, which may move the lease to another engine.      *)
ProviderWithinCap == \A e \in Engines : AtMost(Cardinality(OnEngine(leases, e)), ProviderCap)

(* The reservation caps hold together in every state.                      *)
ReservationCaps == FleetWithinCap /\ TasksWithinCap /\ ProviderWithinCap

(* No account runs more lanes, or more distinct sessions, than its limits, *)
(* also when a lease is bound again to another session or account.         *)
AccountCaps ==
  \A e \in Engines, a \in Accounts :
    /\ Cardinality(OnAccount(leases, e, a)) <= LaneCap
    /\ Cardinality(SessionsOf(leases, e, a)) <= SessionCap
=============================================================================
