--------------------------- MODULE Accounts_proofs ---------------------------
(***************************************************************************)
(* Who may use which account: the leases of DispatchLedger, and then the   *)
(* rotations of AccountRotation.                                           *)
(***************************************************************************)
EXTENDS DispatchLedger, AccountRotation, FiniteSetTheorems, TLAPS

(***************************************************************************)
(* DispatchLedger: for every fleet, task, provider, lane and session cap,  *)
(* and every TTL, no interleaving of transactions, process deaths and pid  *)
(* reuse makes the lease table exceed a cap.                               *)
(***************************************************************************)

Tables == [Ids -> Lease \cup {None}]

(* Table M is table L with some leases taken away.                         *)
SubTable(M, L) == \A i \in Ids : M[i] = None \/ M[i] = L[i]

FleetOK(L) == AtMost(Cardinality(Held(L)), FleetCap)
TaskOK(L) == TaskCap # 0 => Cardinality(TasksOf(L)) <= TaskCap
ProviderOK(L) == \A e \in Engines : AtMost(Cardinality(OnEngine(L, e)), ProviderCap)
LaneOK(L) == \A e \in Engines, a \in Accounts : Cardinality(OnAccount(L, e, a)) <= LaneCap
SessionOK(L) ==
  \A e \in Engines, a \in Accounts : Cardinality(SessionsOf(L, e, a)) <= SessionCap

CapsOK(L) == FleetOK(L) /\ TaskOK(L) /\ ProviderOK(L) /\ LaneOK(L) /\ SessionOK(L)

-----------------------------------------------------------------------------
(* Every set a cap counts is finite.                                       *)
LEMMA FiniteParts ==
  ASSUME NEW L \in Tables, NEW e, NEW a
  PROVE  /\ IsFiniteSet(Held(L)) /\ IsFiniteSet(TasksOf(L)) /\ IsFiniteSet(OnEngine(L, e))
         /\ IsFiniteSet(OnAccount(L, e, a)) /\ IsFiniteSet(SessionsOf(L, e, a))
         /\ Cardinality(Held(L)) \in Nat /\ Cardinality(TasksOf(L)) \in Nat
         /\ Cardinality(OnEngine(L, e)) \in Nat /\ Cardinality(OnAccount(L, e, a)) \in Nat
         /\ Cardinality(SessionsOf(L, e, a)) \in Nat
<1>1. /\ Held(L) \in SUBSET Ids /\ OnEngine(L, e) \in SUBSET Ids
      /\ OnAccount(L, e, a) \in SUBSET Ids
  BY DEF Held, OnEngine, OnAccount
<1>2. TasksOf(L) \in SUBSET Tasks
  BY DEF TasksOf, Held, Tables, Lease
<1>3. SessionsOf(L, e, a) \in SUBSET Sessions
  BY DEF SessionsOf, OnAccount, OnEngine, Held, Tables, Lease
<1>4. IsFiniteSet(Ids) /\ IsFiniteSet(Tasks) /\ IsFiniteSet(Sessions)
  BY LedgerAssumption
<1>5. /\ IsFiniteSet(Held(L)) /\ IsFiniteSet(TasksOf(L)) /\ IsFiniteSet(OnEngine(L, e))
      /\ IsFiniteSet(OnAccount(L, e, a)) /\ IsFiniteSet(SessionsOf(L, e, a))
  BY <1>1, <1>2, <1>3, <1>4, FS_Subset
<1> QED
  BY <1>5, FS_CardinalityType

LEMMA SmallerSet ==
  ASSUME NEW S, NEW T, IsFiniteSet(T), S \subseteq T
  PROVE  /\ IsFiniteSet(S)
         /\ Cardinality(S) \in Nat /\ Cardinality(T) \in Nat
         /\ Cardinality(S) <= Cardinality(T)
BY FS_Subset, FS_CardinalityType

LEMMA OneMore ==
  ASSUME NEW S, NEW T, NEW x, IsFiniteSet(T), S \subseteq T \cup {x}
  PROVE  /\ IsFiniteSet(S)
         /\ Cardinality(S) \in Nat /\ Cardinality(T) \in Nat
         /\ Cardinality(S) <= Cardinality(T) + 1
         /\ x \in T => Cardinality(S) <= Cardinality(T)
<1>1. IsFiniteSet(T \cup {x}) /\ Cardinality(T) \in Nat /\ Cardinality(T \cup {x}) \in Nat
  BY FS_AddElement, FS_CardinalityType
<1>2. Cardinality(T \cup {x}) <= Cardinality(T) + 1
  BY <1>1, FS_AddElement
<1>3. x \in T => Cardinality(T \cup {x}) = Cardinality(T)
  BY FS_AddElement
<1>4. IsFiniteSet(S) /\ Cardinality(S) \in Nat /\ Cardinality(S) <= Cardinality(T \cup {x})
  BY <1>1, SmallerSet
<1> QED
  BY <1>1, <1>2, <1>3, <1>4

(* Taking leases away keeps every cap.                                     *)
LEMMA SubTableCaps ==
  ASSUME NEW L \in Tables, NEW M \in Tables, SubTable(M, L), CapsOK(L)
  PROVE  CapsOK(M)
<1>1. /\ Held(M) \subseteq Held(L)
      /\ TasksOf(M) \subseteq TasksOf(L)
      /\ \A e : OnEngine(M, e) \subseteq OnEngine(L, e)
      /\ \A e, a : OnAccount(M, e, a) \subseteq OnAccount(L, e, a)
      /\ \A e, a : SessionsOf(M, e, a) \subseteq SessionsOf(L, e, a)
  BY DEF SubTable, Held, TasksOf, OnEngine, OnAccount, SessionsOf
<1>2. LaneCap \in Nat /\ SessionCap \in Nat /\ TaskCap \in Nat
      /\ FleetCap \in Nat \cup {NoCap} /\ ProviderCap \in Nat \cup {NoCap}
  BY LedgerAssumption
<1>3. FleetOK(M)
  BY <1>1, <1>2, FiniteParts, SmallerSet DEF CapsOK, FleetOK, AtMost
<1>4. TaskOK(M)
  BY <1>1, <1>2, FiniteParts, SmallerSet DEF CapsOK, TaskOK
<1>5. ProviderOK(M)
  BY <1>1, <1>2, FiniteParts, SmallerSet DEF CapsOK, ProviderOK, AtMost
<1>6. LaneOK(M)
  BY <1>1, <1>2, FiniteParts, SmallerSet DEF CapsOK, LaneOK
<1>7. SessionOK(M)
  BY <1>1, <1>2, FiniteParts, SmallerSet DEF CapsOK, SessionOK
<1> QED
  BY <1>3, <1>4, <1>5, <1>6, <1>7 DEF CapsOK

LEMMA ReapSub ==
  ASSUME NEW L \in Tables, NEW t
  PROVE  Reap(L, t) \in Tables /\ SubTable(Reap(L, t), L)
BY DEF Tables, Reap, SubTable

LEMMA WithoutSub ==
  ASSUME NEW L \in Tables, NEW i \in Ids
  PROVE  Without(L, i) \in Tables /\ SubTable(Without(L, i), L)
BY DEF Tables, Without, SubTable

LEMMA ReapCaps ==
  ASSUME NEW L \in Tables, CapsOK(L), NEW t
  PROVE  Reap(L, t) \in Tables /\ CapsOK(Reap(L, t))
BY ReapSub, SubTableCaps

(* A reservation that found room leaves every cap respected.               *)
LEMMA ReserveCaps ==
  ASSUME NEW L \in Tables, CapsOK(L), NEW i \in Ids, L[i] = None,
         NEW p \in Pids, NEW k \in Tasks, NEW e \in Engines \cup {None},
         HasRoom(L, k, e), clock \in Nat
  PROVE  /\ [L EXCEPT ![i] = NewLease(p, k, e)] \in Tables
         /\ CapsOK([L EXCEPT ![i] = NewLease(p, k, e)])
<1> DEFINE x == NewLease(p, k, e)
           M == [L EXCEPT ![i] = x]
<1>1. x \in Lease /\ x.task = k /\ x.engine = e /\ x.account = None
  BY DEF NewLease, Lease
<1> HIDE DEF x
<1>2. M \in Tables
  BY <1>1 DEF Tables
<1>3. M[i] = x /\ \A j \in Ids : j # i => M[j] = L[j]
  BY DEF Tables
<1> HIDE DEF M
<1>4. LaneCap \in Nat /\ SessionCap \in Nat /\ TaskCap \in Nat /\ None \notin Accounts
      /\ None \notin Engines
      /\ FleetCap \in Nat \cup {NoCap} /\ ProviderCap \in Nat \cup {NoCap}
  BY LedgerAssumption
<1>5. FleetOK(M)
  <2>1. Held(M) \subseteq Held(L) \cup {i}
    BY <1>3 DEF Held
  <2>2. Cardinality(Held(M)) <= Cardinality(Held(L)) + 1
    BY <2>1, FiniteParts, OneMore
  <2>3. Cardinality(Held(M)) \in Nat /\ Cardinality(Held(L)) \in Nat
    BY <1>2, FiniteParts
  <2> QED
    BY <1>4, <2>2, <2>3 DEF FleetOK, AtMost, HasRoom, Below
<1>6. TaskOK(M)
  <2>1. TasksOf(M) \subseteq TasksOf(L) \cup {k}
    BY <1>1, <1>3 DEF TasksOf, Held
  <2>2. /\ Cardinality(TasksOf(M)) <= Cardinality(TasksOf(L)) + 1
        /\ k \in TasksOf(L) => Cardinality(TasksOf(M)) <= Cardinality(TasksOf(L))
    BY <2>1, FiniteParts, OneMore
  <2>3. Cardinality(TasksOf(M)) \in Nat /\ Cardinality(TasksOf(L)) \in Nat
    BY <1>2, FiniteParts
  <2> QED
    BY <1>4, <2>2, <2>3 DEF TaskOK, CapsOK, HasRoom
<1>7. ProviderOK(M)
  <2> SUFFICES ASSUME NEW f \in Engines
               PROVE  AtMost(Cardinality(OnEngine(M, f)), ProviderCap)
    BY DEF ProviderOK
  <2>1. Cardinality(OnEngine(M, f)) \in Nat /\ Cardinality(OnEngine(L, f)) \in Nat
    BY <1>2, FiniteParts
  <2>2. CASE f = e
    <3>1. OnEngine(M, f) \subseteq OnEngine(L, f) \cup {i}
      BY <1>3 DEF OnEngine, Held
    <3>2. Cardinality(OnEngine(M, f)) <= Cardinality(OnEngine(L, f)) + 1
      BY <3>1, FiniteParts, OneMore
    <3> QED
      BY <1>4, <2>1, <2>2, <3>2 DEF AtMost, HasRoom, Below
  <2>3. CASE f # e
    <3>1. OnEngine(M, f) \subseteq OnEngine(L, f)
      BY <1>1, <1>3, <2>3 DEF OnEngine, Held
    <3>2. Cardinality(OnEngine(M, f)) <= Cardinality(OnEngine(L, f))
      BY <3>1, FiniteParts, SmallerSet
    <3> QED
      BY <1>4, <2>1, <3>2 DEF AtMost, CapsOK, ProviderOK
  <2> QED
    BY <2>2, <2>3
<1>8. \A f, a : a \in Accounts => OnAccount(M, f, a) \subseteq OnAccount(L, f, a)
  BY <1>1, <1>3, <1>4 DEF OnAccount, OnEngine, Held
<1>9. LaneOK(M)
  BY <1>2, <1>4, <1>8, FiniteParts, SmallerSet DEF CapsOK, LaneOK
<1>10. SessionOK(M)
  <2>1. \A f, a : a \in Accounts => SessionsOf(M, f, a) \subseteq SessionsOf(L, f, a)
    <3>1. \A f, a : a \in Accounts => \A j \in OnAccount(M, f, a) : M[j] = L[j]
      BY <1>1, <1>3, <1>4 DEF OnAccount, OnEngine, Held
    <3> QED
      BY <1>8, <3>1 DEF SessionsOf
  <2> QED
    BY <1>2, <1>4, <2>1, FiniteParts, SmallerSet DEF CapsOK, SessionOK
<1>11. CapsOK(M)
  BY <1>5, <1>6, <1>7, <1>9, <1>10 DEF CapsOK
<1> QED
  BY <1>2, <1>11 DEF M, x

(* A bind that found room, also one that moves a lease to another engine,  *)
(* account or session, leaves every cap respected.                         *)
LEMMA BindCaps ==
  ASSUME NEW L \in Tables, CapsOK(L), NEW i \in Ids, L[i] # None,
         NEW e \in Engines, NEW a \in Accounts, NEW s \in Sessions,
         HasBoundRoom(L, i, e, a, s),
         NEW M, M = [L EXCEPT ![i].engine = e, ![i].account = a, ![i].session = s]
  PROVE  M \in Tables /\ CapsOK(M)
<1> DEFINE others == Without(L, i)
<1>1. L[i] \in Lease
  BY DEF Tables
<1>2. /\ M \in [Ids -> Lease \cup {None}]
      /\ M[i] \in Lease
      /\ M[i].engine = e /\ M[i].account = a /\ M[i].session = s /\ M[i].task = L[i].task
      /\ \A j \in Ids : j # i => M[j] = L[j]
  BY <1>1 DEF Tables, Lease
<1>3. /\ others \in Tables /\ others[i] = None
      /\ \A j \in Ids : j # i => others[j] = L[j]
  BY DEF Tables, Without
<1>4. M \in Tables
  BY <1>2 DEF Tables
<1>5. CapsOK(others)
  BY WithoutSub, SubTableCaps
<1> HIDE DEF others
<1>6. LaneCap \in Nat /\ SessionCap \in Nat /\ TaskCap \in Nat
      /\ FleetCap \in Nat \cup {NoCap} /\ ProviderCap \in Nat \cup {NoCap}
  BY LedgerAssumption
<1>7. M[i] # None
  BY <1>2, LedgerAssumption
<1>8. FleetOK(M)
  <2>1. Held(M) = Held(L)
    BY <1>2, <1>7 DEF Held
  <2> QED
    BY <2>1 DEF CapsOK, FleetOK
<1>9. TaskOK(M)
  <2>1. Held(M) = Held(L) /\ \A j \in Held(L) : M[j].task = L[j].task
    BY <1>2, <1>7 DEF Held
  <2>2. TasksOf(M) = TasksOf(L)
    BY <2>1 DEF TasksOf
  <2> QED
    BY <2>2 DEF CapsOK, TaskOK
<1>10. HasBoundRoom(L, i, e, a, s) <=>
         /\ Below(Cardinality(OnEngine(others, e)), ProviderCap)
         /\ Cardinality(OnAccount(others, e, a)) < LaneCap
         /\ \/ s \in SessionsOf(others, e, a)
            \/ Cardinality(SessionsOf(others, e, a)) < SessionCap
  BY DEF HasBoundRoom, others
<1>11. ProviderOK(M)
  <2> SUFFICES ASSUME NEW f \in Engines
               PROVE  AtMost(Cardinality(OnEngine(M, f)), ProviderCap)
    BY DEF ProviderOK
  <2>1. Cardinality(OnEngine(M, f)) \in Nat /\ Cardinality(OnEngine(others, f)) \in Nat
    BY <1>3, <1>4, FiniteParts
  <2>2. CASE f = e
    <3>1. OnEngine(M, f) \subseteq OnEngine(others, f) \cup {i}
      BY <1>2, <1>3 DEF OnEngine, Held
    <3>2. Cardinality(OnEngine(M, f)) <= Cardinality(OnEngine(others, f)) + 1
      BY <1>3, <3>1, FiniteParts, OneMore
    <3> QED
      BY <1>6, <1>10, <2>1, <2>2, <3>2 DEF AtMost, Below
  <2>3. CASE f # e
    <3>1. OnEngine(M, f) \subseteq OnEngine(others, f)
      BY <1>2, <1>3, <2>3 DEF OnEngine, Held
    <3>2. Cardinality(OnEngine(M, f)) <= Cardinality(OnEngine(others, f))
      BY <1>3, <3>1, FiniteParts, SmallerSet
    <3> QED
      BY <1>5, <1>6, <2>1, <3>2 DEF AtMost, CapsOK, ProviderOK
  <2> QED
    BY <2>2, <2>3
<1>12. \A f, b : OnAccount(M, f, b) \subseteq OnAccount(others, f, b) \cup {i}
  BY <1>2, <1>3 DEF OnAccount, OnEngine, Held
<1>13. \A f, b : ~ (f = e /\ b = a) => OnAccount(M, f, b) \subseteq OnAccount(others, f, b)
  BY <1>2, <1>3 DEF OnAccount, OnEngine, Held
<1>14. LaneOK(M)
  <2> SUFFICES ASSUME NEW f \in Engines, NEW b \in Accounts
               PROVE  Cardinality(OnAccount(M, f, b)) <= LaneCap
    BY DEF LaneOK
  <2>1. Cardinality(OnAccount(M, f, b)) \in Nat /\ Cardinality(OnAccount(others, f, b)) \in Nat
    BY <1>3, <1>4, FiniteParts
  <2>2. CASE f = e /\ b = a
    <3>1. Cardinality(OnAccount(M, f, b)) <= Cardinality(OnAccount(others, f, b)) + 1
      BY <1>3, <1>12, FiniteParts, OneMore
    <3> QED
      BY <1>6, <1>10, <2>1, <2>2, <3>1
  <2>3. CASE ~ (f = e /\ b = a)
    <3>1. Cardinality(OnAccount(M, f, b)) <= Cardinality(OnAccount(others, f, b))
      BY <1>3, <1>13, <2>3, FiniteParts, SmallerSet
    <3> QED
      BY <1>5, <1>6, <2>1, <3>1 DEF CapsOK, LaneOK
  <2> QED
    BY <2>2, <2>3
<1>15. SessionOK(M)
  <2> SUFFICES ASSUME NEW f \in Engines, NEW b \in Accounts
               PROVE  Cardinality(SessionsOf(M, f, b)) <= SessionCap
    BY DEF SessionOK
  <2>1. /\ Cardinality(SessionsOf(M, f, b)) \in Nat
        /\ Cardinality(SessionsOf(others, f, b)) \in Nat
    BY <1>3, <1>4, FiniteParts
  <2>2. Cardinality(SessionsOf(others, f, b)) <= SessionCap
    BY <1>5 DEF CapsOK, SessionOK
  <2>3. CASE f = e /\ b = a
    <3>1. SessionsOf(M, f, b) \subseteq SessionsOf(others, f, b) \cup {s}
      BY <1>2, <1>3, <1>12 DEF SessionsOf, OnAccount, OnEngine, Held
    <3>2. /\ Cardinality(SessionsOf(M, f, b)) <= Cardinality(SessionsOf(others, f, b)) + 1
          /\ s \in SessionsOf(others, f, b) =>
               Cardinality(SessionsOf(M, f, b)) <= Cardinality(SessionsOf(others, f, b))
      BY <1>3, <3>1, FiniteParts, OneMore
    <3> QED
      BY <1>6, <1>10, <2>1, <2>2, <2>3, <3>2
  <2>4. CASE ~ (f = e /\ b = a)
    <3>1. \A j \in OnAccount(M, f, b) : j # i
      BY <1>2, <2>4 DEF OnAccount, OnEngine
    <3>2. SessionsOf(M, f, b) \subseteq SessionsOf(others, f, b)
      BY <1>2, <1>3, <3>1 DEF SessionsOf, OnAccount, OnEngine, Held
    <3>3. Cardinality(SessionsOf(M, f, b)) <= Cardinality(SessionsOf(others, f, b))
      BY <1>3, <3>2, FiniteParts, SmallerSet
    <3> QED
      BY <1>6, <2>1, <2>2, <3>3
  <2> QED
    BY <2>3, <2>4
<1> QED
  BY <1>4, <1>8, <1>9, <1>11, <1>14, <1>15 DEF CapsOK

-----------------------------------------------------------------------------
IInv == TypeOK /\ CapsOK(leases)

LEMMA InitIInv == Init => IInv
<1> SUFFICES ASSUME Init PROVE IInv
  OBVIOUS
<1>1. TypeOK /\ leases \in Tables
  BY DEF Init, TypeOK, Tables
<1>2. /\ Held(leases) = {} /\ TasksOf(leases) = {}
      /\ \A e, a : /\ OnEngine(leases, e) = {} /\ OnAccount(leases, e, a) = {}
                   /\ SessionsOf(leases, e, a) = {}
  BY DEF Init, Held, TasksOf, OnEngine, OnAccount, SessionsOf
<1>3. Cardinality({}) = 0
  BY FS_EmptySet
<1>4. CapsOK(leases)
  BY <1>2, <1>3, LedgerAssumption
     DEF CapsOK, FleetOK, TaskOK, ProviderOK, LaneOK, SessionOK, AtMost
<1> QED
  BY <1>1, <1>4 DEF IInv

LEMMA InductiveStep ==
  ASSUME IInv, [Next]_vars
  PROVE  IInv'
<1>1. leases \in Tables /\ CapsOK(leases) /\ clock \in Nat /\ live \in SUBSET Pids
  BY DEF IInv, TypeOK, Tables
<1>2. SUFFICES leases' \in Tables /\ CapsOK(leases') /\ clock' \in Nat /\ live' \in SUBSET Pids
  BY DEF IInv, TypeOK, Tables, CapsOK, FleetOK, TaskOK, ProviderOK, LaneOK, SessionOK
<1>3. \A t : Reap(leases, t) \in Tables /\ CapsOK(Reap(leases, t))
  BY <1>1, ReapCaps
<1>4. ASSUME NEW p \in Pids, NEW i \in Ids, NEW k \in Tasks, NEW e \in Engines \cup {None},
             NEW t, ReserveTx(p, i, k, e, t)
      PROVE  leases' \in Tables /\ CapsOK(leases')
  <2> DEFINE L == Reap(leases, t)
  <2>1. L[i] = None /\ HasRoom(L, k, e) /\ leases' = [L EXCEPT ![i] = NewLease(p, k, e)]
    BY <1>4 DEF ReserveTx
  <2>2. L \in Tables /\ CapsOK(L)
    BY <1>3
  <2> HIDE DEF L
  <2> QED
    BY <1>1, <1>4, <2>1, <2>2, ReserveCaps
<1>5. ASSUME NEW i \in Ids, NEW k, NEW e, NEW t, ConfirmTx(i, k, e, t)
      PROVE  leases' \in Tables /\ CapsOK(leases')
  BY <1>3, <1>5 DEF ConfirmTx
<1>6. ASSUME NEW p \in Pids, NEW i \in Ids, NEW k \in Tasks, NEW e \in Engines \cup {None},
             NEW t, Reserve(p, i, k, e, t) \/ EnsureReserved(p, i, k, e, t)
      PROVE  leases' \in Tables /\ CapsOK(leases') /\ clock' \in Nat /\ live' \in SUBSET Pids
  BY <1>1, <1>4, <1>5, <1>6 DEF Reserve, EnsureReserved, EnsureReservedTx
<1>7. ASSUME NEW i \in Ids, NEW e \in Engines, NEW a \in Accounts, NEW s \in Sessions,
             NEW t, Bind(i, e, a, s, t)
      PROVE  leases' \in Tables /\ CapsOK(leases') /\ clock' \in Nat /\ live' \in SUBSET Pids
  <2> DEFINE L == Reap(leases, t)
  <2>1. L[i] # None /\ L \in Tables /\ CapsOK(L)
    BY <1>3, <1>7 DEF Bind, BindTx
  <2>2. \/ leases' = L
        \/ /\ HasBoundRoom(L, i, e, a, s)
           /\ leases' = [L EXCEPT ![i].engine = e, ![i].account = a, ![i].session = s]
    BY <1>7 DEF Bind, BindTx
  <2> HIDE DEF L
  <2>3. ASSUME NEW M, M = leases' PROVE M \in Tables /\ CapsOK(M)
    <3>1. CASE M = L
      BY <2>1, <3>1
    <3>2. CASE /\ HasBoundRoom(L, i, e, a, s)
               /\ M = [L EXCEPT ![i].engine = e, ![i].account = a, ![i].session = s]
      BY <2>1, <3>2, BindCaps
    <3> QED
      BY <2>2, <2>3, <3>1, <3>2
  <2> QED
    BY <1>1, <1>7, <2>3 DEF Bind
<1>8. ASSUME NEW i \in Ids, NEW t, Release(i, t)
      PROVE  leases' \in Tables /\ CapsOK(leases') /\ clock' \in Nat /\ live' \in SUBSET Pids
  <2> DEFINE L == Reap(leases, t)
  <2>1. leases' = Without(L, i) /\ L \in Tables /\ CapsOK(L)
    BY <1>3, <1>8 DEF Release, ReleaseTx
  <2> HIDE DEF L
  <2>2. leases' \in Tables /\ CapsOK(leases')
    BY <2>1, WithoutSub, SubTableCaps
  <2> QED
    BY <1>1, <1>8, <2>2 DEF Release
<1>9. ASSUME NEW t, Snapshot(t)
      PROVE  leases' \in Tables /\ CapsOK(leases') /\ clock' \in Nat /\ live' \in SUBSET Pids
  BY <1>1, <1>3, <1>9 DEF Snapshot, SnapshotTx
<1>10. ASSUME NEW p \in Pids, Exit(p) \/ Launch(p)
       PROVE  leases' \in Tables /\ CapsOK(leases') /\ clock' \in Nat /\ live' \in SUBSET Pids
  BY <1>1, <1>10 DEF Exit, Launch
<1>11. CASE Tick
  BY <1>1, <1>11 DEF Tick
<1>12. CASE UNCHANGED vars
  BY <1>1, <1>12 DEF vars
<1> QED
  BY <1>6, <1>7, <1>8, <1>9, <1>10, <1>11, <1>12 DEF Next

(* The caps of the ledger form an inductive invariant with its types: each *)
(* transaction checks its caps on the table it writes.                     *)
THEOREM Invariance == Spec => []IInv
BY InitIInv, InductiveStep, PTL DEF Spec

(* The lease table and the set of live processes keep their types.         *)
THEOREM TypeCorrect == Spec => []TypeOK
BY Invariance, PTL DEF IInv

(* No reservation, however it interleaves with reaping, crashes and pid    *)
(* reuse, takes the table over the fleet, task or provider cap             *)
(* (concurrency/dispatch/capacity.rs, check_capacity).                     *)
THEOREM WithinReservationCaps == Spec => []ReservationCaps
<1>1. IInv => ReservationCaps
  BY DEF IInv, CapsOK, FleetOK, TaskOK, ProviderOK, ReservationCaps, FleetWithinCap,
         TasksWithinCap, ProviderWithinCap
<1> QED
  BY <1>1, Invariance, PTL

(* No bind or rebind takes an account over its lanes or its sessions       *)
(* (concurrency/dispatch/capacity.rs, check_bound_capacity).               *)
THEOREM WithinAccountCaps == Spec => []AccountCaps
<1>1. IInv => AccountCaps
  BY DEF IInv, CapsOK, LaneOK, SessionOK, AccountCaps
<1> QED
  BY <1>1, Invariance, PTL

-----------------------------------------------------------------------------
(***************************************************************************)
(* AccountRotation: who rotates takes what nobody else took; cooldowns     *)
(* follow the credentials through swaps that fail at any point; and the    *)
(* tries of a run are of different accounts.                               *)
(***************************************************************************)

(* What a rotation is about, and what it has made sure of.                 *)
Rotating == {"chosen", "moving", "moved"}
RunPlan(r) ==
  /\ proc[r].at # "idle" => proc[r].from = run[r].profile /\ proc[r].of = run[r].uses
  /\ proc[r].at \in Rotating => proc[r].to \notin run[r].tried \cup proc[r].busy
TickPlan ==
  /\ proc["tick"].for # Nil =>
       LET r == proc["tick"].for
       IN  /\ run[r].status = "limit"
           /\ proc["tick"].from = run[r].profile /\ proc["tick"].of = run[r].uses
           /\ r \notin proc["tick"].runs
  /\ \A r \in proc["tick"].runs : run[r].status = "limit"
  /\ proc["tick"].at \in Rotating => proc["tick"].for # Nil
UserPlan ==
  /\ proc["user"].for = Nil
  /\ proc["user"].at # "idle" => proc["user"].from \in Profiles
Plan(a) ==
  /\ proc[a].at \in Rotating =>
       proc[a].to \in Profiles /\ proc[a].to # proc[a].from /\ More(a)
  /\ (proc[a].at \in {"moving", "moved"} \/ (a \in {"tick", "user"} /\ proc[a].at # "idle")) => InPlace
PlanInv ==
  /\ \A r \in Runs : RunPlan(r)
  /\ TickPlan /\ UserPlan
  /\ \A a \in Actors : Plan(a)

(* Who has taken a profile has its claim, as long as claims do not lapse.  *)
ClaimInv == Patient => OneTaker /\ \A a \in Actors : Taken(a) \subseteq claims

(* Who rotates undisturbed.                                                *)
AloneInv ==
  /\ proc["user"].at = "idle"
  /\ \A r \in Runs : run[r].status # "done" => r \in setup.working
  /\ proc["tick"].at # "idle" => count["ticks"] > 0 /\ \E r \in Runs : run[r].status = "limit"
  /\ proc["tick"].runs # {} \/ proc["tick"].for # Nil => proc["tick"].at # "idle"
  /\ ~InPlace => \A p \in Profiles : holds[p] = p
  /\ \A p, q \in Profiles : holds[p] = holds[q] => p = q

(* Where the account is that a run uses or used last.                      *)
Lodged(r) ==
  /\ run[r].status \in {"working", "failing"} =>
       holds[IF proc[r].at \in {"moving", "moved"} THEN proc[r].to ELSE run[r].profile] = run[r].uses
  /\ run[r].status = "limit" /\ (count["ticks"] = 0 \/ r \in proc["tick"].runs) =>
       holds[run[r].profile] = run[r].uses
TickLodged ==
  proc["tick"].for # Nil =>
    holds[IF proc["tick"].at \in {"moving", "moved"} THEN proc["tick"].to ELSE proc["tick"].from]
      = proc["tick"].of
LodgedInv == TickLodged /\ \A r \in Runs : Lodged(r)

(* Between the halves of a swap the cooldowns are still where the          *)
(* credentials were.                                                       *)
Before(p) == IF meta = Nil THEN holds[p] ELSE Exchange(holds, proc[meta].from, proc[meta].to)[p]
CoolInv == \A p \in Profiles : cool[p] \in {Nil, Before(p)}

(* The accounts that a run has spent are with profiles it has tried and    *)
(* left.                                                                   *)
Spent(r) ==
  run[r].status \in {"working", "failing"} =>
    \A s \in run[r].spent :
      \/ \E p \in run[r].tried \ {run[r].profile} : holds[p] = s
      \/ run[r].status = "failing" /\ s = run[r].uses
SpentInv == \A r \in Runs : Spent(r)

UndisturbedInv == Undisturbed => AloneInv /\ LodgedInv /\ CoolInv /\ SpentInv

RotationInv == RotationTypeOK /\ PlanInv /\ ClaimInv /\ UndisturbedInv

-----------------------------------------------------------------------------
LEMMA Fields ==
  ASSUME RotationTypeOK
  PROVE  /\ holds \in [Profiles -> Profiles] /\ cache \in [Profiles -> Profiles]
         /\ cool \in [Profiles -> Profiles \cup {Nil}]
         /\ claims \in SUBSET Profiles
         /\ run \in [Runs -> RunRecord] /\ \A r \in Runs : run[r] \in RunRecord /\ run[r].profile \in Profiles
         /\ proc \in [Actors -> Rotation] /\ \A a \in Actors : proc[a] \in Rotation
         /\ setup \in Setups /\ count \in [Counted -> Nat]
BY DEF RotationTypeOK, Logins, RunRecord

LEMMA Who ==
  /\ \A r \in Runs : r \in Actors /\ r # "tick" /\ r # "user" /\ r # Nil
  /\ "tick" \in Actors /\ "user" \in Actors /\ "tick" # "user"
  /\ Nil \notin Profiles /\ Nil \notin Actors /\ Nil \notin Runs
BY RotationAssumption DEF Actors

LEMMA IdleType == Idle \in Rotation
BY DEF Idle, Rotation

LEMMA ExchangeType ==
  ASSUME NEW S, NEW f \in [Profiles -> S], NEW p \in Profiles, NEW q \in Profiles
  PROVE  LET g == Exchange(f, p, q)
         IN  /\ g \in [Profiles -> S] /\ g[p] = f[q] /\ g[q] = f[p]
             /\ \A o \in Profiles \ {p, q} : g[o] = f[o]
BY DEF Exchange

(* What a step makes of the rotation of an actor.                          *)
Changed(a) ==
  proc' \in [Actors -> Rotation] /\ \A b \in Actors \ {a} : proc'[b] = proc[b]
Kept(a, fields) == \A f \in fields : proc'[a][f] = proc[a][f]
Whole == {"for", "from", "to", "of", "seen", "busy", "runs"}

LEMMA RestFacts ==
  ASSUME RotationTypeOK, NEW a \in Actors, proc' = Rest(a)
  PROVE  /\ Changed(a)
         /\ proc'[a].at = IF a = "tick" THEN "planning" ELSE "idle"
         /\ proc'[a].for = Nil /\ proc'[a].from = Nil /\ proc'[a].to = Nil
         /\ proc'[a].runs = IF a = "tick" THEN proc[a].runs ELSE {}
<1>1. proc \in [Actors -> Rotation] /\ proc[a] \in Rotation
  BY Fields
<1>2. [Idle EXCEPT !.at = "planning", !.seen = proc[a].seen, !.runs = proc[a].runs] \in Rotation
  BY <1>1 DEF Idle, Rotation
<1>3. CASE a = "tick"
  BY <1>1, <1>2, <1>3 DEF Rest, Changed, Idle
<1>4. CASE a # "tick"
  BY <1>1, <1>4, IdleType DEF Rest, Changed, Idle
<1> QED
  BY <1>3, <1>4

LEMMA IdleFacts ==
  ASSUME RotationTypeOK, NEW a \in Actors, proc' = [proc EXCEPT ![a] = Idle]
  PROVE  /\ Changed(a) /\ proc'[a].at = "idle" /\ proc'[a].for = Nil /\ proc'[a].runs = {}
BY Fields, IdleType DEF Changed, Idle

LEMMA LookFacts ==
  ASSUME RotationTypeOK, NEW r \in Runs, Look(r)
  PROVE  /\ Changed(r)
         /\ proc'[r].at = "planning" /\ proc'[r].for = r /\ proc'[r].from = run[r].profile
         /\ proc'[r].of = run[r].uses
<1>1. run[r] \in RunRecord /\ Eligible \in SUBSET Profiles /\ r \in Actors
  BY Fields, Who DEF Eligible
<1>2. [Idle EXCEPT !.at = "planning", !.for = r, !.from = run[r].profile, !.of = run[r].uses,
                   !.seen = Eligible] \in Rotation
  BY <1>1 DEF Idle, Rotation, RunRecord
<1> QED
  BY <1>1, <1>2, Fields DEF Look, Changed, Idle

LEMMA TickLookFacts ==
  ASSUME RotationTypeOK, TickLook
  PROVE  /\ Changed("tick")
         /\ proc'["tick"].at = "planning" /\ proc'["tick"].for = Nil
         /\ proc'["tick"].runs = {r \in Runs : run[r].status = "limit"}
<1>1. Eligible \in SUBSET Profiles
  BY DEF Eligible
<1>2. [Idle EXCEPT !.at = "planning",
           !.seen = Eligible, !.runs = {r \in Runs : run[r].status = "limit"}] \in Rotation
  BY <1>1 DEF Idle, Rotation
<1> QED
  BY <1>2, Fields, Who DEF TickLook, Changed, Idle

LEMMA TickTakeFacts ==
  ASSUME RotationTypeOK, NEW r \in Runs, TickTake(r)
  PROVE  /\ Changed("tick") /\ Kept("tick", {"at"})
         /\ proc'["tick"].for = r /\ proc'["tick"].from = run[r].profile /\ proc'["tick"].of = run[r].uses
         /\ proc'["tick"].runs = proc["tick"].runs \ {r}
<1>1. proc \in [Actors -> Rotation] /\ proc["tick"] \in Rotation /\ run[r] \in RunRecord
  BY Fields, Who
<1>2. [proc["tick"] EXCEPT !.for = r, !.from = run[r].profile,
           !.of = run[r].uses, !.runs = @ \ {r}] \in Rotation
  BY <1>1 DEF Rotation, RunRecord
<1> QED
  BY <1>1, <1>2, Who DEF TickTake, Changed, Kept, Rotation

LEMMA UserLookFacts ==
  ASSUME RotationTypeOK, UserLook
  PROVE  /\ Changed("user")
         /\ proc'["user"].at = "planning" /\ proc'["user"].for = Nil
         /\ proc'["user"].from \in Profiles \ claims
         /\ claims' = claims \cup {proc'["user"].from}
<1>1. PICK p \in Profiles, q \in Profiles :
        /\ p \notin claims /\ claims' = claims \cup {p}
        /\ proc' = [proc EXCEPT !["user"] = [Idle EXCEPT !.at = "planning", !.from = p, !.seen = {q}]]
  BY DEF UserLook
<1>2. [Idle EXCEPT !.at = "planning", !.from = p, !.seen = {q}] \in Rotation
  BY DEF Idle, Rotation
<1> QED
  BY <1>1, <1>2, Fields, Who DEF Changed, Idle

(* A choice takes a target that is not claimed, or leaves a busy one.      *)
LEMMA ChooseFacts ==
  ASSUME RotationTypeOK, NEW a \in Actors, Choose(a)
  PROVE  /\ Changed(a) /\ proc[a].at = "planning"
         /\ \/ /\ Kept(a, {"at", "for", "from", "to", "of", "seen", "runs"})
               /\ claims' = claims
            \/ /\ Kept(a, Whole \ {"to"}) /\ proc'[a].at = "chosen" /\ More(a)
               /\ proc'[a].to \in Left(a) /\ proc'[a].to \in Profiles \ claims
               /\ claims' = claims \cup {proc'[a].to}
<1>1. proc \in [Actors -> Rotation] /\ proc[a] \in Rotation
  BY Fields
<1>2. PICK q \in Left(a) :
        IF q \in claims
        THEN proc' = [proc EXCEPT ![a].busy = @ \cup {q}] /\ UNCHANGED claims
        ELSE /\ claims' = claims \cup {q}
             /\ proc' = [proc EXCEPT ![a].at = "chosen", ![a].to = q]
  BY DEF Choose
<1>3. q \in Profiles
  BY <1>1 DEF Left, Rotation
<1>4. [proc[a] EXCEPT !.busy = @ \cup {q}] \in Rotation
      /\ [proc[a] EXCEPT !.at = "chosen", !.to = q] \in Rotation
  BY <1>1, <1>3 DEF Rotation
<1>5. proc[a].at = "planning" /\ More(a)
  BY DEF Choose, Plans
<1>6. CASE q \in claims
  BY <1>1, <1>2, <1>4, <1>5, <1>6 DEF Changed, Kept, Rotation
<1>7. CASE q \notin claims
  BY <1>1, <1>2, <1>3, <1>4, <1>5, <1>7 DEF Changed, Kept, Rotation, Whole
<1> QED
  BY <1>6, <1>7

LEMMA OnwardFacts ==
  ASSUME RotationTypeOK, NEW a \in Actors, NEW at \in {"moving", "moved"}, proc' = [proc EXCEPT ![a].at = at]
  PROVE  Changed(a) /\ Kept(a, Whole) /\ proc'[a].at = at
<1>1. proc \in [Actors -> Rotation] /\ proc[a] \in Rotation
  BY Fields
<1>2. [proc[a] EXCEPT !.at = at] \in Rotation
  BY <1>1 DEF Rotation
<1> QED
  BY <1>1, <1>2 DEF Changed, Kept, Whole, Rotation

(* What the end of a rotation that does not take place makes of the runs.  *)
LeftBy(a) == IF a = "tick" THEN proc[a].for ELSE a
LEMMA LeaveFacts ==
  ASSUME RotationTypeOK, PlanInv, NEW a \in Actors, proc[a].at # "idle", NEW free, NEW c, Leave(a, free, c)
  PROVE  /\ run' \in [Runs -> RunRecord]
         /\ \A r \in Runs :
              /\ \A f \in {"profile", "attempt", "uses", "spent", "killed"} : run'[r][f] = run[r][f]
              /\ run'[r].status = IF r = a THEN "limit" ELSE run[r].status
              /\ r # LeftBy(a) => run'[r] = run[r]
         /\ cool' = IF a \in Runs THEN [c EXCEPT ![run[a].profile] = run[a].uses] ELSE c
<1>1. proc[a] \in Rotation /\ run \in [Runs -> RunRecord]
  BY Fields
<1> DEFINE Marked(r) == [run[r] EXCEPT !.tried = @ \cup proc[a].busy]
<1>2. ASSUME NEW r \in Runs
      PROVE  /\ Marked(r) \in RunRecord
             /\ \A f \in {"profile", "attempt", "uses", "spent", "killed", "status"} : Marked(r)[f] = run[r][f]
  BY <1>1 DEF RunRecord, Rotation
<1>3. ASSUME NEW r \in Runs
      PROVE  /\ [Marked(r) EXCEPT !.status = "limit"] \in RunRecord
             /\ \A f \in {"profile", "attempt", "uses", "spent", "killed"} :
                  [Marked(r) EXCEPT !.status = "limit"][f] = run[r][f]
             /\ [Marked(r) EXCEPT !.status = "limit"].status = "limit"
  BY <1>2 DEF RunRecord
<1>4. run' = IF a \in Runs THEN [run EXCEPT ![a] = [Marked(a) EXCEPT !.status = "limit"]]
             ELSE IF a = "tick" /\ proc[a].at # "planning"
             THEN [run EXCEPT ![proc[a].for] = Marked(proc[a].for)] ELSE run
  BY DEF Leave
<1> HIDE DEF Marked
<1>5. CASE a \in Runs
  BY <1>1, <1>3, <1>4, <1>5, Who DEF Leave, LeftBy, PlanInv, RunPlan, TickPlan, UserPlan, Plan
<1>6. CASE a = "tick" /\ proc[a].at # "planning"
  <2>1. proc[a].for \in Runs
    BY <1>1, <1>6 DEF PlanInv, RunPlan, TickPlan, UserPlan, Plan, Rotation, Rotating
  <2> QED
    BY <1>1, <1>2, <1>4, <1>6, <2>1, Who DEF Leave, LeftBy
<1>7. CASE a \notin Runs /\ ~(a = "tick" /\ proc[a].at # "planning")
  BY <1>1, <1>4, <1>7 DEF Leave
<1> QED
  BY <1>5, <1>6, <1>7

LEMMA CountFacts ==
  ASSUME RotationTypeOK, NEW what \in Counted, May(what), setup' = setup
  PROVE  /\ count' \in [Counted -> Nat] /\ \A w \in Counted : count'[w] <= setup'.bound[w]
         /\ count'[what] > 0 /\ count[what] < setup.bound[what]
         /\ \A w \in Counted \ {what} : count'[w] = count[w]
<1>1. count \in [Counted -> Nat] /\ setup.bound \in [Counted -> Nat]
      /\ \A w \in Counted : count[w] <= setup.bound[w]
  BY RotationAssumption DEF RotationTypeOK
<1> QED
  BY <1>1 DEF May

LEMMA CardType ==
  /\ Cardinality(Profiles) \in Nat
  /\ \A p \in Profiles : 1 \in 1 .. Cardinality(Profiles)
BY RotationAssumption, FS_CardinalityType, FS_EmptySet

LEMMA HitFacts ==
  ASSUME RotationTypeOK, NEW r \in Runs, Hit(r) \/ Done(r)
  PROVE  /\ run' \in [Runs -> RunRecord]
         /\ \A f \in {"profile", "tried", "attempt", "uses"} : run'[r][f] = run[r][f]
         /\ \A q \in Runs \ {r} : run'[q] = run[q]
         /\ run[r].status = "working"
         /\ \/ run'[r].status = "failing" /\ run'[r].spent = run[r].spent \cup {run[r].uses}
            \/ run'[r].status = "done"
<1>1. run \in [Runs -> RunRecord] /\ run[r] \in RunRecord
  BY Fields
<1>2. ASSUME NEW x \in RunRecord, NEW spent \in SUBSET Logins
      PROVE  /\ [x EXCEPT !.status = "failing", !.spent = spent] \in RunRecord
             /\ [x EXCEPT !.status = "done"] \in RunRecord
  BY DEF RunRecord
<1>3. run[r].spent \cup {run[r].uses} \in SUBSET Logins
  BY <1>1 DEF RunRecord
<1>4. /\ [run[r] EXCEPT !.status = "failing", !.spent = run[r].spent \cup {run[r].uses}] \in RunRecord
      /\ [run[r] EXCEPT !.status = "done"] \in RunRecord
  BY <1>1, <1>2, <1>3
<1>5. CASE Hit(r)
  <2>1. run' = [run EXCEPT ![r] =
              [run[r] EXCEPT !.status = "failing", !.spent = run[r].spent \cup {run[r].uses}]]
    BY <1>1, <1>5 DEF Hit
  <2> QED
    BY <1>1, <1>4, <1>5, <2>1 DEF Hit, RunRecord
<1>6. CASE Done(r)
  <2>1. run' = [run EXCEPT ![r] = [run[r] EXCEPT !.status = "done"]]
    BY <1>1, <1>6 DEF Done
  <2> QED
    BY <1>1, <1>4, <1>6, <2>1 DEF Done, RunRecord
<1> QED
  BY <1>5, <1>6

(* A run that goes on with another account, by its supervisor or the tick. *)
LEMMA AttemptFacts ==
  ASSUME RotationTypeOK, PlanInv, NEW a \in Actors, proc[a].at \in Rotating, proc[a].for \in Runs
  PROVE  /\ run[proc[a].for].attempt + 1 \in 1 .. Cardinality(Profiles)
         /\ Tried(a) \in SUBSET Profiles
         /\ proc[a].to \in Profiles
<1>1. proc[a] \in Rotation /\ run[proc[a].for] \in RunRecord
  BY Fields
<1>2. proc[a].to \in Profiles /\ run[proc[a].for].attempt < Cardinality(Profiles)
  BY Who DEF PlanInv, RunPlan, TickPlan, UserPlan, Plan, More
<1> QED
  BY <1>1, <1>2, CardType DEF RunRecord, Tried, Rotation

LEMMA ResumeFacts ==
  ASSUME RotationTypeOK, PlanInv, NEW r \in Runs, Resume(r)
  PROVE  LET p == IF InPlace THEN run[r].profile ELSE proc[r].to
         IN  /\ p \in Profiles /\ run' \in [Runs -> RunRecord]
             /\ run'[r].status = "working" /\ run'[r].profile = p /\ run'[r].uses = holds[p]
             /\ run'[r].tried = Tried(r) /\ run'[r].spent = run[r].spent
             /\ \A q \in Runs \ {r} : run'[q] = run[q]
             /\ proc[r].to \in Profiles /\ proc[r].at \in Rotating /\ run[r].status = "failing"
             /\ proc[r].for = r /\ proc[r].from = run[r].profile /\ proc[r].of = run[r].uses
             /\ cool' = [cool EXCEPT ![SpentSlot(r)] = run[r].uses]
<1> DEFINE p == IF InPlace THEN run[r].profile ELSE proc[r].to
<1>1. /\ proc[r].at \in Rotating /\ run[r].status = "failing" /\ proc[r].for = r /\ r \in Actors
      /\ proc[r].from = run[r].profile /\ proc[r].of = run[r].uses
  BY Who DEF Resume, Rotating, RotationTypeOK, Linked, PlanInv, RunPlan, TickPlan, UserPlan, Plan
<1>2. run \in [Runs -> RunRecord] /\ run[r] \in RunRecord /\ holds \in [Profiles -> Profiles]
  BY Fields
<1>3. /\ run[r].attempt + 1 \in 1 .. Cardinality(Profiles) /\ Tried(r) \in SUBSET Profiles
      /\ proc[r].to \in Profiles
  BY <1>1, AttemptFacts
<1>4. p \in Profiles /\ holds[p] \in Profiles
  BY <1>2, <1>3 DEF RunRecord
<1> DEFINE new == [run[r] EXCEPT !.status = "working", !.tried = Tried(r), !.attempt = @ + 1,
                                 !.profile = p, !.uses = holds[p]]
<1>5. run' = [run EXCEPT ![r] = new]
  BY <1>2 DEF Resume
<1> HIDE DEF p
<1>6. /\ new \in RunRecord /\ new.status = "working" /\ new.profile = p /\ new.uses = holds[p]
      /\ new.tried = Tried(r) /\ new.spent = run[r].spent
  BY <1>2, <1>3, <1>4 DEF RunRecord, Logins
<1> HIDE DEF new
<1>7. run' \in [Runs -> RunRecord] /\ run'[r] = new /\ \A q \in Runs \ {r} : run'[q] = run[q]
  BY <1>2, <1>5, <1>6
<1>8. cool' = [cool EXCEPT ![SpentSlot(r)] = run[r].uses]
  BY <1>1 DEF Resume, Cooldown
<1> QED
  BY <1>1, <1>3, <1>4, <1>6, <1>7, <1>8 DEF p

LEMMA TickRecordFacts ==
  ASSUME RotationTypeOK, PlanInv, TickRecord
  PROVE  LET r == proc["tick"].for
         IN  /\ r \in Runs /\ run' \in [Runs -> RunRecord]
             /\ \A f \in {"status", "profile", "uses", "spent"} : run'[r][f] = run[r][f]
             /\ \A q \in Runs \ {r} : run'[q] = run[q]
             /\ run[r].status = "limit" /\ proc["tick"].to \in Profiles
<1> DEFINE r == proc["tick"].for
<1>1. proc["tick"] \in Rotation /\ run \in [Runs -> RunRecord]
  BY Fields, Who
<1>2. proc["tick"].at \in Rotating
  BY DEF TickRecord, Rotating
<1>3. r \in Runs /\ run[r].status = "limit"
  BY <1>1, <1>2 DEF PlanInv, RunPlan, TickPlan, UserPlan, Plan, Rotation
<1>4. /\ run[r] \in RunRecord /\ run[r].attempt + 1 \in 1 .. Cardinality(Profiles)
      /\ Tried("tick") \in SUBSET Profiles /\ proc["tick"].to \in Profiles
  BY <1>1, <1>2, <1>3, AttemptFacts, Who
<1> DEFINE new == [run[r] EXCEPT !.tried = Tried("tick"), !.attempt = @ + 1]
<1>5. new \in RunRecord /\ \A f \in {"status", "profile", "uses", "spent"} : new[f] = run[r][f]
  <2> HIDE DEF r
  <2> QED
    BY <1>4 DEF RunRecord
<1>6. run' = [run EXCEPT ![r] = new]
  BY <1>1, <1>3 DEF TickRecord
<1> QED
  BY <1>1, <1>3, <1>4, <1>5, <1>6

(* Of a rotation that is to be undone or to take place, both sides are     *)
(* profiles.                                                               *)
LEMMA SwapFacts ==
  ASSUME RotationTypeOK, PlanInv, NEW a \in Actors, proc[a].at \in Rotating
  PROVE  /\ proc[a].from \in Profiles /\ proc[a].to \in Profiles /\ proc[a].to # proc[a].from
         /\ Exchange(holds, proc[a].from, proc[a].to) \in [Profiles -> Profiles]
         /\ Exchange(cache, proc[a].from, proc[a].to) \in [Profiles -> Profiles]
         /\ Exchange(cool, proc[a].from, proc[a].to) \in [Profiles -> Profiles \cup {Nil}]
<1>1. proc[a].to \in Profiles /\ proc[a].to # proc[a].from
  BY DEF PlanInv, RunPlan, TickPlan, UserPlan, Plan
<1>2. proc[a].from \in Profiles
  <2>1. CASE a \in Runs
    BY <2>1, Fields DEF PlanInv, RunPlan, TickPlan, UserPlan, Plan, Rotating
  <2>2. CASE a = "tick"
    BY <2>2, Fields DEF PlanInv, RunPlan, TickPlan, UserPlan, Plan, Rotation
  <2>3. CASE a = "user"
    BY <2>3 DEF PlanInv, RunPlan, TickPlan, UserPlan, Plan, Rotating
  <2> QED
    BY <2>1, <2>2, <2>3 DEF Actors
<1> QED
  BY <1>1, <1>2, Fields, ExchangeType

(* One actor at a time goes on, and it takes the lock, gives it back or    *)
(* leaves it alone.                                                        *)
LEMMA LinkStep ==
  ASSUME RotationTypeOK, NEW a \in Actors, Changed(a),
         \/ meta' = meta /\ (proc'[a].at = "moving" <=> proc[a].at = "moving")
         \/ meta = Nil /\ meta' = a /\ proc'[a].at = "moving"
         \/ proc[a].at = "moving" /\ meta' = Nil /\ proc'[a].at # "moving",
         \A r \in Runs \ {a} : run'[r].status = run[r].status,
         a \in Runs /\ proc'[a].at # "idle" => run'[a].status = "failing" /\ proc'[a].for = a
  PROVE  Linked' /\ meta' \in Actors \cup {Nil}
<1> USE Who
<1>1. Linked /\ meta \in Actors \cup {Nil}
  BY DEF RotationTypeOK
<1>2. \A b \in Actors \ {a} : proc'[b] = proc[b]
  BY DEF Changed
<1>3. ASSUME NEW b \in Actors PROVE meta' = b <=> proc'[b].at = "moving"
  BY <1>1, <1>2 DEF Linked
<1>4. ASSUME NEW r \in Runs
      PROVE  proc'[r].at # "idle" => run'[r].status = "failing" /\ proc'[r].for = r
  BY <1>1, <1>2 DEF Linked
<1> QED
  BY <1>1, <1>3, <1>4 DEF Linked

LEMMA TypeStep ==
  ASSUME RotationInv, [RotationNext]_rotationVars
  PROVE  RotationTypeOK'
<1> USE Fields, Who DEF RotationInv
<1>0. CASE UNCHANGED rotationVars
  BY <1>0 DEF rotationVars, RotationTypeOK, Linked
<1> SUFFICES ASSUME Step, setup' = setup PROVE RotationTypeOK'
  BY <1>0 DEF RotationNext
<1>1. ASSUME NEW r \in Runs, Hit(r) \/ Done(r) PROVE RotationTypeOK'
  <2>1. run' \in [Runs -> RunRecord] /\ \A q \in Runs \ {r} : run'[q] = run[q]
    BY <1>1, HitFacts
  <2>2. run[r].status = "working"
    BY <1>1 DEF Hit, Done
  <2> QED
    BY <1>1, <2>1, <2>2 DEF Hit, Done, RotationTypeOK, Linked
<1>2. ASSUME NEW r \in Runs, Kill(r) PROVE RotationTypeOK'
  <2>1. [run[r] EXCEPT !.killed = TRUE] \in RunRecord
        /\ [run[r] EXCEPT !.killed = TRUE].status = run[r].status
    BY DEF RunRecord
  <2>2. run' \in [Runs -> RunRecord] /\ \A q \in Runs : run'[q].status = run[q].status
    BY <1>2, <2>1 DEF Kill
  <2>3. count' \in [Counted -> Nat] /\ \A w \in Counted : count'[w] <= setup'.bound[w]
    BY <1>2, CountFacts DEF Kill, Counted
  <2> QED
    BY <1>2, <2>2, <2>3 DEF Kill, RotationTypeOK, Linked
<1>3. ASSUME NEW r \in Runs, Look(r) PROVE RotationTypeOK'
  <2>1. Changed(r) /\ proc'[r].at = "planning" /\ proc'[r].for = r /\ proc[r].at = "idle"
        /\ run' = run /\ run[r].status = "failing" /\ meta' = meta
    BY <1>3, LookFacts DEF Look
  <2>2. Linked'
    BY <2>1, LinkStep
  <2> QED
    BY <1>3, <2>1, <2>2 DEF Look, RotationTypeOK, Changed
<1>4. ASSUME NEW a \in Actors, Choose(a) PROVE RotationTypeOK'
  <2>1. claims' \in SUBSET Profiles
    BY <1>4, ChooseFacts
  <2>2. \A b \in Actors :
          /\ proc'[b].at = "moving" <=> proc[b].at = "moving"
          /\ proc'[b].at = "idle" <=> proc[b].at = "idle"
          /\ proc'[b].for = proc[b].for
    BY <1>4, ChooseFacts DEF Changed, Kept, Whole
  <2>3. proc' \in [Actors -> Rotation]
    BY <1>4, ChooseFacts DEF Changed
  <2> QED
    BY <1>4, <2>1, <2>2, <2>3 DEF Choose, RotationTypeOK, Linked
<1>5. ASSUME NEW a \in Actors, Stop(a) PROVE RotationTypeOK'
  <2>1. proc[a].at = "planning" /\ \E free : Leave(a, free, cool)
    BY <1>5 DEF Stop, Plans
  <2>2. claims' \in SUBSET Profiles /\ proc' = Rest(a)
    BY <2>1 DEF Leave
  <2>3. /\ run' \in [Runs -> RunRecord] /\ \A r \in Runs \ {a} : run'[r].status = run[r].status
        /\ cool' \in [Profiles -> Profiles \cup {Nil}]
    BY <2>1, LeaveFacts DEF RunRecord, Logins
  <2>4. Changed(a) /\ proc'[a].at \in {"idle", "planning"} /\ (a \in Runs => proc'[a].at = "idle")
    BY <2>2, RestFacts
  <2>5. Linked'
    BY <1>5, <2>1, <2>3, <2>4, LinkStep DEF Stop
  <2> QED
    BY <1>5, <2>2, <2>3, <2>4, <2>5 DEF Stop, RotationTypeOK, Changed, Logins
<1>6. ASSUME NEW r \in Runs, Abort(r) PROVE RotationTypeOK'
  <2>1. [run[r] EXCEPT !.status = "aborted"] \in RunRecord
    BY DEF RunRecord
  <2>2. run' \in [Runs -> RunRecord] /\ \A q \in Runs \ {r} : run'[q] = run[q]
    BY <1>6, <2>1 DEF Abort
  <2>3. claims' \in SUBSET Profiles /\ proc' = [proc EXCEPT ![r] = Idle]
    BY <1>6 DEF Abort
  <2>4. Changed(r) /\ proc'[r].at = "idle" /\ proc[r].at # "moving" /\ meta' = meta
    BY <1>6, <2>3, IdleFacts DEF Abort
  <2>5. Linked'
    BY <2>2, <2>4, LinkStep
  <2> QED
    BY <1>6, <2>2, <2>3, <2>4, <2>5 DEF Abort, RotationTypeOK, Changed
<1>7. ASSUME NEW a \in Actors, Swap(a) PROVE RotationTypeOK'
  <2>1. holds' \in [Profiles -> Profiles]
    BY <1>7, SwapFacts DEF Swap, Rotating
  <2>2. Changed(a) /\ Kept(a, Whole) /\ proc'[a].at = "moving"
    BY <1>7, OnwardFacts DEF Swap
  <2>3. Linked' /\ meta' \in Actors \cup {Nil}
    <3>1. meta = Nil /\ meta' = a /\ run' = run /\ proc[a].at = "chosen"
      BY <1>7 DEF Swap
    <3>2. a \in Runs => run[a].status = "failing" /\ proc[a].for = a
      BY <3>1 DEF RotationTypeOK, Linked
    <3> QED
      BY <2>2, <3>1, <3>2, LinkStep DEF Kept, Whole
  <2> QED
    BY <1>7, <2>1, <2>2, <2>3 DEF Swap, RotationTypeOK, Changed, Logins
<1>8. ASSUME NEW a \in Actors, Move(a) PROVE RotationTypeOK'
  <2>1. cache' \in [Profiles -> Profiles] /\ cool' \in [Profiles -> Profiles \cup {Nil}]
    BY <1>8, SwapFacts DEF Move, Rotating
  <2>2. Changed(a) /\ Kept(a, Whole) /\ proc'[a].at = "moved"
    BY <1>8, OnwardFacts DEF Move
  <2>3. Linked' /\ meta' \in Actors \cup {Nil}
    <3>1. proc[a].at = "moving" /\ meta' = Nil /\ run' = run
      BY <1>8 DEF Move
    <3>2. a \in Runs => run[a].status = "failing" /\ proc[a].for = a
      BY <3>1 DEF RotationTypeOK, Linked
    <3> QED
      BY <2>2, <3>1, <3>2, LinkStep DEF Kept, Whole
  <2> QED
    BY <1>8, <2>1, <2>2, <2>3 DEF Move, RotationTypeOK, Changed, Logins
<1>9. ASSUME NEW r \in Runs, Resume(r) PROVE RotationTypeOK'
  <2>1. run' \in [Runs -> RunRecord] /\ \A q \in Runs \ {r} : run'[q] = run[q]
    BY <1>9, ResumeFacts
  <2>2. SpentSlot(r) \in Profiles
    BY <1>9, ResumeFacts DEF SpentSlot
  <2>3. cool' \in [Profiles -> Profiles \cup {Nil}]
    BY <1>9, <2>2, ResumeFacts DEF RunRecord, Logins
  <2>4. Changed(r) /\ proc'[r].at = "idle" /\ proc[r].at # "moving"
    BY <1>9, RestFacts DEF Resume
  <2>5. Linked'
    BY <1>9, <2>1, <2>4, LinkStep DEF Resume
  <2> QED
    BY <1>9, <2>1, <2>3, <2>4, <2>5 DEF Resume, RotationTypeOK, Changed, Logins
<1>10. CASE TickLook
  <2>1. count' \in [Counted -> Nat] /\ \A w \in Counted : count'[w] <= setup'.bound[w]
    BY <1>10, CountFacts DEF TickLook, Counted
  <2>2. Changed("tick") /\ proc'["tick"].at # "moving" /\ proc["tick"].at # "moving"
        /\ run' = run /\ meta' = meta
    BY <1>10, TickLookFacts DEF TickLook
  <2>3. Linked'
    BY <2>2, LinkStep
  <2> QED
    BY <1>10, <2>1, <2>2, <2>3 DEF TickLook, RotationTypeOK, Changed
<1>11. CASE TickEnd
  <2>1. Changed("tick") /\ proc'["tick"].at # "moving" /\ proc["tick"].at # "moving"
        /\ run' = run /\ meta' = meta
    BY <1>11, IdleFacts DEF TickEnd
  <2>2. Linked'
    BY <2>1, LinkStep
  <2> QED
    BY <1>11, <2>1, <2>2 DEF TickEnd, RotationTypeOK, Changed
<1>12. CASE TickRecord
  <2>1. run' \in [Runs -> RunRecord] /\ \A q \in Runs : run'[q].status = run[q].status
    BY <1>12, TickRecordFacts
  <2>2. proc["tick"].from \in Profiles /\ proc["tick"].to \in Profiles /\ proc["tick"].for \in Runs
        /\ proc["tick"].of \in Profiles
    BY <1>12, SwapFacts, TickRecordFacts DEF TickRecord, Rotating, PlanInv,
          RunPlan, TickPlan, UserPlan, Plan, RunRecord, Logins
  <2>3. cool' \in [Profiles -> Profiles \cup {Nil}] /\ claims' \in SUBSET Profiles
    BY <1>12, <2>2 DEF TickRecord, Cooldown, SpentSlot
  <2>4. Changed("tick") /\ proc'["tick"].at = "planning"
    BY <1>12, RestFacts DEF TickRecord
  <2>5. Linked'
    BY <1>12, <2>1, <2>4, LinkStep DEF TickRecord
  <2> QED
    BY <1>12, <2>1, <2>3, <2>4, <2>5 DEF TickRecord, RotationTypeOK, Changed, Logins
<1>13. CASE UserLook
  <2>1. count' \in [Counted -> Nat] /\ \A w \in Counted : count'[w] <= setup'.bound[w]
    BY <1>13, CountFacts DEF UserLook, Counted
  <2>2. Changed("user") /\ proc'["user"].at # "moving" /\ proc["user"].at # "moving"
        /\ run' = run /\ meta' = meta /\ claims' \in SUBSET Profiles
    BY <1>13, UserLookFacts DEF UserLook
  <2>3. Linked'
    BY <2>2, LinkStep
  <2> QED
    BY <1>13, <2>1, <2>2, <2>3 DEF UserLook, RotationTypeOK, Changed
<1>14. CASE UserEnd
  <2>1. Changed("user") /\ proc'["user"].at # "moving" /\ proc["user"].at # "moving"
        /\ run' = run /\ meta' = meta
    BY <1>14, RestFacts DEF UserEnd
  <2>2. Linked'
    BY <2>1, LinkStep
  <2> QED
    BY <1>14, <2>1, <2>2 DEF UserEnd, RotationTypeOK, Changed
<1>15. ASSUME NEW r \in Runs, TickTake(r) PROVE RotationTypeOK'
  <2>1. Changed("tick") /\ proc'["tick"].at = proc["tick"].at /\ run' = run /\ meta' = meta
    BY <1>15, TickTakeFacts DEF TickTake, Kept
  <2>2. Linked'
    BY <2>1, LinkStep
  <2> QED
    BY <1>15, <2>1, <2>2 DEF TickTake, RotationTypeOK, Changed
<1>16. ASSUME NEW p \in Profiles, ArmedSwap(p) PROVE RotationTypeOK'
  <2>1. PICK q \in Eligible \ {p} : holds' = Exchange(holds, p, q) /\ cool' = Cooldown(q, cache[p])
    BY <1>16 DEF ArmedSwap
  <2>2. q \in Profiles
    BY DEF Eligible
  <2>3. holds' \in [Profiles -> Profiles] /\ cool' \in [Profiles -> Profiles \cup {Nil}]
    BY <2>1, <2>2, ExchangeType DEF Cooldown
  <2>4. count' \in [Counted -> Nat] /\ \A w \in Counted : count'[w] <= setup'.bound[w]
    BY <1>16, CountFacts DEF ArmedSwap, Counted
  <2> QED
    BY <1>16, <2>3, <2>4 DEF ArmedSwap, RotationTypeOK, Linked, Logins
<1>17. ASSUME NEW a \in Actors, MoveFails(a) PROVE RotationTypeOK'
  <2>1. proc[a].at \in Rotating /\ proc[a].at # "idle" /\ Leave(a, Claimed(a), cool)
    BY <1>17 DEF MoveFails, Rotating
  <2>2. claims' \in SUBSET Profiles /\ proc' = Rest(a)
    BY <2>1 DEF Leave
  <2>3. /\ run' \in [Runs -> RunRecord] /\ \A r \in Runs \ {a} : run'[r].status = run[r].status
        /\ cool' \in [Profiles -> Profiles \cup {Nil}]
    <3>1. /\ run' \in [Runs -> RunRecord] /\ \A r \in Runs \ {a} : run'[r].status = run[r].status
          /\ cool' = IF a \in Runs THEN [cool EXCEPT ![run[a].profile] = run[a].uses] ELSE cool
      BY <2>1, LeaveFacts
    <3> QED
      BY <3>1 DEF RunRecord, Logins
  <2>4. holds' \in [Profiles -> Profiles]
    BY <1>17, <2>1, SwapFacts DEF MoveFails
  <2>5. count' \in [Counted -> Nat] /\ \A w \in Counted : count'[w] <= setup'.bound[w]
    BY <1>17, CountFacts DEF MoveFails, Counted
  <2>6. IF proc[a].at = "moving" THEN meta' = Nil ELSE meta' = meta
    BY <1>17 DEF MoveFails
  <2>7. Changed(a) /\ proc'[a].at \in {"idle", "planning"} /\ (a \in Runs => proc'[a].at = "idle")
    BY <2>2, RestFacts
  <2>8. Linked' /\ meta' \in Actors \cup {Nil}
    BY <2>3, <2>6, <2>7, LinkStep
  <2> QED
    BY <1>17, <2>2, <2>3, <2>4, <2>5, <2>7, <2>8 DEF MoveFails, RotationTypeOK, Changed, Logins
<1>18. ASSUME NEW a \in Actors, BatonFails(a) PROVE RotationTypeOK'
  <2> DEFINE c == Exchange(cool, proc[a].from, proc[a].to)
  <2>1. proc[a].at = "moved" /\ proc[a].at \in Rotating /\ Leave(a, Claimed(a), c) /\ meta' = meta
    BY <1>18 DEF BatonFails, Rotating
  <2>2. claims' \in SUBSET Profiles /\ proc' = Rest(a)
    BY <2>1 DEF Leave
  <2>3. c \in [Profiles -> Profiles \cup {Nil}]
    BY <2>1, SwapFacts
  <2> HIDE DEF c
  <2>4. /\ run' \in [Runs -> RunRecord] /\ \A r \in Runs \ {a} : run'[r].status = run[r].status
        /\ cool' \in [Profiles -> Profiles \cup {Nil}]
    <3>1. /\ run' \in [Runs -> RunRecord] /\ \A r \in Runs \ {a} : run'[r].status = run[r].status
          /\ cool' = IF a \in Runs THEN [c EXCEPT ![run[a].profile] = run[a].uses] ELSE c
      BY <2>1, LeaveFacts
    <3> QED
      BY <2>3, <3>1 DEF RunRecord, Logins
  <2>5. holds' \in [Profiles -> Profiles] /\ cache' \in [Profiles -> Profiles]
    BY <1>18, <2>1, SwapFacts DEF BatonFails
  <2>6. count' \in [Counted -> Nat] /\ \A w \in Counted : count'[w] <= setup'.bound[w]
    BY <1>18, CountFacts DEF BatonFails, Counted
  <2>7. Changed(a) /\ proc'[a].at \in {"idle", "planning"} /\ (a \in Runs => proc'[a].at = "idle")
    BY <2>2, RestFacts
  <2>8. Linked'
    BY <2>1, <2>4, <2>7, LinkStep
  <2> QED
    BY <2>1, <2>2, <2>4, <2>5, <2>6, <2>7, <2>8 DEF RotationTypeOK, Changed, Logins
<1>19. ASSUME NEW p \in Profiles, Observe(p) \/ Reset(p) \/ Lapse(p) PROVE RotationTypeOK'
  BY <1>19 DEF Observe, Reset, Lapse, RotationTypeOK, Linked, Logins
<1> QED
  BY <1>1, <1>2, <1>3, <1>4, <1>5, <1>6, <1>7, <1>8, <1>9, <1>10, <1>11, <1>12, <1>13, <1>14, <1>15,
     <1>16, <1>17, <1>18, <1>19 DEF Step, Supervise, Maintain

(* A step of one actor leaves the plans of the others as they were.        *)
LEMMA OtherPlans ==
  ASSUME RotationTypeOK, PlanInv, NEW a \in Actors, Changed(a), setup' = setup,
         \A r \in Runs : \/ run'[r] = run[r]
                         \/ r = a /\ run[r].status # "limit"
                         \/ a = "tick" /\ run[r].status = "limit"
  PROVE  /\ \A r \in Runs \ {a} : RunPlan(r)'
         /\ a # "tick" => TickPlan'
         /\ a # "user" => UserPlan'
         /\ \A b \in Actors \ {a} : Plan(b)'
<1> USE Who, Fields
<1>1. /\ \A b \in Actors \ {a} : proc'[b] = proc[b]
      /\ \A r \in Runs : proc[r].at # "idle" => run[r].status = "failing" /\ proc[r].for = r
  BY DEF Changed, RotationTypeOK, Linked
<1>2. ASSUME NEW r \in Runs \ {a} PROVE RunPlan(r)'
  <2>1. proc'[r] = proc[r] /\ RunPlan(r)
    BY <1>1 DEF PlanInv
  <2>2. proc[r].at # "idle" => run'[r] = run[r]
    BY <1>1
  <2>3. proc[r].at \in Rotating => proc[r].at # "idle"
    BY DEF Rotating
  <2> QED
    BY <2>1, <2>2, <2>3 DEF RunPlan
<1>3. ASSUME a # "tick" PROVE TickPlan'
  <2>1. proc'["tick"] = proc["tick"] /\ proc["tick"] \in Rotation /\ TickPlan
    BY <1>1, <1>3 DEF PlanInv
  <2>2. \A r \in Runs : run[r].status = "limit" => run'[r] = run[r]
    BY <1>3
  <2>3. \A r \in proc["tick"].runs : r \in Runs
    BY <2>1 DEF Rotation
  <2>4. proc["tick"].for # Nil => proc["tick"].for \in Runs
    BY <2>1 DEF Rotation
  <2> QED
    BY <2>1, <2>2, <2>3, <2>4 DEF TickPlan
<1>4. ASSUME a # "user" PROVE UserPlan'
  BY <1>1, <1>4 DEF PlanInv, UserPlan
<1>5. ASSUME NEW b \in Actors \ {a} PROVE Plan(b)'
  <2>1. proc'[b] = proc[b] /\ InPlace' = InPlace /\ Plan(b)
    BY <1>1 DEF PlanInv, InPlace
  <2>2. proc[b].at \in Rotating /\ proc[b].for # Nil => run'[proc[b].for] = run[proc[b].for]
    <3>1. CASE b \in Runs
      BY <1>1, <3>1 DEF Rotating
    <3>2. CASE b = "tick"
      BY <3>2 DEF PlanInv, TickPlan, Rotation
    <3>3. CASE b = "user"
      BY <3>3 DEF PlanInv, UserPlan
    <3> QED
      BY <3>1, <3>2, <3>3 DEF Actors
  <2> QED
    BY <2>1, <2>2 DEF Plan, More
<1> QED
  BY <1>2, <1>3, <1>4, <1>5

(* An actor whose rotation is over has no plan.                            *)
LEMMA NoPlan ==
  ASSUME RotationTypeOK, PlanInv, NEW a \in Actors, Changed(a), setup' = setup,
         proc'[a].for = Nil, proc'[a].at \in {"idle", "planning"},
         a # "tick" => proc'[a].at = "idle", a = "tick" /\ proc'[a].at # "idle" => InPlace,
         a = "tick" => \A r \in proc'[a].runs : run'[r].status = "limit"
  PROVE  /\ a \in Runs => RunPlan(a)'
         /\ a = "tick" => TickPlan'
         /\ a = "user" => UserPlan'
         /\ Plan(a)'
<1>1. proc'[a].at \notin Rotating /\ InPlace' = InPlace
  BY DEF Rotating, InPlace
<1>2. a \in Runs => RunPlan(a)'
  BY <1>1, Who DEF RunPlan
<1>3. a = "tick" => TickPlan'
  BY <1>1 DEF TickPlan
<1>4. a = "user" => UserPlan'
  BY Who DEF UserPlan
<1>5. Plan(a)'
  BY <1>1, Who DEF Plan
<1> QED
  BY <1>2, <1>3, <1>4, <1>5

LEMMA PlanOf ==
  ASSUME NEW a \in Actors,
         \A r \in Runs \ {a} : RunPlan(r)', \A b \in Actors \ {a} : Plan(b)',
         a # "tick" => TickPlan', a # "user" => UserPlan',
         a \in Runs => RunPlan(a)', a = "tick" => TickPlan', a = "user" => UserPlan', Plan(a)'
  PROVE  PlanInv'
BY DEF PlanInv

LEMMA PlanStep ==
  ASSUME RotationInv, [RotationNext]_rotationVars
  PROVE  PlanInv'
<1> USE Fields, Who DEF RotationInv
<1>0. CASE UNCHANGED rotationVars
  BY <1>0 DEF rotationVars, PlanInv, RunPlan, TickPlan, UserPlan, Plan, More, InPlace
<1> SUFFICES ASSUME Step, setup' = setup PROVE PlanInv'
  BY <1>0 DEF RotationNext
<1>1. ASSUME NEW r \in Runs, Hit(r) \/ Done(r) PROVE PlanInv'
  <2>1. Changed(r) /\ proc'[r] = proc[r] /\ proc[r].at = "idle" /\ run[r].status = "working"
    BY <1>1, HitFacts DEF Hit, Done, Changed, RotationTypeOK, Linked
  <2>2. RunPlan(r)' /\ Plan(r)'
    BY <2>1 DEF RunPlan, Plan, Rotating
  <2> QED
    BY <1>1, <2>1, <2>2, HitFacts, OtherPlans, PlanOf
<1>2. ASSUME NEW r \in Runs, Kill(r) PROVE PlanInv'
  <2>1. [run[r] EXCEPT !.killed = TRUE] \in RunRecord
        /\ \A f \in {"status", "profile", "tried", "attempt", "uses"} :
                 [run[r] EXCEPT !.killed = TRUE][f] = run[r][f]
    BY DEF RunRecord
  <2>2. run'[r] = [run[r] EXCEPT !.killed = TRUE] /\ \A q \in Runs \ {r} : run'[q] = run[q]
    BY <1>2 DEF Kill
  <2>3. proc' = proc /\ Changed(r) /\ run[r].status = "failing"
    BY <1>2 DEF Kill, Changed
  <2>4. proc[r].at # "idle" => proc[r].for = r
    BY DEF RotationTypeOK, Linked
  <2>5. RunPlan(r)'
    BY <2>1, <2>2, <2>3 DEF PlanInv, RunPlan
  <2>6. Plan(r)'
    <3>1. Plan(r) /\ InPlace' = InPlace /\ run'[r].attempt = run[r].attempt
      BY <2>1, <2>2 DEF PlanInv, InPlace
    <3>2. proc[r].at \in Rotating => proc[r].for = r
      BY <2>4 DEF Rotating
    <3> QED
      BY <2>3, <3>1, <3>2 DEF Plan, More
  <2> QED
    BY <2>2, <2>3, <2>5, <2>6, OtherPlans, PlanOf
<1>3. ASSUME NEW r \in Runs, Look(r) PROVE PlanInv'
  <2>1. Changed(r) /\ run' = run
    BY <1>3, LookFacts DEF Look
  <2>2. RunPlan(r)' /\ Plan(r)'
    BY <1>3, <2>1, LookFacts DEF RunPlan, Plan, Rotating
  <2> QED
    BY <2>1, <2>2, OtherPlans, PlanOf
<1>4. ASSUME NEW a \in Actors, Choose(a) PROVE PlanInv'
  <2>1. Changed(a) /\ run' = run /\ proc[a].at = "planning" /\ Plan(a)
    BY <1>4, ChooseFacts DEF Choose, PlanInv
  <2>2. CASE Kept(a, {"at", "for", "from", "to", "of", "seen", "runs"})
    <3>1. /\ a \in Runs => RunPlan(a)'
          /\ a = "tick" => TickPlan'
          /\ a = "user" => UserPlan'
          /\ Plan(a)'
      BY <2>1, <2>2 DEF PlanInv, RunPlan, TickPlan, UserPlan, Plan, Kept, Rotating, InPlace
    <3> QED
      BY <2>1, <3>1, OtherPlans, PlanOf
  <2>3. CASE /\ Kept(a, Whole \ {"to"}) /\ proc'[a].at = "chosen" /\ More(a)
             /\ proc'[a].to \in Left(a) /\ proc'[a].to \in Profiles \ claims
    <3>1. \A f \in {"for", "from", "of", "busy", "runs"} : proc'[a][f] = proc[a][f]
      BY <2>3 DEF Kept, Whole
    <3>2. proc'[a].to # proc[a].from
          /\ (proc[a].for # Nil => proc'[a].to \notin run[proc[a].for].tried \cup proc[a].busy)
      BY <2>3 DEF Left
    <3>3. a \in Runs => RunPlan(a)'
      BY <2>1, <2>3, <3>1, <3>2 DEF PlanInv, RunPlan, RotationTypeOK, Linked
    <3>4. a = "tick" => TickPlan'
      <4>1. a = "tick" => proc[a].for # Nil
        BY <1>4 DEF Choose, Plans
      <4> QED
        BY <2>1, <2>3, <3>1, <4>1 DEF PlanInv, TickPlan
    <3>5. a = "user" => UserPlan'
      BY <2>1, <2>3, <3>1 DEF PlanInv, UserPlan
    <3>6. Plan(a)'
      BY <2>1, <2>3, <3>1, <3>2 DEF Plan, More, InPlace
    <3> QED
      BY <2>1, <3>3, <3>4, <3>5, <3>6, OtherPlans, PlanOf
  <2> QED
    BY <1>4, <2>2, <2>3, ChooseFacts
<1>5. ASSUME NEW a \in Actors, Stop(a) \/ MoveFails(a) \/ BatonFails(a) PROVE PlanInv'
  <2>1. PICK free, c : Leave(a, free, c)
    BY <1>5 DEF Stop, MoveFails, BatonFails
  <2>2. proc[a].at # "idle" /\ (a = "tick" => InPlace)
    BY <1>5 DEF Stop, Plans, MoveFails, BatonFails, PlanInv, Plan
  <2>3. /\ \A r \in Runs :
              /\ r # LeftBy(a) => run'[r] = run[r]
              /\ r # a => run'[r].status = run[r].status
    BY <2>1, <2>2, LeaveFacts
  <2>4. proc' = Rest(a)
    BY <2>1 DEF Leave
  <2>5. a = "tick" => \A r \in proc'[a].runs : run'[r].status = "limit"
    BY <2>3, <2>4, RestFacts DEF PlanInv, TickPlan, Rotation
  <2>6. \A r \in Runs : \/ run'[r] = run[r]
                        \/ r = a /\ run[r].status # "limit"
                        \/ a = "tick" /\ run[r].status = "limit"
    <3>1. a \in Runs => run[a].status = "failing"
      BY <2>2 DEF RotationTypeOK, Linked
    <3>2. a = "tick" /\ proc[a].for # Nil => run[proc[a].for].status = "limit"
      BY DEF PlanInv, TickPlan
    <3> QED
      BY <2>3, <3>1, <3>2 DEF LeftBy
  <2>7. Changed(a) /\ proc'[a].for = Nil /\ proc'[a].at = IF a = "tick" THEN "planning" ELSE "idle"
    BY <2>4, RestFacts
  <2>8. /\ a \in Runs => RunPlan(a)'
        /\ a = "tick" => TickPlan'
        /\ a = "user" => UserPlan'
        /\ Plan(a)'
    BY <2>2, <2>5, <2>7, NoPlan
  <2> QED
    BY <2>6, <2>7, <2>8, OtherPlans, PlanOf
<1>6. ASSUME NEW r \in Runs, Abort(r) \/ Resume(r) PROVE PlanInv'
  <2>1. run[r].status = "failing" /\ \A q \in Runs \ {r} : run'[q] = run[q]
    <3>1. CASE Abort(r)
      BY <3>1 DEF Abort
    <3>2. CASE Resume(r)
      BY <3>2, ResumeFacts
    <3> QED
      BY <1>6, <3>1, <3>2
  <2>2. Changed(r) /\ proc'[r].for = Nil /\ proc'[r].at = "idle"
    BY <1>6, IdleFacts, RestFacts DEF Abort, Resume
  <2>3. RunPlan(r)' /\ Plan(r)'
    BY <2>2, NoPlan
  <2> QED
    BY <2>1, <2>2, <2>3, OtherPlans, PlanOf
<1>7. ASSUME NEW a \in Actors, Swap(a) \/ Move(a) PROVE PlanInv'
  <2>1. Changed(a) /\ Kept(a, Whole) /\ proc'[a].at \in Rotating /\ proc[a].at \in Rotating /\ run' = run
    BY <1>7, OnwardFacts DEF Swap, Move, Rotating
  <2>2. \A f \in {"for", "from", "to", "of", "busy", "runs"} : proc'[a][f] = proc[a][f]
    BY <2>1 DEF Kept, Whole
  <2>3. InPlace' /\ InPlace
    BY <1>7 DEF Swap, Move, PlanInv, Plan, InPlace
  <2>4. a \in Runs => RunPlan(a)'
    BY <2>1, <2>2 DEF PlanInv, RunPlan, Rotating
  <2>5. a = "tick" => TickPlan'
    BY <2>1, <2>2 DEF PlanInv, TickPlan
  <2>6. a = "user" => UserPlan'
    BY <2>1, <2>2 DEF PlanInv, UserPlan, Rotating
  <2>7. Plan(a)'
    BY <2>1, <2>2, <2>3 DEF PlanInv, Plan, More
  <2> QED
    BY <2>1, <2>4, <2>5, <2>6, <2>7, OtherPlans, PlanOf
<1>8. CASE TickLook
  <2>1. Changed("tick") /\ run' = run /\ InPlace
    BY <1>8, TickLookFacts DEF TickLook
  <2>2. TickPlan' /\ Plan("tick")'
    BY <1>8, <2>1, TickLookFacts, NoPlan
  <2> QED
    BY <2>1, <2>2, OtherPlans, PlanOf
<1>9. CASE TickEnd
  <2>1. Changed("tick") /\ run' = run
    BY <1>9, IdleFacts DEF TickEnd
  <2>2. TickPlan' /\ Plan("tick")'
    BY <1>9, <2>1, IdleFacts, NoPlan DEF TickEnd
  <2> QED
    BY <2>1, <2>2, OtherPlans, PlanOf
<1>10. CASE TickRecord
  <2>1. /\ \A q \in Runs : q # proc["tick"].for => run'[q] = run[q]
        /\ proc["tick"].for \in Runs /\ run[proc["tick"].for].status = "limit"
        /\ run'[proc["tick"].for].status = "limit"
    BY <1>10, TickRecordFacts
  <2>2. Changed("tick") /\ proc'["tick"].at = "planning" /\ proc'["tick"].for = Nil
        /\ proc'["tick"].runs = proc["tick"].runs /\ InPlace
    BY <1>10, RestFacts DEF TickRecord, PlanInv, Plan
  <2>3. \A r \in proc'["tick"].runs : run'[r].status = "limit"
    BY <2>1, <2>2 DEF PlanInv, TickPlan, Rotation
  <2>4. TickPlan' /\ Plan("tick")'
    BY <2>2, <2>3, NoPlan
  <2> QED
    BY <2>1, <2>2, <2>4, OtherPlans, PlanOf
<1>11. CASE UserLook
  <2>1. Changed("user") /\ run' = run /\ InPlace /\ InPlace'
    BY <1>11, UserLookFacts DEF UserLook, InPlace
  <2>2. UserPlan' /\ Plan("user")'
    BY <1>11, <2>1, UserLookFacts DEF UserPlan, Plan, Rotating
  <2> QED
    BY <2>1, <2>2, OtherPlans, PlanOf
<1>12. CASE UserEnd
  <2>1. Changed("user") /\ run' = run /\ proc'["user"].at = "idle" /\ proc'["user"].for = Nil
    BY <1>12, RestFacts DEF UserEnd
  <2>2. UserPlan' /\ Plan("user")'
    BY <2>1, NoPlan
  <2> QED
    BY <2>1, <2>2, OtherPlans, PlanOf
<1>13. ASSUME NEW r \in Runs, TickTake(r) PROVE PlanInv'
  <2>1. Changed("tick") /\ run' = run /\ proc["tick"].at = "planning" /\ proc'["tick"].at = "planning"
    BY <1>13, TickTakeFacts DEF TickTake, Kept
  <2>2. run[r].status = "limit"
    BY <1>13 DEF TickTake, PlanInv, TickPlan
  <2>3. TickPlan'
    BY <1>13, <2>1, <2>2, TickTakeFacts DEF PlanInv, TickPlan
  <2>4. Plan("tick")'
    BY <2>1 DEF PlanInv, Plan, Rotating, InPlace
  <2> QED
    BY <2>1, <2>3, <2>4, OtherPlans, PlanOf
<1>14. ASSUME NEW p \in Profiles, ArmedSwap(p) \/ Observe(p) \/ Reset(p) \/ Lapse(p) PROVE PlanInv'
  <2>1. run' = run /\ proc' = proc
    BY <1>14 DEF ArmedSwap, Observe, Reset, Lapse
  <2> QED
    BY <2>1 DEF PlanInv, RunPlan, TickPlan, UserPlan, Plan, More, InPlace
<1> QED
  BY <1>1, <1>2, <1>3, <1>4, <1>5, <1>6, <1>7, <1>8, <1>9, <1>10, <1>11, <1>12, <1>13, <1>14
     DEF Step, Supervise, Maintain

-----------------------------------------------------------------------------
(* Claims: an actor takes what nobody has claimed, and gives back no more  *)
(* than it has taken.                                                      *)
LEMMA Takes ==
  ASSUME ClaimInv, NEW a \in Actors, Changed(a), NEW q, q \notin claims, claims \cup {q} \subseteq claims',
         Taken(a)' \subseteq Taken(a) \cup {q}
  PROVE  ClaimInv'
<1>1. \A b \in Actors \ {a} : Taken(b)' = Taken(b)
  BY DEF Changed, Taken, Claimed
<1> QED
  BY <1>1 DEF ClaimInv, OneTaker

LEMMA GivesBack ==
  ASSUME ClaimInv, NEW a \in Actors, Changed(a), claims \ Taken(a) \subseteq claims', Taken(a)' = {}
  PROVE  ClaimInv'
<1>1. \A b \in Actors \ {a} : Taken(b)' = Taken(b)
  BY DEF Changed, Taken, Claimed
<1> QED
  BY <1>1 DEF ClaimInv, OneTaker

LEMMA Keeps ==
  ASSUME ClaimInv, NEW a \in Actors, Changed(a), claims \subseteq claims', Taken(a)' = Taken(a)
  PROVE  ClaimInv'
<1>1. \A b \in Actors : Taken(b)' = Taken(b)
  BY DEF Changed, Taken, Claimed
<1> QED
  BY <1>1 DEF ClaimInv, OneTaker

LEMMA NothingTaken ==
  ASSUME NEW a \in Actors, proc'[a].at \in {"idle", "planning"}, a = "user" => proc'[a].at = "idle"
  PROVE  Taken(a)' = {}
BY DEF Taken

LEMMA ClaimStep ==
  ASSUME RotationInv, [RotationNext]_rotationVars
  PROVE  ClaimInv'
<1> USE Fields, Who DEF RotationInv
<1>0. CASE UNCHANGED rotationVars
  BY <1>0 DEF rotationVars, ClaimInv, OneTaker, Taken, Claimed
<1> SUFFICES ASSUME Step, setup' = setup PROVE ClaimInv'
  BY <1>0 DEF RotationNext
<1>1. ASSUME proc' = proc, claims \subseteq claims' PROVE ClaimInv'
  <2>1. \A b \in Actors : Taken(b)' = Taken(b)
    BY <1>1 DEF Taken, Claimed
  <2> QED
    BY <1>1, <2>1 DEF ClaimInv, OneTaker
<1>2. ASSUME NEW r \in Runs, Hit(r) \/ Done(r) \/ Kill(r) PROVE ClaimInv'
  BY <1>1, <1>2 DEF Hit, Done, Kill
<1>3. ASSUME NEW p \in Profiles, ArmedSwap(p) \/ Observe(p) \/ Reset(p) PROVE ClaimInv'
  BY <1>1, <1>3 DEF ArmedSwap, Observe, Reset
<1>4. ASSUME NEW p \in Profiles, Lapse(p) PROVE ClaimInv'
  <2> SUFFICES ASSUME Patient PROVE ClaimInv'
    BY DEF ClaimInv
  <2>1. \A a \in Actors : Taken(a) \subseteq Claimed(a) /\ Taken(a)' = Taken(a)
    BY <1>4 DEF Lapse, Taken, Claimed
  <2>2. \A a \in Actors : p \notin Taken(a)
    BY <1>4, <2>1 DEF Lapse
  <2> QED
    BY <1>4, <2>1, <2>2 DEF Lapse, ClaimInv, OneTaker
<1>5. ASSUME NEW r \in Runs, Look(r) PROVE ClaimInv'
  <2>1. Changed(r) /\ claims' = claims /\ proc[r].at = "idle" /\ proc'[r].at = "planning"
    BY <1>5, LookFacts DEF Look
  <2>2. Taken(r) = {} /\ Taken(r)' = {}
    BY <2>1 DEF Taken
  <2> QED
    BY <2>1, <2>2, Keeps
<1>6. ASSUME NEW a \in Actors, Choose(a) PROVE ClaimInv'
  <2>1. CASE Kept(a, {"at", "for", "from", "to", "of", "seen", "runs"}) /\ claims' = claims
    <3>1. Taken(a)' = Taken(a)
      BY <2>1 DEF Kept, Taken, Claimed
    <3> QED
      BY <1>6, <2>1, <3>1, ChooseFacts, Keeps
  <2>2. CASE /\ Kept(a, Whole \ {"to"}) /\ proc'[a].at = "chosen"
             /\ proc'[a].to \notin claims /\ claims' = claims \cup {proc'[a].to}
    <3>1. Taken(a)' \subseteq Taken(a) \cup {proc'[a].to}
      BY <1>6, <2>2, ChooseFacts DEF Kept, Whole, Taken, Claimed
    <3> QED
      BY <1>6, <2>2, <3>1, ChooseFacts, Takes
  <2> QED
    BY <1>6, <2>1, <2>2, ChooseFacts
<1>7. ASSUME NEW a \in Actors, Stop(a) \/ MoveFails(a) \/ BatonFails(a) PROVE ClaimInv'
  <2>1. proc' = Rest(a) /\ claims \ Taken(a) \subseteq claims'
    BY <1>7 DEF Stop, Plans, MoveFails, BatonFails, Leave, Taken, Claimed
  <2>2. Changed(a) /\ Taken(a)' = {}
    BY <2>1, RestFacts, NothingTaken
  <2> QED
    BY <2>1, <2>2, GivesBack
<1>8. ASSUME NEW r \in Runs, Abort(r) \/ Resume(r) PROVE ClaimInv'
  <2>1. claims \ Taken(r) \subseteq claims'
    BY <1>8 DEF Abort, Resume, Taken, Claimed
  <2>2. Changed(r) /\ proc'[r].at = "idle"
    BY <1>8, IdleFacts, RestFacts DEF Abort, Resume
  <2> QED
    BY <2>1, <2>2, NothingTaken, GivesBack
<1>9. ASSUME NEW a \in Actors, Swap(a) \/ Move(a) PROVE ClaimInv'
  <2>1. Changed(a) /\ Kept(a, Whole) /\ proc'[a].at \in Rotating /\ proc[a].at \in Rotating
        /\ claims' = claims
    BY <1>9, OnwardFacts DEF Swap, Move, Rotating
  <2>2. Taken(a)' = Taken(a)
    BY <2>1 DEF Kept, Whole, Taken, Claimed, Rotating
  <2> QED
    BY <2>1, <2>2, Keeps
<1>10. CASE TickLook \/ \E r \in Runs : TickTake(r)
  <2>1. Changed("tick") /\ claims' = claims /\ proc["tick"].at \in {"idle", "planning"}
        /\ proc'["tick"].at = "planning"
    BY <1>10, TickLookFacts, TickTakeFacts DEF TickLook, TickTake, Kept
  <2>2. Taken("tick") = {} /\ Taken("tick")' = {}
    BY <2>1 DEF Taken
  <2> QED
    BY <2>1, <2>2, Keeps
<1>11. CASE TickEnd \/ TickRecord
  <2>1. claims \ Taken("tick") \subseteq claims'
    BY <1>11 DEF TickEnd, TickRecord, Taken, Claimed
  <2>2. Changed("tick") /\ proc'["tick"].at \in {"idle", "planning"}
    BY <1>11, IdleFacts, RestFacts DEF TickEnd, TickRecord
  <2> QED
    BY <2>1, <2>2, NothingTaken, GivesBack
<1>12. CASE UserLook
  <2>1. Taken("user")' = {proc'["user"].from}
    BY <1>12, UserLookFacts DEF Taken
  <2> QED
    BY <1>12, <2>1, UserLookFacts, Takes
<1>13. CASE UserEnd
  <2>1. claims \ Taken("user") \subseteq claims'
    BY <1>13 DEF UserEnd, Taken
  <2>2. Changed("user") /\ proc'["user"].at = "idle"
    BY <1>13, RestFacts DEF UserEnd
  <2> QED
    BY <2>1, <2>2, NothingTaken, GivesBack
<1> QED
  BY <1>2, <1>3, <1>4, <1>5, <1>6, <1>7, <1>8, <1>9, <1>10, <1>11, <1>12, <1>13
     DEF Step, Supervise, Maintain

-----------------------------------------------------------------------------
(* Where credentials are swapped there is one run, and one actor rotates.  *)
LEMMA OneRun ==
  ASSUME RotationTypeOK, Undisturbed, AloneInv, InPlace
  PROVE  \A q, r \in Runs : run[q].status # "done" /\ run[r].status # "done" => q = r
BY DEF AloneInv, Undisturbed

LEMMA OneActor ==
  ASSUME RotationTypeOK, Undisturbed, AloneInv, InPlace
  PROVE  /\ \A a, b \in Actors : proc[a].at # "idle" /\ proc[b].at # "idle" => a = b
         /\ \A a \in Actors : meta # Nil /\ proc[a].at # "idle" => meta = a
         /\ proc["tick"].at # "idle" => \A r \in Runs : run[r].status \in {"limit", "done"}
<1>1. \A r \in Runs : proc[r].at # "idle" => run[r].status = "failing"
  BY DEF RotationTypeOK, Linked
<1>2. proc["tick"].at # "idle" => \A r \in Runs : run[r].status \in {"limit", "done"}
  BY OneRun DEF AloneInv
<1>3. \A a, b \in Actors : proc[a].at # "idle" /\ proc[b].at # "idle" => a = b
  BY <1>1, <1>2, OneRun DEF Actors, AloneInv
<1>4. meta # Nil => meta \in Actors /\ proc[meta].at = "moving"
  BY DEF RotationTypeOK, Linked
<1> QED
  BY <1>2, <1>3, <1>4

(* A run that goes on, or ended at its limit, does so for ever, and the    *)
(* ticks are counted.                                                      *)
Forward ==
  \A r \in Runs :
    /\ run'[r].status # "done" => run[r].status # "done"
    /\ run[r].status = "limit" => run'[r].status = "limit"

LEMMA StatusStep ==
  ASSUME RotationInv, Step, setup' = setup
  PROVE  Forward
<1> USE Fields, Who DEF RotationInv
<1>1. ASSUME run' = run PROVE Forward
  BY <1>1 DEF Forward
<1>2. ASSUME NEW r \in Runs, Hit(r) \/ Done(r) PROVE Forward
  BY <1>2, HitFacts DEF Forward
<1>3. ASSUME NEW r \in Runs, Kill(r) \/ Abort(r) PROVE Forward
  <2>1. /\ [run[r] EXCEPT !.killed = TRUE].status = run[r].status
        /\ [run[r] EXCEPT !.status = "aborted"].status = "aborted"
    BY DEF RunRecord
  <2> QED
    BY <1>3, <2>1 DEF Kill, Abort, Forward
<1>4. ASSUME NEW r \in Runs, Resume(r) PROVE Forward
  BY <1>4, ResumeFacts DEF Forward
<1>5. ASSUME NEW a \in Actors, Stop(a) \/ MoveFails(a) \/ BatonFails(a) PROVE Forward
  <2>1. proc[a].at # "idle" /\ \E free, c : Leave(a, free, c)
    BY <1>5 DEF Stop, Plans, MoveFails, BatonFails
  <2>2. \A r \in Runs : run'[r].status = IF r = a THEN "limit" ELSE run[r].status
    BY <2>1, LeaveFacts
  <2>3. a \in Runs => run[a].status = "failing"
    BY <2>1 DEF RotationTypeOK, Linked
  <2> QED
    BY <2>2, <2>3 DEF Forward
<1>6. CASE TickRecord
  BY <1>6, TickRecordFacts DEF Forward
<1>7. ASSUME NEW a \in Actors, Choose(a) \/ Swap(a) \/ Move(a) PROVE Forward
  BY <1>1, <1>7 DEF Choose, Swap, Move
<1>8. ASSUME NEW r \in Runs, Look(r) \/ TickTake(r) PROVE Forward
  BY <1>1, <1>8 DEF Look, TickTake
<1>9. CASE TickLook \/ TickEnd \/ UserLook \/ UserEnd
  BY <1>1, <1>9 DEF TickLook, TickEnd, UserLook, UserEnd
<1>10. ASSUME NEW p \in Profiles, ArmedSwap(p) \/ Observe(p) \/ Reset(p) \/ Lapse(p) PROVE Forward
  BY <1>1, <1>10 DEF ArmedSwap, Observe, Reset, Lapse
<1> QED
  BY <1>2, <1>3, <1>4, <1>5, <1>6, <1>7, <1>8, <1>9, <1>10 DEF Step, Supervise, Maintain

(* What does not happen undisturbed, and what is left of the rest.         *)
LEMMA NotDisturbed ==
  ASSUME RotationTypeOK, Undisturbed, setup' = setup
  PROVE  ~UserLook /\ \A p \in Profiles : ~ArmedSwap(p)
<1>1. /\ \A w \in Counted : count[w] <= setup.bound[w] /\ count[w] \in Nat
      /\ setup.bound["rotates"] = 0 /\ setup.bound["armed"] = 0
  BY DEF RotationTypeOK, Undisturbed
<1>2. count["rotates"] = 0 /\ count["armed"] = 0
  BY <1>1 DEF Counted
<1>3. ~May("rotates") /\ ~May("armed")
  BY <1>1, <1>2 DEF May
<1> QED
  BY <1>3 DEF UserLook, ArmedSwap

(* Credentials move between the two sides of a rotation.                   *)
Swaps(a) ==
  /\ InPlace /\ proc[a].at \in Rotating /\ proc[a].from \in Profiles /\ proc[a].to \in Profiles
  /\ holds' = Exchange(holds, proc[a].from, proc[a].to)
LEMMA HoldsStep ==
  ASSUME RotationInv, Undisturbed, Step, setup' = setup
  PROVE  holds' = holds \/ \E a \in Actors : Swaps(a)
<1> USE Fields, Who DEF RotationInv
<1>1. ASSUME NEW a \in Actors, Swap(a) \/ MoveFails(a) \/ BatonFails(a), holds' # holds
      PROVE  Swaps(a)
  <2>1. /\ proc[a].at \in Rotating /\ InPlace
        /\ holds' = Exchange(holds, proc[a].from, proc[a].to)
    BY <1>1 DEF Swap, MoveFails, BatonFails, PlanInv, Plan, Rotating
  <2> QED
    BY <2>1, SwapFacts DEF Swaps
<1>2. ASSUME NEW a \in Actors, Choose(a) \/ Move(a) \/ Stop(a) PROVE holds' = holds
  BY <1>2 DEF Choose, Move, Stop
<1>3. ASSUME NEW r \in Runs, Look(r) \/ TickTake(r) \/ Hit(r) \/ Done(r) \/ Kill(r) \/ Abort(r) \/ Resume(r)
      PROVE  holds' = holds
  BY <1>3 DEF Look, TickTake, Hit, Done, Kill, Abort, Resume
<1>4. CASE TickLook \/ TickEnd \/ TickRecord \/ UserEnd
  BY <1>4 DEF TickLook, TickEnd, TickRecord, UserEnd
<1>5. ASSUME NEW p \in Profiles, Observe(p) \/ Reset(p) \/ Lapse(p) PROVE holds' = holds
  BY <1>5 DEF Observe, Reset, Lapse
<1> QED
  BY <1>1, <1>2, <1>3, <1>4, <1>5, NotDisturbed DEF Step, Supervise, Maintain

(* The tick looks once.                                                    *)
LEMMA TickStep ==
  ASSUME RotationInv, Undisturbed, Step, setup' = setup
  PROVE  \/ proc'["tick"] = proc["tick"] /\ count'["ticks"] = count["ticks"]
         \/ TickLook /\ count["ticks"] = 0 /\ count'["ticks"] > 0
         \/ /\ proc["tick"].at # "idle" /\ count'["ticks"] = count["ticks"] /\ Changed("tick")
            /\ proc'["tick"].runs \subseteq proc["tick"].runs
<1> USE Fields, Who DEF RotationInv
<1>1. ASSUME NEW a \in Actors, MoveFails(a) \/ BatonFails(a) \/ Choose(a) \/ Move(a) \/ Stop(a) \/ Swap(a)
      PROVE  /\ Changed(a) /\ proc[a].at # "idle" /\ count'["ticks"] = count["ticks"]
             /\ proc'[a].runs \subseteq proc[a].runs
  <2>1. CASE MoveFails(a) \/ BatonFails(a)
    <3>1. proc' = Rest(a) /\ proc[a].at # "idle"
      BY <2>1 DEF MoveFails, BatonFails, Leave
    <3>2. count'["ticks"] = count["ticks"]
      BY <2>1, CountFacts DEF MoveFails, BatonFails, Counted
    <3> QED
      BY <3>1, <3>2, RestFacts
  <2>2. CASE Choose(a)
    BY <2>2, ChooseFacts DEF Choose, Kept, Whole
  <2>3. CASE Move(a) \/ Swap(a)
    BY <2>3, OnwardFacts DEF Move, Swap, Kept, Whole
  <2>4. CASE Stop(a)
    <3>1. proc' = Rest(a) /\ proc[a].at # "idle" /\ count' = count
      BY <2>4 DEF Stop, Plans, Leave
    <3> QED
      BY <3>1, RestFacts
  <2> QED
    BY <1>1, <2>1, <2>2, <2>3, <2>4
<1>2. ASSUME NEW r \in Runs, Look(r) \/ Abort(r) \/ Resume(r)
      PROVE  Changed(r) /\ count'["ticks"] = count["ticks"]
  BY <1>2, LookFacts, IdleFacts, RestFacts DEF Look, Abort, Resume
<1>3. ASSUME NEW r \in Runs, Hit(r) \/ Done(r) \/ Kill(r)
      PROVE  proc' = proc /\ count'["ticks"] = count["ticks"]
  BY <1>3, CountFacts DEF Hit, Done, Kill, Counted
<1>4. CASE TickLook
  <2>1. setup.bound["ticks"] <= 1 /\ setup.bound \in [Counted -> Nat]
    BY <1>4, RotationAssumption DEF TickLook, Undisturbed, RotationTypeOK
  <2>2. count["ticks"] < setup.bound["ticks"] /\ count'["ticks"] > 0 /\ count["ticks"] \in Nat
    BY <1>4, CountFacts DEF TickLook, Counted
  <2> QED
    BY <1>4, <2>1, <2>2 DEF Counted
<1>5. ASSUME NEW r \in Runs, TickTake(r)
      PROVE  /\ proc["tick"].at # "idle" /\ count'["ticks"] = count["ticks"] /\ Changed("tick")
             /\ proc'["tick"].runs \subseteq proc["tick"].runs
  <2>1. proc'["tick"].runs = proc["tick"].runs \ {r} /\ Changed("tick")
    BY <1>5, TickTakeFacts
  <2>2. proc["tick"].at # "idle" /\ count' = count
    BY <1>5 DEF TickTake
  <2> QED
    BY <2>1, <2>2
<1>6. CASE TickEnd \/ TickRecord
  BY <1>6, IdleFacts, RestFacts DEF TickEnd, TickRecord
<1>7. CASE UserEnd
  BY <1>7, RestFacts DEF UserEnd, Changed
<1>8. ASSUME NEW p \in Profiles, Observe(p) \/ Reset(p) \/ Lapse(p) PROVE proc' = proc /\ count' = count
  BY <1>8 DEF Observe, Reset, Lapse
<1> QED
  BY <1>1, <1>2, <1>3, <1>4, <1>5, <1>6, <1>7, <1>8, NotDisturbed DEF Step, Supervise, Maintain, Changed

LEMMA AloneStep ==
  ASSUME RotationInv, Undisturbed, Step, setup' = setup
  PROVE  AloneInv'
<1> USE Fields, Who DEF RotationInv
<1>1. AloneInv /\ Forward
  BY StatusStep DEF UndisturbedInv
<1>2. proc'["user"].at = "idle"
  <2>1. \A a \in Actors \ {"user"} : Changed(a) => proc'["user"] = proc["user"]
    BY DEF Changed
  <2>2. ASSUME NEW a \in Actors, MoveFails(a) \/ BatonFails(a) \/ Choose(a) \/ Move(a) \/ Stop(a) \/ Swap(a)
        PROVE  proc[a].at # "idle" /\ Changed(a)
    <3>1. proc[a].at # "idle"
      BY <2>2 DEF MoveFails, BatonFails, Choose, Move, Stop, Plans, Swap
    <3>2. CASE MoveFails(a) \/ BatonFails(a) \/ Stop(a)
      BY <3>1, <3>2, RestFacts DEF MoveFails, BatonFails, Stop, Leave
    <3> QED
      BY <2>2, <3>1, <3>2, ChooseFacts, OnwardFacts DEF Move, Swap
  <2>3. ASSUME NEW r \in Runs, Look(r) \/ Abort(r) \/ Resume(r) \/ TickTake(r)
        PROVE  Changed(r) \/ Changed("tick")
    BY <2>3, LookFacts, IdleFacts, RestFacts, TickTakeFacts DEF Abort, Resume
  <2>4. CASE TickLook \/ TickEnd \/ TickRecord
    BY <1>1, <2>1, <2>4, TickLookFacts, IdleFacts, RestFacts DEF TickEnd, TickRecord, AloneInv
  <2>5. ~UserEnd
    BY <1>1 DEF UserEnd, AloneInv
  <2>6. ASSUME NEW r \in Runs, Hit(r) \/ Done(r) \/ Kill(r) PROVE proc' = proc
    BY <2>6 DEF Hit, Done, Kill
  <2>7. ASSUME NEW p \in Profiles, Observe(p) \/ Reset(p) \/ Lapse(p) PROVE proc' = proc
    BY <2>7 DEF Observe, Reset, Lapse
  <2> QED
    BY <1>1, <2>1, <2>2, <2>3, <2>4, <2>5, <2>6, <2>7, NotDisturbed DEF Step, Supervise, Maintain, AloneInv
<1>3. \A r \in Runs : run'[r].status # "done" => r \in setup'.working
  BY <1>1 DEF AloneInv, Forward
<1>4. /\ proc'["tick"].at # "idle" => count'["ticks"] > 0 /\ \E r \in Runs : run'[r].status = "limit"
  <2>1. CASE TickLook /\ count'["ticks"] > 0
    BY <1>1, <2>1 DEF TickLook, Forward
  <2>2. CASE proc["tick"].at # "idle" /\ count'["ticks"] = count["ticks"]
    BY <1>1, <2>2 DEF AloneInv, Forward
  <2> QED
    BY <2>1, <2>2, TickStep
<1>5. proc'["tick"].runs # {} \/ proc'["tick"].for # Nil => proc'["tick"].at # "idle"
  <2>1. CASE proc'["tick"] = proc["tick"]
    BY <1>1, <2>1 DEF AloneInv
  <2>2. CASE proc["tick"].at # "idle" /\ Changed("tick") /\ proc'["tick"].at = "idle"
    <3>1. CASE TickEnd
      BY <3>1, IdleFacts DEF TickEnd
    <3>2. CASE ~TickEnd
      <4>1. ASSUME NEW a \in {"tick"}, Stop(a) \/ MoveFails(a) \/ BatonFails(a) \/ TickRecord
            PROVE  FALSE
        BY <2>2, <4>1, RestFacts DEF Stop, MoveFails, BatonFails, TickRecord, Leave
      <4>2. ASSUME NEW a \in {"tick"}, Choose(a) \/ Swap(a) \/ Move(a) PROVE FALSE
        BY <2>2, <4>2, ChooseFacts, OnwardFacts DEF Swap, Move, Kept
      <4>3. ASSUME NEW r \in Runs, TickTake(r) PROVE FALSE
        BY <2>2, <4>3, TickTakeFacts DEF Kept
      <4>4. ~TickLook
        BY <2>2 DEF TickLook
      <4>5. ASSUME NEW r \in Runs,
                   Look(r) \/ Abort(r) \/ Resume(r) \/ Hit(r) \/ Done(r) \/ Kill(r) \/ Choose(r) \/ Stop(r)
                   \/ Swap(r) \/ Move(r) \/ MoveFails(r) \/ BatonFails(r)
            PROVE  FALSE
        <5>1. proc' = proc \/ Changed(r)
          <6>1. CASE Stop(r) \/ MoveFails(r) \/ BatonFails(r) \/ Resume(r)
            BY <6>1, RestFacts DEF Stop, MoveFails, BatonFails, Resume, Leave
          <6> QED
            BY <4>5, <6>1, LookFacts, IdleFacts, ChooseFacts, OnwardFacts
               DEF Abort, Hit, Done, Kill, Swap, Move
        <5> QED
          BY <2>2, <5>1 DEF Changed
      <4>6. ASSUME NEW a \in {"user"},
                   Choose(a) \/ Stop(a) \/ Swap(a) \/ Move(a) \/ MoveFails(a) \/ BatonFails(a) \/ UserEnd
            PROVE  FALSE
        BY <1>1, <4>6 DEF Choose, Stop, Plans, Swap, Move, MoveFails, BatonFails, UserEnd, AloneInv
      <4>7. ASSUME NEW p \in Profiles, Observe(p) \/ Reset(p) \/ Lapse(p) PROVE FALSE
        BY <2>2, <4>7 DEF Observe, Reset, Lapse
      <4> QED
        BY <3>2, <4>1, <4>2, <4>3, <4>4, <4>5, <4>6, <4>7, NotDisturbed
           DEF Step, Supervise, Maintain, Actors
    <3> QED
      BY <3>1, <3>2
  <2>3. CASE TickLook
    BY <2>3, TickLookFacts
  <2> QED
    BY <2>1, <2>2, <2>3, TickStep
<1>6. ~InPlace' => \A p \in Profiles : holds'[p] = p
  BY <1>1, HoldsStep DEF AloneInv, Swaps, InPlace
<1>7. \A p, q \in Profiles : holds'[p] = holds'[q] => p = q
  <2>1. ASSUME NEW a \in Actors, Swaps(a) PROVE \A p, q \in Profiles : holds'[p] = holds'[q] => p = q
    BY <1>1, <2>1 DEF Swaps, Exchange, AloneInv
  <2> QED
    BY <1>1, <2>1, HoldsStep DEF AloneInv
<1> QED
  BY <1>2, <1>3, <1>4, <1>5, <1>6, <1>7 DEF AloneInv

(* A supervisor that leaves its run limited, and one that goes on, cool    *)
(* the profile where the spent account is then.                            *)
LEMMA LeaveCools ==
  ASSUME RotationInv, Undisturbed, NEW r \in Runs, Stop(r) \/ MoveFails(r) \/ BatonFails(r), setup' = setup
  PROVE  /\ run[r].profile \in Profiles /\ run[r].status = "failing" /\ proc[r].from = run[r].profile
         /\ holds'[run[r].profile] = run[r].uses /\ cool'[run[r].profile] = run[r].uses
         /\ run'[r].status = "limit" /\ run'[r].profile = run[r].profile /\ run'[r].uses = run[r].uses
<1> USE Fields, Who DEF RotationInv
<1>1. proc[r].at # "idle" /\ run[r].profile \in Profiles
  BY DEF Stop, Plans, MoveFails, BatonFails
<1>2. run[r].status = "failing" /\ proc[r].from = run[r].profile
  BY <1>1 DEF RotationTypeOK, Linked, PlanInv, RunPlan
<1>3. holds[IF proc[r].at \in {"moving", "moved"} THEN proc[r].to ELSE run[r].profile] = run[r].uses
  BY <1>2 DEF UndisturbedInv, LodgedInv, Lodged
<1>4. holds'[run[r].profile] = run[r].uses
  <2>1. CASE Stop(r)
    BY <1>3, <2>1 DEF Stop, Plans
  <2>2. CASE (MoveFails(r) \/ BatonFails(r)) /\ proc[r].at \in {"moving", "moved"}
    <3>1. holds' = Exchange(holds, proc[r].from, proc[r].to)
      BY <2>2 DEF MoveFails, BatonFails
    <3>2. proc[r].from \in Profiles /\ proc[r].to \in Profiles
      BY <2>2, SwapFacts DEF Rotating
    <3>3. Exchange(holds, proc[r].from, proc[r].to)[proc[r].from] = holds[proc[r].to]
      BY <3>2 DEF Exchange
    <3> QED
      BY <1>2, <1>3, <2>2, <3>1, <3>3
  <2>3. CASE MoveFails(r) /\ proc[r].at = "chosen"
    BY <1>3, <2>3 DEF MoveFails
  <2> QED
    BY <2>1, <2>2, <2>3 DEF MoveFails, BatonFails
<1>5. PICK c \in [Profiles -> Profiles \cup {Nil}] : \E free : Leave(r, free, c)
  <2>1. CASE BatonFails(r)
    <3>1. /\ Leave(r, Claimed(r), Exchange(cool, proc[r].from, proc[r].to))
          /\ Exchange(cool, proc[r].from, proc[r].to) \in [Profiles -> Profiles \cup {Nil}]
      BY <2>1, SwapFacts DEF BatonFails, Rotating
    <3> QED
      BY <3>1
  <2>2. CASE Stop(r) \/ MoveFails(r)
    <3>1. cool \in [Profiles -> Profiles \cup {Nil}] /\ \E free : Leave(r, free, cool)
      BY <2>2 DEF Stop, MoveFails
    <3> QED
      BY <3>1
  <2> QED
    BY <2>1, <2>2
<1>6. cool' = [c EXCEPT ![run[r].profile] = run[r].uses] /\ run'[r].status = "limit"
      /\ run'[r].profile = run[r].profile /\ run'[r].uses = run[r].uses
  BY <1>1, <1>5, LeaveFacts
<1> QED
  BY <1>1, <1>2, <1>4, <1>6

LEMMA ResumeCools ==
  ASSUME RotationInv, Undisturbed, NEW r \in Runs, Resume(r), setup' = setup
  PROVE  /\ SpentSlot(r) \in Profiles
         /\ holds'[SpentSlot(r)] = run[r].uses /\ cool' = [cool EXCEPT ![SpentSlot(r)] = run[r].uses]
<1> USE Fields, Who DEF RotationInv
<1>1. /\ proc[r].to \in Profiles /\ run[r].status = "failing" /\ proc[r].from = run[r].profile
      /\ cool' = [cool EXCEPT ![SpentSlot(r)] = run[r].uses]
  BY ResumeFacts
<1>2. holds[IF proc[r].at \in {"moving", "moved"} THEN proc[r].to ELSE run[r].profile] = run[r].uses
  BY <1>1 DEF UndisturbedInv, LodgedInv, Lodged
<1>3. holds' = holds /\ IF InPlace THEN proc[r].at = "moved" ELSE proc[r].at = "chosen"
  BY DEF Resume
<1> QED
  BY <1>1, <1>2, <1>3 DEF SpentSlot

(* While credentials are swapped nobody is concerned but who swaps them.   *)
LEMMA Bystanders ==
  ASSUME RotationInv, Undisturbed, Step, setup' = setup, NEW a \in Actors, Changed(a), Swaps(a)
  PROVE  /\ \A q \in Runs \ {a} : Lodged(q)' /\ Spent(q)'
         /\ a # "tick" => TickLodged'
<1> USE Fields, Who DEF RotationInv
<1>1. proc[a].at # "idle" /\ InPlace /\ AloneInv /\ Forward
  BY StatusStep DEF Swaps, Rotating, UndisturbedInv
<1>2. CASE a = "tick"
  <2>1. /\ \A q \in Runs : run[q].status \in {"limit", "done"}
        /\ count["ticks"] > 0 /\ count["ticks"] \in Nat
    BY <1>1, <1>2, OneActor DEF AloneInv, Counted
  <2>2. count'["ticks"] = count["ticks"] /\ proc'["tick"].runs \subseteq proc["tick"].runs
    BY <1>1, <1>2, TickStep DEF TickLook
  <2>3. proc["tick"].runs = {}
    <3>1. proc["tick"].for \in Runs /\ run[proc["tick"].for].status = "limit"
          /\ proc["tick"].for \notin proc["tick"].runs
      BY <1>2 DEF Swaps, PlanInv, TickPlan, Rotation
    <3>2. \A q \in proc["tick"].runs : q \in Runs /\ run[q].status = "limit"
      BY DEF PlanInv, TickPlan, Rotation
    <3> QED
      BY <1>1, <3>1, <3>2, OneRun
  <2>4. \A q \in Runs : run'[q].status \in {"limit", "done"}
    BY <1>1, <2>1 DEF Forward
  <2> QED
    BY <1>2, <2>1, <2>2, <2>3, <2>4 DEF Lodged, Spent
<1>3. CASE a # "tick"
  <2>1. a \in Runs
    BY <1>1, <1>3 DEF Actors, AloneInv
  <2>2. proc["tick"].at = "idle"
    BY <1>1, <1>3, OneActor
  <2>3. proc'["tick"].for = Nil
    BY <1>1, <1>3, <2>2 DEF AloneInv, Changed
  <2>4. run[a].status = "failing"
    BY <1>1, <2>1 DEF RotationTypeOK, Linked
  <2>5. \A q \in Runs \ {a} : run[q].status = "done"
    BY <1>1, <2>1, <2>4, OneRun
  <2>6. \A q \in Runs \ {a} : run'[q].status = "done"
    BY <1>1, <2>5 DEF Forward
  <2> QED
    BY <2>3, <2>6 DEF Lodged, Spent, TickLodged
<1> QED
  BY <1>2, <1>3

LEMMA TickRuns ==
  ASSUME RotationInv, Undisturbed, Step, setup' = setup
  PROVE  \A r \in Runs : count'["ticks"] = 0 \/ r \in proc'["tick"].runs =>
                         count["ticks"] = 0 \/ r \in proc["tick"].runs
BY TickStep DEF RotationInv

(* Of whom nothing changes in a step that leaves the credentials alone.    *)
LEMMA LodgedKept ==
  ASSUME RotationInv, Undisturbed, Step, setup' = setup, holds' = holds, NEW q \in Runs,
         run'[q].profile = run[q].profile, run'[q].uses = run[q].uses,
         run'[q].status \in {"working", "failing"} => run[q].status \in {"working", "failing"},
         run'[q].status = "limit" => run[q].status = "limit",
         proc'[q].at \in {"moving", "moved"} <=> proc[q].at \in {"moving", "moved"},
         proc'[q].to = proc[q].to \/ proc[q].at \notin {"moving", "moved"}
  PROVE  Lodged(q)'
<1>1. Lodged(q)
  BY DEF RotationInv, UndisturbedInv, LodgedInv
<1>2. /\ count'["ticks"] = 0 \/ q \in proc'["tick"].runs =>
           count["ticks"] = 0 \/ q \in proc["tick"].runs
  BY TickRuns
<1> QED
  BY <1>1, <1>2 DEF Lodged

LEMMA LodgedStep ==
  ASSUME RotationInv, Undisturbed, Step, setup' = setup
  PROVE  LodgedInv'
<1> USE Fields, Who DEF RotationInv
<1>0. LodgedInv /\ \A r \in Runs : Lodged(r)
  BY DEF UndisturbedInv, LodgedInv
<1>a. ASSUME NEW a \in Actors, Changed(a), holds' = holds,
             \A q \in Runs \ {a} : /\ run'[q].profile = run[q].profile /\ run'[q].uses = run[q].uses
                                   /\ run'[q].status = run[q].status
      PROVE  (\A q \in Runs \ {a} : Lodged(q)') /\ (a # "tick" => TickLodged')
  BY <1>0, <1>a, LodgedKept DEF Changed, LodgedInv, TickLodged
<1>1. ASSUME NEW r \in Runs, Hit(r) \/ Done(r) PROVE LodgedInv'
  <2>1. Changed(r) /\ proc' = proc /\ holds' = holds
    BY <1>1 DEF Hit, Done, Changed
  <2>2. Lodged(r)'
    BY <1>1, <2>1, HitFacts, LodgedKept
  <2> QED
    BY <1>1, <1>a, <2>1, <2>2, HitFacts DEF LodgedInv
<1>2. ASSUME NEW r \in Runs, Kill(r) \/ Look(r) PROVE LodgedInv'
  <2>1. CASE Kill(r)
    <3>1. \A f \in {"status", "profile", "uses"} : [run[r] EXCEPT !.killed = TRUE][f] = run[r][f]
      BY DEF RunRecord
    <3>2. \A q \in Runs : \A f \in {"status", "profile", "uses"} : run'[q][f] = run[q][f]
      BY <2>1, <3>1 DEF Kill
    <3>3. Changed(r) /\ proc' = proc /\ holds' = holds
      BY <2>1 DEF Kill, Changed
    <3> QED
      BY <1>a, <3>2, <3>3, LodgedKept DEF LodgedInv
  <2>2. CASE Look(r)
    <3>1. Changed(r) /\ run' = run /\ holds' = holds /\ proc[r].at = "idle" /\ proc'[r].at = "planning"
      BY <2>2, LookFacts DEF Look
    <3>2. Lodged(r)'
      BY <3>1, LodgedKept
    <3> QED
      BY <1>a, <3>1, <3>2 DEF LodgedInv
  <2> QED
    BY <1>2, <2>1, <2>2
<1>3. ASSUME NEW a \in Actors, Choose(a) \/ Move(a) PROVE LodgedInv'
  <2>1. /\ Changed(a) /\ run' = run /\ holds' = holds
        /\ proc'[a].at \in {"moving", "moved"} <=> proc[a].at \in {"moving", "moved"}
        /\ proc'[a].to = proc[a].to \/ proc[a].at \notin {"moving", "moved"}
        /\ \A f \in {"for", "from", "of"} : proc'[a][f] = proc[a][f]
    BY <1>3, ChooseFacts, OnwardFacts DEF Choose, Move, Kept, Whole
  <2>2. a \in Runs => Lodged(a)'
    BY <2>1, LodgedKept
  <2>3. a = "tick" => TickLodged'
    BY <1>0, <2>1 DEF LodgedInv, TickLodged
  <2> QED
    BY <1>a, <2>1, <2>2, <2>3 DEF LodgedInv
<1>4. ASSUME NEW a \in Actors, Stop(a) \/ MoveFails(a) \/ BatonFails(a) PROVE LodgedInv'
  <2>1. proc' = Rest(a) /\ proc[a].at # "idle" /\ \E free, c : Leave(a, free, c)
    BY <1>4 DEF Stop, Plans, MoveFails, BatonFails, Leave
  <2>2. Changed(a) /\ proc'[a].for = Nil
    BY <2>1, RestFacts
  <2>3. \A q \in Runs \ {a} : /\ run'[q].profile = run[q].profile /\ run'[q].uses = run[q].uses
                              /\ run'[q].status = run[q].status
    BY <2>1, LeaveFacts
  <2>4. a \in Runs => Lodged(a)'
    BY <1>4, LeaveCools DEF Lodged
  <2>5. a = "tick" => TickLodged'
    BY <2>2 DEF TickLodged
  <2>6. (\A q \in Runs \ {a} : Lodged(q)') /\ (a # "tick" => TickLodged')
    <3>1. CASE holds' = holds
      BY <1>a, <2>2, <2>3, <3>1
    <3>2. CASE Swaps(a)
      BY <2>2, <3>2, Bystanders
    <3>3. holds' = holds \/ Swaps(a)
      <4>1. CASE Stop(a)
        BY <4>1 DEF Stop
      <4>2. CASE proc[a].at \in {"moving", "moved"} /\ (MoveFails(a) \/ BatonFails(a))
        <5>1. InPlace /\ proc[a].at \in Rotating /\ holds' = Exchange(holds, proc[a].from, proc[a].to)
          BY <4>2 DEF PlanInv, Plan, Rotating, MoveFails, BatonFails
        <5> QED
          BY <5>1, SwapFacts DEF Swaps
      <4> QED
        BY <1>4, <4>1, <4>2 DEF MoveFails, BatonFails
    <3> QED
      BY <3>1, <3>2, <3>3
  <2> QED
    BY <2>4, <2>5, <2>6 DEF LodgedInv
<1>5. ASSUME NEW a \in Actors, Swap(a) PROVE LodgedInv'
  <2>1. Changed(a) /\ Kept(a, Whole) /\ proc'[a].at = "moving" /\ proc[a].at = "chosen" /\ run' = run
    BY <1>5, OnwardFacts DEF Swap
  <2>2. /\ Swaps(a) /\ proc'[a].to = proc[a].to /\ proc'[a].for = proc[a].for /\ proc'[a].of = proc[a].of
    BY <1>5, <2>1, SwapFacts DEF Swap, Swaps, Rotating, Kept, Whole
  <2>3. holds'[proc[a].to] = holds[proc[a].from]
    BY <2>2 DEF Swaps, Exchange
  <2>4. a \in Runs => Lodged(a)'
    <3>1. a \in Runs => run[a].status = "failing" /\ proc[a].from = run[a].profile
      BY <2>1 DEF RotationTypeOK, Linked, PlanInv, RunPlan
    <3> QED
      BY <1>0, <2>1, <2>2, <2>3, <3>1 DEF Lodged
  <2>5. a = "tick" => TickLodged'
    BY <1>0, <2>1, <2>2, <2>3 DEF LodgedInv, TickLodged
  <2> QED
    BY <2>1, <2>2, <2>4, <2>5, Bystanders DEF LodgedInv
<1>6. ASSUME NEW r \in Runs, Abort(r) PROVE LodgedInv'
  <2>1. run'[r].status = "aborted" /\ \A q \in Runs \ {r} : run'[q] = run[q]
    BY <1>6 DEF Abort, RunRecord
  <2>2. Changed(r) /\ holds' = holds
    BY <1>6, IdleFacts DEF Abort
  <2>3. Lodged(r)'
    BY <2>1 DEF Lodged
  <2> QED
    BY <1>a, <2>1, <2>2, <2>3 DEF LodgedInv
<1>7. ASSUME NEW r \in Runs, Resume(r) PROVE LodgedInv'
  <2>1. Changed(r) /\ proc'[r].at = "idle" /\ holds' = holds
    BY <1>7, RestFacts DEF Resume
  <2>2. Lodged(r)'
    BY <1>7, <2>1, ResumeFacts DEF Lodged
  <2> QED
    BY <1>7, <1>a, <2>1, <2>2, ResumeFacts DEF LodgedInv
<1>8. CASE TickLook \/ TickEnd \/ TickRecord
  <2>1. Changed("tick") /\ holds' = holds /\ proc'["tick"].for = Nil
    BY <1>8, TickLookFacts, IdleFacts, RestFacts DEF TickLook, TickEnd, TickRecord
  <2>2. \A q \in Runs : /\ run'[q].profile = run[q].profile /\ run'[q].uses = run[q].uses
                        /\ run'[q].status = run[q].status
    BY <1>8, TickRecordFacts DEF TickLook, TickEnd
  <2> QED
    BY <1>a, <2>1, <2>2 DEF LodgedInv, TickLodged
<1>9. ASSUME NEW r \in Runs, TickTake(r) PROVE LodgedInv'
  <2>1. Changed("tick") /\ holds' = holds /\ run' = run /\ proc'["tick"].at = "planning"
    BY <1>9, TickTakeFacts DEF TickTake, Kept
  <2>2. holds[run[r].profile] = run[r].uses
    BY <1>0, <1>9 DEF TickTake, PlanInv, TickPlan, Lodged
  <2>3. TickLodged'
    BY <1>9, <2>1, <2>2, TickTakeFacts DEF TickLodged
  <2> QED
    BY <1>a, <2>1, <2>3 DEF LodgedInv
<1>10. ASSUME NEW p \in Profiles, Observe(p) \/ Reset(p) \/ Lapse(p) PROVE LodgedInv'
  BY <1>0, <1>10 DEF Observe, Reset, Lapse, LodgedInv, Lodged, TickLodged
<1>11. CASE UserEnd
  BY <1>11 DEF UserEnd, UndisturbedInv, AloneInv
<1> QED
  BY <1>1, <1>2, <1>3, <1>4, <1>5, <1>6, <1>7, <1>8, <1>9, <1>10, <1>11, NotDisturbed
     DEF Step, Supervise, Maintain

(* Who is under way and not between the halves of a swap finds the lock    *)
(* free.                                                                   *)
LEMMA LockFree ==
  ASSUME RotationInv, Undisturbed, NEW a \in Actors, proc[a].at \notin {"idle", "moving"}
  PROVE  meta = Nil
<1> SUFFICES ASSUME meta # Nil PROVE FALSE
  OBVIOUS
<1>1. meta \in Actors /\ proc[meta].at = "moving" /\ AloneInv /\ RotationTypeOK
  BY DEF RotationInv, RotationTypeOK, Linked, UndisturbedInv
<1>2. InPlace
  BY <1>1 DEF RotationInv, PlanInv, Plan
<1> QED
  BY <1>1, <1>2, OneActor

LEMMA CoolKept ==
  ASSUME RotationInv, Undisturbed, NEW a \in Actors, Changed(a) \/ proc' = proc, meta' = meta,
         proc[a].at # "moving" \/ proc' = proc, holds' = holds,
         \A p \in Profiles : cool'[p] \in {Nil, cool[p]}
  PROVE  CoolInv'
<1>1. meta # Nil => meta \in Actors /\ proc[meta].at = "moving"
  BY DEF RotationInv, RotationTypeOK, Linked
<1>2. meta # Nil => proc'[meta] = proc[meta]
  BY <1>1 DEF Changed
<1>3. ASSUME NEW p \in Profiles PROVE Before(p)' = Before(p)
  <2>1. CASE meta = Nil
    BY <2>1 DEF Before
  <2>2. CASE meta # Nil
    BY <1>2, <2>2 DEF Before
  <2> QED
    BY <2>1, <2>2
<1> QED
  BY <1>3 DEF RotationInv, UndisturbedInv, CoolInv

LEMMA CoolStep ==
  ASSUME RotationInv, Undisturbed, Step, setup' = setup
  PROVE  CoolInv'
<1> USE Fields, Who DEF RotationInv
<1>0. /\ CoolInv
      /\ meta = Nil => \A p \in Profiles : cool[p] \in {Nil, holds[p]}
  BY DEF UndisturbedInv, CoolInv, Before
<1>1. ASSUME NEW r \in Runs, Hit(r) \/ Done(r) \/ Kill(r) PROVE CoolInv'
  BY <1>1, CoolKept DEF Hit, Done, Kill
<1>2. ASSUME NEW r \in Runs, Look(r) \/ Abort(r) PROVE CoolInv'
  <2>1. Changed(r) /\ proc[r].at # "moving"
    BY <1>2, LookFacts, IdleFacts DEF Look, Abort
  <2>2. holds' = holds /\ cool' = cool /\ meta' = meta
    BY <1>2 DEF Look, Abort
  <2> QED
    BY <2>1, <2>2, CoolKept
<1>3. ASSUME NEW a \in Actors, Choose(a) PROVE CoolInv'
  BY <1>3, ChooseFacts, CoolKept DEF Choose
<1>4. ASSUME NEW a \in Actors, Stop(a) \/ MoveFails(a) \/ BatonFails(a) PROVE CoolInv'
  <2>1. proc[a].at # "idle"
    BY <1>4 DEF Stop, Plans, MoveFails, BatonFails
  <2>2. PICK c : /\ \E free : Leave(a, free, c)
                 /\ \A p \in Profiles : c[p] \in {Nil, holds'[p]}
                 /\ meta' = Nil
    <3>1. CASE Stop(a)
      <4>1. meta = Nil /\ meta' = meta /\ holds' = holds
        BY <2>1, <3>1, LockFree DEF Stop, Plans
      <4> QED
        BY <1>0, <3>1, <4>1 DEF Stop
    <3>2. CASE MoveFails(a) /\ proc[a].at = "moving"
      <4>1. meta = a
        BY <3>2 DEF RotationTypeOK, Linked
      <4>2. meta' = Nil /\ holds' = Exchange(holds, proc[a].from, proc[a].to)
        BY <3>2 DEF MoveFails
      <4>3. \A p \in Profiles : cool[p] \in {Nil, holds'[p]}
        BY <1>0, <4>1, <4>2 DEF CoolInv, Before
      <4> QED
        BY <3>2, <4>2, <4>3 DEF MoveFails
    <3>3. CASE MoveFails(a) /\ proc[a].at = "chosen"
      <4>1. meta = Nil
        BY <3>3, LockFree
      <4>2. meta' = Nil /\ holds' = holds
        BY <3>3, <4>1 DEF MoveFails
      <4> QED
        BY <1>0, <3>3, <4>1, <4>2 DEF MoveFails
    <3>4. CASE BatonFails(a)
      <4> DEFINE c == Exchange(cool, proc[a].from, proc[a].to)
      <4>1. meta = Nil /\ meta' = Nil /\ holds' = Exchange(holds, proc[a].from, proc[a].to)
            /\ Leave(a, Claimed(a), c) /\ proc[a].at \in Rotating
        BY <3>4 DEF BatonFails, Rotating
      <4>2. proc[a].from \in Profiles /\ proc[a].to \in Profiles
        BY <4>1, SwapFacts
      <4>3. \A p \in Profiles : c[p] \in {Nil, holds'[p]}
        BY <1>0, <4>1, <4>2 DEF Exchange
      <4> QED
        BY <4>1, <4>3
    <3> QED
      BY <1>4, <3>1, <3>2, <3>3, <3>4 DEF MoveFails
  <2>3. cool' = IF a \in Runs THEN [c EXCEPT ![run[a].profile] = run[a].uses] ELSE c
    BY <2>1, <2>2, LeaveFacts
  <2>4. a \in Runs => cool'[run[a].profile] = holds'[run[a].profile]
    BY <1>4, LeaveCools
  <2>5. \A p \in Profiles : cool'[p] \in {Nil, holds'[p]}
    <3>1. \A p \in Profiles : a \notin Runs \/ p # run[a].profile => cool'[p] = c[p]
      BY <2>3
    <3> QED
      BY <2>2, <2>4, <3>1
  <2> QED
    BY <2>2, <2>5 DEF CoolInv, Before
<1>5. ASSUME NEW a \in Actors, Swap(a) PROVE CoolInv'
  <2>1. /\ meta = Nil /\ meta' = a /\ cool' = cool /\ proc[a].at \in Rotating
        /\ holds' = Exchange(holds, proc[a].from, proc[a].to)
    BY <1>5 DEF Swap, Rotating
  <2>2. proc[a].from \in Profiles /\ proc[a].to \in Profiles
    BY <2>1, SwapFacts
  <2>3. proc'[a].from = proc[a].from /\ proc'[a].to = proc[a].to
    BY <1>5, OnwardFacts DEF Swap, Kept, Whole
  <2>4. \A p \in Profiles : Exchange(holds', proc[a].from, proc[a].to)[p] = holds[p]
    BY <2>1, <2>2 DEF Exchange
  <2>5. \A p \in Profiles : Before(p)' = holds[p]
    BY <2>1, <2>3, <2>4 DEF Before
  <2> QED
    BY <1>0, <2>1, <2>5 DEF CoolInv
<1>6. ASSUME NEW a \in Actors, Move(a) PROVE CoolInv'
  <2>1. /\ meta = a /\ meta' = Nil /\ holds' = holds /\ proc[a].at \in Rotating
        /\ cool' = Exchange(cool, proc[a].from, proc[a].to)
    BY <1>6 DEF Move, RotationTypeOK, Linked, Rotating
  <2>2. proc[a].from \in Profiles /\ proc[a].to \in Profiles
    BY <2>1, SwapFacts
  <2>3. \A p \in Profiles : cool[p] \in {Nil, Exchange(holds, proc[a].from, proc[a].to)[p]}
    BY <1>0, <2>1 DEF CoolInv, Before
  <2>4. \A p \in Profiles : cool'[p] \in {Nil, holds[p]}
    BY <2>1, <2>2, <2>3 DEF Exchange
  <2> QED
    BY <2>1, <2>4 DEF CoolInv, Before
<1>7. ASSUME NEW r \in Runs, Resume(r) PROVE CoolInv'
  <2>1. meta = Nil /\ meta' = Nil /\ holds' = holds
    BY <1>7, LockFree DEF Resume
  <2>2. /\ SpentSlot(r) \in Profiles /\ holds'[SpentSlot(r)] = run[r].uses
        /\ cool' = [cool EXCEPT ![SpentSlot(r)] = run[r].uses]
    BY <1>7, ResumeCools
  <2> QED
    BY <1>0, <2>1, <2>2 DEF CoolInv, Before
<1>8. CASE TickRecord
  <2>1. meta = Nil /\ meta' = Nil /\ holds' = holds /\ proc["tick"].at = "moved"
    BY <1>8, LockFree DEF TickRecord
  <2>2. proc["tick"].for # Nil /\ InPlace /\ proc["tick"].to \in Profiles
    BY <2>1 DEF PlanInv, TickPlan, Plan, Rotating
  <2>3. cool' = [cool EXCEPT ![proc["tick"].to] = proc["tick"].of]
    BY <1>8, <2>2 DEF TickRecord, Cooldown, SpentSlot
  <2>4. holds[proc["tick"].to] = proc["tick"].of
    BY <2>1, <2>2 DEF UndisturbedInv, LodgedInv, TickLodged
  <2> QED
    BY <1>0, <2>1, <2>2, <2>3, <2>4 DEF CoolInv, Before
<1>9. CASE TickLook \/ TickEnd \/ \E r \in Runs : TickTake(r)
  <2>1. Changed("tick") /\ proc["tick"].at # "moving"
    BY <1>9, TickLookFacts, IdleFacts, TickTakeFacts DEF TickLook, TickEnd, TickTake
  <2>2. holds' = holds /\ cool' = cool /\ meta' = meta
    BY <1>9 DEF TickLook, TickEnd, TickTake
  <2> QED
    BY <2>1, <2>2, CoolKept
<1>10. ASSUME NEW p \in Profiles, Observe(p) \/ Reset(p) \/ Lapse(p) PROVE CoolInv'
  <2>1. proc' = proc /\ meta' = meta /\ holds' = holds /\ \A q \in Profiles : cool'[q] \in {Nil, cool[q]}
    BY <1>10 DEF Observe, Reset, Lapse
  <2> QED
    BY <2>1, CoolKept
<1>11. CASE UserEnd
  BY <1>11 DEF UserEnd, UndisturbedInv, AloneInv
<1> QED
  BY <1>1, <1>2, <1>3, <1>4, <1>5, <1>6, <1>7, <1>8, <1>9, <1>10, <1>11, NotDisturbed
     DEF Step, Supervise, Maintain

LEMMA SpentStep ==
  ASSUME RotationInv, Undisturbed, Step, setup' = setup
  PROVE  SpentInv'
<1> USE Fields, Who DEF RotationInv
<1>0. /\ \A r \in Runs : Spent(r) /\ Lodged(r)
      /\ \A p, q \in Profiles : holds[p] = holds[q] => p = q
      /\ ~InPlace => \A p \in Profiles : holds[p] = p
  BY DEF UndisturbedInv, SpentInv, LodgedInv, AloneInv
<1>1. ASSUME holds' = holds, NEW r \in Runs, \A q \in Runs \ {r} : run'[q] = run[q], Spent(r)'
      PROVE SpentInv'
  BY <1>0, <1>1 DEF SpentInv, Spent
<1>2. ASSUME NEW r \in Runs, Hit(r) \/ Done(r) PROVE SpentInv'
  <2>1. holds' = holds
    BY <1>2 DEF Hit, Done
  <2>2. /\ run'[r].tried = run[r].tried /\ run'[r].profile = run[r].profile /\ run'[r].uses = run[r].uses
        /\ run[r].status = "working"
        /\ \/ run'[r].status = "failing" /\ run'[r].spent = run[r].spent \cup {run[r].uses}
           \/ run'[r].status = "done"
        /\ \A q \in Runs \ {r} : run'[q] = run[q]
    BY <1>2, HitFacts
  <2>3. Spent(r)'
    BY <1>0, <2>1, <2>2 DEF Spent
  <2> QED
    BY <1>1, <2>1, <2>2, <2>3
<1>3. ASSUME NEW r \in Runs, Kill(r) PROVE SpentInv'
  <2>1. \A f \in {"status", "profile", "uses", "tried", "spent"} :
          [run[r] EXCEPT !.killed = TRUE][f] = run[r][f]
    BY DEF RunRecord
  <2>2. /\ \A f \in {"status", "profile", "uses", "tried", "spent"} : run'[r][f] = run[r][f]
        /\ \A q \in Runs \ {r} : run'[q] = run[q]
        /\ holds' = holds
    BY <1>3, <2>1 DEF Kill
  <2>3. Spent(r)'
    BY <1>0, <2>2 DEF Spent
  <2> QED
    BY <1>1, <2>2, <2>3
<1>4. ASSUME NEW r \in Runs, Abort(r) PROVE SpentInv'
  <2>1. run'[r].status = "aborted" /\ (\A q \in Runs \ {r} : run'[q] = run[q]) /\ holds' = holds
    BY <1>4 DEF Abort, RunRecord
  <2> QED
    BY <1>1, <2>1 DEF Spent
<1>5. ASSUME NEW a \in Actors, Stop(a) \/ MoveFails(a) \/ BatonFails(a) PROVE SpentInv'
  <2>1. proc' = Rest(a) /\ proc[a].at # "idle" /\ \E free, c : Leave(a, free, c)
    BY <1>5 DEF Stop, Plans, MoveFails, BatonFails, Leave
  <2>2. Changed(a)
    BY <2>1, RestFacts
  <2>3. \A q \in Runs : /\ q # LeftBy(a) => run'[q] = run[q]
                        /\ run'[q].status = IF q = a THEN "limit" ELSE run[q].status
    BY <2>1, LeaveFacts
  <2>4. a \in Runs => Spent(a)'
    BY <2>3 DEF Spent
  <2>5. \A q \in Runs \ {a} : Spent(q)'
    <3>1. CASE holds' = holds
      <4>1. ASSUME NEW q \in Runs \ {a}, q = LeftBy(a) PROVE run[q].status = "limit"
        BY <4>1 DEF LeftBy, PlanInv, TickPlan
      <4> QED
        BY <1>0, <2>3, <3>1, <4>1 DEF Spent
    <3>2. CASE Swaps(a)
      BY <2>2, <3>2, Bystanders
    <3>3. holds' = holds \/ Swaps(a)
      <4>1. CASE Stop(a)
        BY <4>1 DEF Stop
      <4>2. CASE proc[a].at \in {"moving", "moved"} /\ (MoveFails(a) \/ BatonFails(a))
        <5>1. InPlace /\ proc[a].at \in Rotating /\ holds' = Exchange(holds, proc[a].from, proc[a].to)
          BY <4>2 DEF PlanInv, Plan, Rotating, MoveFails, BatonFails
        <5> QED
          BY <5>1, SwapFacts DEF Swaps
      <4> QED
        BY <1>5, <4>1, <4>2 DEF MoveFails, BatonFails
    <3> QED
      BY <3>1, <3>2, <3>3
  <2> QED
    BY <2>4, <2>5 DEF SpentInv
<1>6. ASSUME NEW a \in Actors, Swap(a) PROVE SpentInv'
  <2>1. Changed(a) /\ run' = run /\ proc[a].at = "chosen" /\ proc[a].at \in Rotating
    BY <1>6, OnwardFacts DEF Swap, Rotating
  <2>2. Swaps(a)
    BY <1>6, <2>1, SwapFacts DEF Swap, Swaps
  <2>3. ASSUME a \in Runs PROVE Spent(a)'
    <3>1. proc[a].from = run[a].profile /\ proc[a].to \notin run[a].tried
      BY <2>1, <2>3 DEF PlanInv, RunPlan
    <3>2. run[a].tried \in SUBSET Profiles
      BY <2>3 DEF RunRecord
    <3>3. \A p \in run[a].tried \ {run[a].profile} : holds'[p] = holds[p]
      BY <2>2, <3>1, <3>2 DEF Swaps, Exchange
    <3> QED
      BY <1>0, <2>1, <2>3, <3>3 DEF Spent
  <2> QED
    BY <2>1, <2>2, <2>3, Bystanders DEF SpentInv
<1>7. ASSUME NEW r \in Runs, Resume(r) PROVE SpentInv'
  <2> DEFINE p == IF InPlace THEN run[r].profile ELSE proc[r].to
  <2>1. /\ run'[r].profile = p /\ run'[r].tried = Tried(r) /\ run'[r].spent = run[r].spent
        /\ \A q \in Runs \ {r} : run'[q] = run[q]
        /\ proc[r].to \in Profiles /\ proc[r].at \in Rotating /\ run[r].status = "failing"
        /\ proc[r].for = r /\ proc[r].from = run[r].profile
    BY <1>7, ResumeFacts
  <2>2. proc[r].to \notin run[r].tried /\ proc[r].to # proc[r].from
    BY <2>1 DEF PlanInv, RunPlan, Plan
  <2>3. holds' = holds /\ IF InPlace THEN proc[r].at = "moved" ELSE proc[r].at = "chosen"
    BY <1>7 DEF Resume
  <2>4. holds[IF proc[r].at \in {"moving", "moved"} THEN proc[r].to ELSE run[r].profile] = run[r].uses
    BY <1>0, <2>1 DEF Lodged
  <2>5. /\ run[r].tried \subseteq Tried(r) /\ run[r].profile \in Tried(r)
        /\ InPlace => proc[r].to \in Tried(r)
    BY <2>1 DEF Tried
  <2>6. ASSUME NEW s \in run[r].spent PROVE \E o \in Tried(r) \ {p} : holds[o] = s
    <3>1. CASE s = run[r].uses
      BY <2>1, <2>2, <2>3, <2>4, <2>5, <3>1
    <3>2. CASE s # run[r].uses
      <4>1. PICK o \in run[r].tried \ {run[r].profile} : holds[o] = s
        BY <1>0, <2>1, <3>2 DEF Spent
      <4> QED
        BY <2>2, <2>5, <4>1
    <3> QED
      BY <3>1, <3>2
  <2>7. Spent(r)'
    BY <2>1, <2>3, <2>6 DEF Spent
  <2> QED
    BY <1>1, <2>1, <2>3, <2>7
<1>8. CASE TickRecord
  <2>1. /\ proc["tick"].for \in Runs /\ run'[proc["tick"].for].status = "limit"
        /\ \A q \in Runs \ {proc["tick"].for} : run'[q] = run[q]
    BY <1>8, TickRecordFacts
  <2>2. holds' = holds
    BY <1>8 DEF TickRecord
  <2> QED
    BY <1>1, <2>1, <2>2 DEF Spent
<1>9. ASSUME run' = run, holds' = holds PROVE SpentInv'
  BY <1>0, <1>9 DEF SpentInv, Spent
<1>10. ASSUME NEW a \in Actors, Choose(a) \/ Move(a) PROVE SpentInv'
  BY <1>9, <1>10 DEF Choose, Move
<1>11. ASSUME NEW r \in Runs, Look(r) \/ TickTake(r) PROVE SpentInv'
  BY <1>9, <1>11 DEF Look, TickTake
<1>12. CASE TickLook \/ TickEnd \/ UserEnd
  BY <1>9, <1>12 DEF TickLook, TickEnd, UserEnd
<1>13. ASSUME NEW p \in Profiles, Observe(p) \/ Reset(p) \/ Lapse(p) PROVE SpentInv'
  BY <1>9, <1>13 DEF Observe, Reset, Lapse
<1> QED
  BY <1>2, <1>3, <1>4, <1>5, <1>6, <1>7, <1>8, <1>10, <1>11, <1>12, <1>13, NotDisturbed
     DEF Step, Supervise, Maintain

-----------------------------------------------------------------------------
LEMMA InitInv == RotationInit => RotationInv
<1> SUFFICES ASSUME RotationInit PROVE RotationInv
  OBVIOUS
<1> USE Who DEF RotationInit
<1>1. /\ setup \in Setups /\ setup.at \in [Runs -> Profiles] /\ setup.bound \in [Counted -> Nat]
      /\ setup.working \in SUBSET Runs
  BY RotationAssumption
<1> DEFINE first(r) == [status |-> IF r \in setup.working THEN "working" ELSE "done",
                        profile |-> setup.at[r], tried |-> {}, attempt |-> 1,
                        uses |-> setup.at[r], spent |-> {}, killed |-> FALSE]
<1>2. ASSUME NEW r \in Runs PROVE first(r) \in RunRecord
  <2>1. setup.at[r] \in Profiles
    BY <1>1
  <2> QED
    BY <2>1, CardType DEF RunRecord, Logins
<1>3. run = [r \in Runs |-> first(r)]
  BY DEF RotationInit
<1>4. \A r \in Runs : /\ run[r].status = IF r \in setup.working THEN "working" ELSE "done"
                      /\ run[r].profile = setup.at[r] /\ run[r].uses = setup.at[r] /\ run[r].spent = {}
                      /\ setup.at[r] \in Profiles
  BY <1>1, <1>3
<1>5. run \in [Runs -> RunRecord]
  BY <1>2, <1>3
<1>6. /\ \A a \in Actors : proc[a] = Idle
      /\ meta = Nil /\ holds = [p \in Profiles |-> p] /\ claims = {}
  BY DEF RotationInit
<1>7. /\ Idle.at = "idle" /\ Idle.for = Nil /\ Idle.runs = {}
  BY DEF Idle
<1>8. RotationTypeOK
  <2>1. Linked
    BY <1>6, <1>7 DEF Linked
  <2>2. proc \in [Actors -> Rotation]
    BY IdleType DEF RotationInit
  <2>3. count \in [Counted -> Nat] /\ \A what \in Counted : count[what] <= setup.bound[what]
    BY <1>1
  <2> QED
    BY <1>1, <1>5, <2>1, <2>2, <2>3 DEF RotationTypeOK, Logins
<1>9. PlanInv
  BY <1>6, <1>7 DEF PlanInv, RunPlan, TickPlan, UserPlan, Plan, Rotating
<1>10. ClaimInv
  BY <1>6, <1>7 DEF ClaimInv, OneTaker, Taken
<1>11. AloneInv
  BY <1>4, <1>6, <1>7 DEF AloneInv
<1>12. LodgedInv
  BY <1>4, <1>6, <1>7 DEF LodgedInv, TickLodged, Lodged
<1>13. CoolInv
  BY <1>6 DEF CoolInv, Before
<1>14. SpentInv
  BY <1>4 DEF SpentInv, Spent
<1> QED
  BY <1>8, <1>9, <1>10, <1>11, <1>12, <1>13, <1>14 DEF RotationInv, UndisturbedInv

LEMMA UndisturbedStep ==
  ASSUME RotationInv, [RotationNext]_rotationVars
  PROVE  UndisturbedInv'
<1>1. CASE UNCHANGED rotationVars
  <2>1. UndisturbedInv
    BY DEF RotationInv
  <2>2. UndisturbedInv' <=> UndisturbedInv
    BY <1>1 DEF rotationVars, UndisturbedInv, Undisturbed, InPlace, AloneInv, LodgedInv, TickLodged, Lodged,
                CoolInv, Before, Exchange, SpentInv, Spent
  <2> QED
    BY <2>1, <2>2
<1>2. CASE Step /\ setup' = setup
  <2>1. Undisturbed' <=> Undisturbed
    BY <1>2 DEF Undisturbed, InPlace
  <2> QED
    BY <1>2, <2>1, AloneStep, LodgedStep, CoolStep, SpentStep DEF UndisturbedInv
<1> QED
  BY <1>1, <1>2 DEF RotationNext

LEMMA InvSpec == RotationSpec => []RotationInv
<1>1. RotationInv /\ [RotationNext]_rotationVars => RotationInv'
  BY TypeStep, PlanStep, ClaimStep, UndisturbedStep DEF RotationInv
<1> QED
  BY InitInv, <1>1, PTL DEF RotationSpec

(* The supervisor that is through with an account, in the step in which it *)
(* is.                                                                     *)
LEMMA ThroughStep ==
  ASSUME RotationInv, Undisturbed, Step, setup' = setup, NEW r \in Runs,
         run[r].status = "failing", run'[r].status \in {"limit", "working"}
  PROVE  \E p \in Profiles : holds'[p] = run[r].uses /\ cool'[p] = run[r].uses
<1> USE Fields, Who DEF RotationInv
<1>1. ASSUME NEW a \in Actors, Stop(a) \/ MoveFails(a) \/ BatonFails(a)
      PROVE  \E p \in Profiles : holds'[p] = run[r].uses /\ cool'[p] = run[r].uses
  <2>1. proc[a].at # "idle" /\ \E free, c : Leave(a, free, c)
    BY <1>1 DEF Stop, Plans, MoveFails, BatonFails
  <2>2. run'[r].status = IF r = a THEN "limit" ELSE run[r].status
    BY <2>1, LeaveFacts
  <2>3. a = r
    BY <2>2
  <2> QED
    BY <1>1, <2>3, LeaveCools
<1>2. ASSUME NEW q \in Runs, Resume(q)
      PROVE  \E p \in Profiles : holds'[p] = run[r].uses /\ cool'[p] = run[r].uses
  <2>1. q = r
    BY <1>2, ResumeFacts
  <2>2. /\ SpentSlot(r) \in Profiles
        /\ holds'[SpentSlot(r)] = run[r].uses /\ cool' = [cool EXCEPT ![SpentSlot(r)] = run[r].uses]
    BY <1>2, <2>1, ResumeCools
  <2>3. cool'[SpentSlot(r)] = run[r].uses
    BY <2>2
  <2> QED
    BY <2>2, <2>3
<1>3. ASSUME run' = run PROVE FALSE
  BY <1>3
<1>4. ASSUME NEW q \in Runs, Hit(q) \/ Done(q) PROVE FALSE
  BY <1>4, HitFacts
<1>5. ASSUME NEW q \in Runs, Kill(q) \/ Abort(q) PROVE FALSE
  <2>1. /\ [run[q] EXCEPT !.killed = TRUE].status = run[q].status
        /\ [run[q] EXCEPT !.status = "aborted"].status = "aborted"
    BY DEF RunRecord
  <2> QED
    BY <1>5, <2>1 DEF Kill, Abort
<1>6. CASE TickRecord
  BY <1>6, TickRecordFacts
<1>7. ASSUME NEW a \in Actors, Choose(a) \/ Swap(a) \/ Move(a) PROVE FALSE
  BY <1>3, <1>7 DEF Choose, Swap, Move
<1>8. ASSUME NEW q \in Runs, Look(q) \/ TickTake(q) PROVE FALSE
  BY <1>3, <1>8 DEF Look, TickTake
<1>9. CASE TickLook \/ TickEnd \/ UserLook \/ UserEnd
  BY <1>3, <1>9 DEF TickLook, TickEnd, UserLook, UserEnd
<1>10. ASSUME NEW p \in Profiles, ArmedSwap(p) \/ Observe(p) \/ Reset(p) \/ Lapse(p) PROVE FALSE
  BY <1>3, <1>10 DEF ArmedSwap, Observe, Reset, Lapse
<1> QED
  BY <1>1, <1>2, <1>4, <1>5, <1>6, <1>7, <1>8, <1>9, <1>10 DEF Step, Supervise, Maintain

-----------------------------------------------------------------------------
(* The variables keep their types: whoever is between the halves of a swap *)
(* has account-metadata.lock and nobody else does, no run outlives its     *)
(* tries, and a supervisor works for its own run.                          *)
THEOREM RotationTypeCorrect == RotationSpec => []RotationTypeOK
BY InvSpec, PTL DEF RotationInv

(* Whatever the supervisors, the tick, the command and the sweep do, and   *)
(* in whatever order they fail: as long as no claim lapses under the       *)
(* rotation it was made for, two rotations never take the same profile     *)
(* (RotationClaimStore).                                                   *)
THEOREM OneTakerAtATime == Patient => (RotationSpec => []OneTaker)
<1> SUFFICES ASSUME Patient PROVE RotationSpec => []OneTaker
  OBVIOUS
<1>1. RotationInv => OneTaker
  BY DEF RotationInv, ClaimInv
<1> QED
  BY InvSpec, <1>1, PTL

(* A profile cools because of the account it is logged in to, between any  *)
(* two credential transactions (swap_cooldowns).                           *)
THEOREM CoolingFollows == RotationSpec => []CoolFollows
<1>1. RotationInv => CoolFollows
  BY DEF RotationInv, UndisturbedInv, CoolInv, Before, CoolFollows
<1> QED
  BY InvSpec, <1>1, PTL

(* No try of a run is of an account whose limit an earlier try has hit     *)
(* (RunRecord::tried).                                                     *)
THEOREM TriesAreFresh == RotationSpec => []Fresh
<1>1. ASSUME RotationInv, Undisturbed, NEW r \in Runs, run[r].status = "working", run[r].uses \in run[r].spent
      PROVE  FALSE
  <2>1. proc[r].at = "idle" /\ run[r].profile \in Profiles /\ run[r].tried \subseteq Profiles
    BY <1>1, Fields, Who DEF RotationInv, RotationTypeOK, Linked, RunRecord
  <2>2. holds[run[r].profile] = run[r].uses
    BY <1>1, <2>1 DEF RotationInv, UndisturbedInv, LodgedInv, Lodged
  <2>3. \E p \in run[r].tried \ {run[r].profile} : holds[p] = run[r].uses
    BY <1>1 DEF RotationInv, UndisturbedInv, SpentInv, Spent
  <2> QED
    BY <1>1, <2>1, <2>2, <2>3 DEF RotationInv, UndisturbedInv, AloneInv
<1>2. RotationInv => Fresh
  BY <1>1 DEF Fresh
<1> QED
  BY InvSpec, <1>2, PTL

(* A supervisor that is through with a spent account leaves it with a      *)
(* profile that cools for it, whichever way the rotation ended: the step   *)
(* in which credentials were swapped back included                         *)
(* (ContinuationOutcome::cooldown_profile).                                *)
THEOREM SpentAlwaysCools == RotationSpec => SpentIsCooled
<1>1. RotationInv /\ [RotationNext]_rotationVars =>
        [\A r \in Runs :
           Undisturbed /\ run[r].status = "failing" /\ run'[r].status \in {"limit", "working"} =>
             \E p \in Profiles : holds'[p] = run[r].uses /\ cool'[p] = run[r].uses]_rotationVars
  BY ThroughStep DEF RotationNext
<1> QED
  BY InvSpec, <1>1, PTL DEF RotationSpec, SpentIsCooled
=============================================================================
