------------------------- MODULE WorkerDispatch_proofs -------------------------
(***************************************************************************)
(* Proofs about WorkerDispatch: the processes of a plan, in whatever order *)
(* they dispatch, poll, cancel, recover and die, use the ledger only       *)
(* through its transactions, for every number of processes, parts and      *)
(* attempts, every cap and TTL, and also when a plan changes hands while   *)
(* its driver lives. When it does not, no lease is leaked, and a worker    *)
(* has its lease until it has ended.                                       *)
(***************************************************************************)
EXTENDS WorkerDispatch, SequenceTheorems, TLAPS

TimeOK == clock \in Nat

(* The three transactions of the composition are steps of the ledger.      *)
LEMMA ReserveStep ==
  ASSUME TimeOK, NEW p \in Procs, NEW r \in Parts, EnsureReserved(p, r)
  PROVE  Ledger!Next
<1>1. clock \in 0..clock
  BY DEF TimeOK
<1>2. Ledger!EnsureReserved(p, r, Plan, Engine, clock)
  BY DEF EnsureReserved
<1>3. Plan \in {Plan} /\ Engine \in {Engine} \cup {None}
  OBVIOUS
<1> QED
  BY <1>1, <1>2, <1>3 DEF Ledger!Next

LEMMA BindStep ==
  ASSUME TimeOK, NEW r \in Parts, Ledger!Bind(r, Engine, Account, r, clock)
  PROVE  Ledger!Next
<1>1. clock \in 0..clock
  BY DEF TimeOK
<1>2. Engine \in {Engine} /\ Account \in {Account}
  OBVIOUS
<1> QED
  BY <1>1, <1>2 DEF Ledger!Next

LEMMA ReleaseStep ==
  ASSUME TimeOK, NEW r \in Parts, Release(r)
  PROVE  Ledger!Next
<1>1. clock \in 0..clock
  BY DEF TimeOK
<1>2. Ledger!Release(r, clock)
  BY DEF Release
<1> QED
  BY <1>1, <1>2 DEF Ledger!Next

-----------------------------------------------------------------------------
(* A step of the composition is a step of the ledger or none of its        *)
(* business.                                                               *)
LEMMA StepImplements == TimeOK /\ [Next]_vars => [Ledger!Next]_ledgerVars
<1> SUFFICES ASSUME TimeOK, [Next]_vars PROVE Ledger!Next \/ UNCHANGED ledgerVars
  OBVIOUS
<1>1. CASE UNCHANGED vars
  BY <1>1 DEF vars, ledgerVars
<1>2. ASSUME NEW p \in Procs, NEW r \in Parts, Dispatching(p, r)
      PROVE Ledger!Next \/ UNCHANGED ledgerVars
  <2>1. CASE Admit(p, r)
    BY <2>1, ReserveStep DEF Admit
  <2>2. CASE Ensure(p, r)
    BY <2>2, ReserveStep DEF Ensure
  <2>3. CASE Bind(p, r)
    BY <2>3, BindStep DEF Bind
  <2>4. CASE GiveUp(p, r)
    BY <2>4, ReleaseStep DEF GiveUp
  <2>5. CASE Spawn(p, r)
    BY <2>5 DEF Spawn
  <2>6. CASE SpawnRefused(p, r)
    BY <2>6, ReleaseStep DEF SpawnRefused
  <2> QED
    BY <1>2, <2>1, <2>2, <2>3, <2>4, <2>5, <2>6 DEF Dispatching
<1>3. ASSUME NEW p \in Procs, NEW r \in Parts, Following(p, r)
      PROVE Ledger!Next \/ UNCHANGED ledgerVars
  <2>1. CASE Poll(p, r)
    BY <2>1, ReleaseStep DEF Poll
  <2>2. CASE PollRecovered(p, r)
    BY <2>2, ReleaseStep DEF PollRecovered
  <2>3. CASE CancelManaged(p, r)
    BY <2>3 DEF CancelManaged
  <2>4. CASE CancelRecovered(p, r)
    BY <2>4, ReleaseStep DEF CancelRecovered
  <2> QED
    BY <1>3, <2>1, <2>2, <2>3, <2>4 DEF Following
<1>4. ASSUME NEW p \in Procs, NEW r \in Parts, Recovering(p, r)
      PROVE Ledger!Next \/ UNCHANGED ledgerVars
  <2>1. CASE Adopt(p, r)
    BY <2>1, ReserveStep DEF Adopt
  <2>2. CASE Settle(p, r)
    BY <2>2, ReleaseStep DEF Settle
  <2> QED
    BY <1>4, <2>1, <2>2 DEF Recovering
<1>5. ASSUME NEW r \in Parts, NEW n \in DOMAIN att[r], Working(r, n)
      PROVE Ledger!Next \/ UNCHANGED ledgerVars
  <2>1. CASE WorkerEnds(r, n)
    BY <2>1 DEF WorkerEnds
  <2>2. CASE ThreadCloses(r, n)
    BY <2>2, ReleaseStep DEF ThreadCloses
  <2>3. CASE OrphanEnds(r, n)
    BY <2>3 DEF OrphanEnds
  <2> QED
    BY <1>5, <2>1, <2>2, <2>3 DEF Working
<1>6. ASSUME NEW p \in Procs, SeesInterrupt(p) \/ Leave(p) \/ TakeOver(p) \/ Rehydrated(p)
      PROVE UNCHANGED ledgerVars
  BY <1>6 DEF SeesInterrupt, Leave, TakeOver, Rehydrated
<1>7. ASSUME NEW p \in Procs, Exit(p) PROVE Ledger!Next
  BY <1>7 DEF Exit, Ledger!Next
<1>8. CASE Tick
  BY <1>8 DEF Tick, Ledger!Next
<1> QED
  BY <1>1, <1>2, <1>3, <1>4, <1>5, <1>6, <1>7, <1>8 DEF Next

(* Time only advances.                                                     *)
LEMMA TimeStep == TimeOK /\ [Next]_vars => TimeOK'
<1> SUFFICES ASSUME TimeOK, [Next]_vars PROVE TimeOK'
  OBVIOUS
<1>1. Ledger!Next \/ UNCHANGED ledgerVars
  BY StepImplements
<1>2. CASE UNCHANGED ledgerVars
  BY <1>2 DEF TimeOK, ledgerVars
<1>3. CASE Ledger!Next
  BY <1>3 DEF TimeOK, Ledger!Next, Ledger!Reserve, Ledger!EnsureReserved, Ledger!Bind,
     Ledger!Release, Ledger!Snapshot, Ledger!Exit, Ledger!Launch, Ledger!Tick
<1> QED
  BY <1>1, <1>2, <1>3

(* The composition implements the ledger: the caps and the transactions    *)
(* shown of DispatchLedger alone are those of a fleet of supervisors with  *)
(* worker threads, late releases, takeovers and crashes.                   *)
THEOREM LedgerRefinement == Spec => ImplementsLedger
<1>1. Init => TimeOK /\ Ledger!Init
  BY DEF Init, Ledger!Init, TimeOK
<1>2. TimeOK /\ [Next]_vars => TimeOK' /\ [Ledger!Next]_ledgerVars
  BY TimeStep, StepImplements
<1>3. [Ledger!Next]_ledgerVars => [Ledger!Next]_(Ledger!vars)
  BY DEF ledgerVars, Ledger!vars
<1> QED
  BY <1>1, <1>2, <1>3, PTL DEF Spec, ImplementsLedger, Ledger!Spec

-----------------------------------------------------------------------------
Has(r, p) == leases[r] # None /\ leases[r].owner = p

Leases == [Parts -> Ledger!Lease \cup {None}]

LedgerOK == leases \in Leases /\ live \in SUBSET Procs /\ clock \in Nat

(* What a transaction about r does to the others: a lease may go, but not  *)
(* that of a live process while nothing is older than the TTL.             *)
Elsewhere(r) ==
  /\ live' = live /\ clock' = clock /\ leases' \in Leases
  /\ \A i \in Parts \ {r} : \A p \in Procs :
       /\ Has(i, p)' => Has(i, p)
       /\ clock <= Ttl /\ p \in live /\ Has(i, p) => Has(i, p)'

LEMMA ReapEffect ==
  ASSUME LedgerOK, NEW L, L = Ledger!Reap(leases, clock)
  PROVE  /\ L \in Leases
         /\ \A i \in Parts : L[i] # None => L[i] = leases[i] /\ L[i].owner \in live
         /\ \A i \in Parts : \A p \in live :
              clock <= Ttl /\ Has(i, p) => L[i] = leases[i]
<1>1. \A i \in Parts : leases[i] # None =>
        leases[i] \in Ledger!Lease /\ leases[i].created \in Nat
  BY DEF LedgerOK, Leases, Ledger!Lease
<1>2. \A i \in Parts : L[i] = IF leases[i] # None /\ clock - leases[i].created <= Ttl
                                  /\ leases[i].owner \in live THEN leases[i] ELSE None
  BY DEF Ledger!Reap
<1>3. L \in Leases
  BY DEF Ledger!Reap, Leases, LedgerOK
<1>4. ASSUME NEW i \in Parts, NEW p \in live, clock <= Ttl, Has(i, p) PROVE L[i] = leases[i]
  <2>1. clock - leases[i].created <= Ttl
    BY <1>1, <1>4, DispatchAssumption DEF Has, LedgerOK
  <2> QED
    BY <1>2, <1>4, <2>1 DEF Has
<1> QED
  BY <1>2, <1>3, <1>4

LEMMA ReleaseEffect ==
  ASSUME LedgerOK, NEW r \in Parts, Release(r)
  PROVE  Elsewhere(r) /\ leases'[r] = None
<1> DEFINE L == Ledger!Reap(leases, clock)
<1>1. leases' = [L EXCEPT ![r] = None] /\ live' = live /\ clock' = clock
  BY DEF Release, Ledger!Release, Ledger!ReleaseTx, Ledger!Without
<1>2. L \in Leases /\ \A i \in Parts : L[i] # None => L[i] = leases[i]
  BY ReapEffect
<1>3. \A i \in Parts : \A p \in live : clock <= Ttl /\ Has(i, p) => L[i] = leases[i]
  BY ReapEffect
<1> HIDE DEF L
<1>4. leases' \in Leases /\ leases'[r] = None /\ \A i \in Parts \ {r} : leases'[i] = L[i]
  BY <1>1, <1>2 DEF Leases
<1> QED
  BY <1>1, <1>2, <1>3, <1>4 DEF Elsewhere, Has

LEMMA EnsureEffect ==
  ASSUME LedgerOK, NEW p \in Procs, NEW r \in Parts, EnsureReserved(p, r)
  PROVE  /\ Elsewhere(r) /\ p \in live
         /\ Has(r, p)' \/ \E q \in live : Has(r, q) /\ Has(r, q)'
         /\ \A q \in Procs : Has(r, q)' => q = p \/ (q \in live /\ Has(r, q))
<1> DEFINE L == Ledger!Reap(leases, clock)
           x == Ledger!NewLease(p, Plan, Engine)
<1>1. /\ p \in live /\ live' = live /\ clock' = clock
      /\ \/ leases' = [L EXCEPT ![r] = x]
         \/ L[r] # None /\ leases' = L
  BY DEF EnsureReserved, Ledger!EnsureReserved, Ledger!EnsureReservedTx, Ledger!ReserveTx,
     Ledger!ConfirmTx
<1>2. /\ L \in Leases
      /\ \A i \in Parts : L[i] # None => L[i] = leases[i] /\ L[i].owner \in live
  BY ReapEffect
<1>3. \A i \in Parts : \A q \in live : clock <= Ttl /\ Has(i, q) => L[i] = leases[i]
  BY ReapEffect
<1>4. x \in Ledger!Lease /\ x.owner = p
  BY DEF Ledger!NewLease, Ledger!Lease, LedgerOK
<1>5. x # None
  BY <1>4, DispatchAssumption
<1> HIDE DEF L, x
<1>6. CASE leases' = [L EXCEPT ![r] = x]
  <2>1. leases' \in Leases /\ leases'[r] = x /\ \A i \in Parts \ {r} : leases'[i] = L[i]
    BY <1>2, <1>4, <1>6 DEF Leases
  <2> QED
    BY <1>1, <1>2, <1>3, <1>4, <1>5, <2>1 DEF Elsewhere, Has
<1>7. CASE L[r] # None /\ leases' = L
  BY <1>1, <1>2, <1>3, <1>7 DEF Elsewhere, Has
<1> QED
  BY <1>1, <1>6, <1>7

LEMMA BindEffect ==
  ASSUME LedgerOK, NEW r \in Parts, Ledger!Bind(r, Engine, Account, r, clock)
  PROVE  Elsewhere(r) /\ \E q \in live : Has(r, q) /\ Has(r, q)'
<1> DEFINE L == Ledger!Reap(leases, clock)
<1>1. /\ L[r] # None /\ live' = live /\ clock' = clock
      /\ \/ leases' = L
         \/ leases' = [L EXCEPT ![r].engine = Engine, ![r].account = Account, ![r].session = r]
  BY DEF Ledger!Bind, Ledger!BindTx
<1>2. /\ L \in Leases
      /\ \A i \in Parts : L[i] # None => L[i] = leases[i] /\ L[i].owner \in live
  BY ReapEffect
<1>3. \A i \in Parts : \A q \in live : clock <= Ttl /\ Has(i, q) => L[i] = leases[i]
  BY ReapEffect
<1> HIDE DEF L
<1>4. CASE leases' = L
  BY <1>1, <1>2, <1>3, <1>4 DEF Elsewhere, Has
<1>5. CASE leases' = [L EXCEPT ![r].engine = Engine, ![r].account = Account, ![r].session = r]
  <2>1. L[r] \in Ledger!Lease
    BY <1>1, <1>2 DEF Leases
  <2>2. PICK x : x = [L[r] EXCEPT !.engine = Engine, !.account = Account, !.session = r]
    OBVIOUS
  <2>3. x \in Ledger!Lease /\ x.owner = L[r].owner /\ x # None
    BY <2>1, <2>2, DispatchAssumption DEF Ledger!Lease
  <2>4. leases' = [L EXCEPT ![r] = x]
    BY <1>2, <1>5, <2>2 DEF Leases
  <2>5. leases' \in Leases /\ leases'[r] = x /\ \A i \in Parts \ {r} : leases'[i] = L[i]
    BY <1>2, <2>3, <2>4 DEF Leases
  <2> QED
    BY <1>1, <1>2, <1>3, <2>3, <2>5 DEF Elsewhere, Has
<1> QED
  BY <1>1, <1>4, <1>5

-----------------------------------------------------------------------------
TypeInv ==
  /\ LedgerOK
  /\ mode \in [Procs -> {"out", "rehydrating", "driving", "overtaken", "stopping", "left"}]
  /\ step \in [Procs -> [Parts -> {"idle", "admitted", "ensured", "bound"}]]
  /\ act \in [Procs -> [Parts -> {"none", "managed", "recovered"}]]
  /\ job \in [Procs -> [Parts -> Nat]]
  /\ att \in [Parts -> Seq(Attempt)]
  /\ part \in [Parts -> {"pending", "running", "done", "failed"}]
  /\ \A r \in Parts : Len(att[r]) <= MaxAttempts /\ \A p \in Procs : job[p][r] <= Len(att[r])

(* A process that lives and has to do with the plan: there is only one, as *)
(* long as the plan changes hands only when its driver is dead.            *)
Crew(p) == p \in live /\ mode[p] # "out"

AloneInv == \A p, q \in Procs : Crew(p) /\ Crew(q) => p = q

(* What is active runs in the record and is not being dispatched; the      *)
(* managed run is the last, the recovered one has lost its supervisor.     *)
ActInv ==
  \A p \in Procs, r \in Parts : act[p][r] # "none" =>
    /\ Crew(p) /\ mode[p] # "overtaken"
    /\ part[r] = "running" /\ step[p][r] = "idle" /\ att[r] # <<>>
    /\ act[p][r] = "managed" => job[p][r] = Len(att[r]) /\ Last(r).host = p
    /\ act[p][r] = "recovered" => Last(r).host \notin live

(* What is being dispatched is pending, and has an attempt left.           *)
StepInv ==
  \A p \in Procs, r \in Parts : step[p][r] # "idle" =>
    /\ p \in live /\ mode[p] \in {"driving", "left"} /\ part[r] = "pending"
    /\ Len(att[r]) < MaxAttempts

(* Who recovers the plan has started none of its workers.                  *)
HostInv ==
  \A r \in Parts : \A n \in DOMAIN att[r] : mode[att[r][n].host] \notin {"out", "rehydrating"}

(* Only the last attempt has a thread that goes on, in a live process that *)
(* follows it, has cancelled it or could not hand it to the plan record.   *)
ThreadInv ==
  \A r \in Parts : \A n \in DOMAIN att[r] : att[r][n].thread \in {"working", "closing"} =>
    /\ n = Len(att[r]) /\ att[r][n].host \in live
    /\ \/ /\ part[r] = "running"
          /\ act[att[r][n].host][r] = "managed" \/ mode[att[r][n].host] \in {"stopping", "left"}
       \/ part[r] = "failed" /\ (att[r][n].thread = "working" => att[r][n].status = "withdrawn")

CrewInv == AloneInv /\ ActInv /\ StepInv /\ HostInv /\ ThreadInv

IInv == TypeInv /\ CrewInv

LEMMA Attempts ==
  ASSUME TypeInv, NEW r \in Parts
  PROVE  /\ Len(att[r]) \in Nat /\ DOMAIN att[r] = 1..Len(att[r])
         /\ \A n \in DOMAIN att[r] : att[r][n] \in Attempt /\ att[r][n].host \in Procs
         /\ att[r] # <<>> => Len(att[r]) \in DOMAIN att[r]
         /\ att[r] \in Seq(Attempt)
<1>1. att[r] \in Seq(Attempt)
  BY DEF TypeInv
<1>2. /\ Len(att[r]) \in Nat /\ DOMAIN att[r] = 1..Len(att[r])
      /\ \A n \in DOMAIN att[r] : att[r][n] \in Attempt
  BY <1>1, LenProperties
<1>3. att[r] # <<>> => Len(att[r]) \in DOMAIN att[r]
  BY <1>1, <1>2, EmptySeq
<1> QED
  BY <1>1, <1>2, <1>3 DEF Attempt

LEMMA CrewInit == Init => IInv
<1> SUFFICES ASSUME Init PROVE IInv
  OBVIOUS
<1>1. LedgerOK
  BY DEF Init, Ledger!Init, LedgerOK, Leases
<1>2. PICK d \in Procs : mode = [q \in Procs |-> IF q = d THEN "driving" ELSE "out"]
  BY DEF Init
<1>3. /\ att \in [Parts -> Seq(Attempt)]
      /\ \A r \in Parts : Len(att[r]) = 0 /\ DOMAIN att[r] = {}
  BY EmptySeq DEF Init
<1>4. TypeInv
  BY <1>1, <1>2, <1>3, DispatchAssumption DEF Init, TypeInv
<1>5. CrewInv
  BY <1>2, <1>3 DEF Init, CrewInv, AloneInv, Crew, ActInv, StepInv, HostInv, ThreadInv
<1> QED
  BY <1>4, <1>5 DEF IInv

(* One process dispatches, follows or recovers, and the others do not.     *)
LEMMA OneCrew ==
  ASSUME IInv, NEW p \in Procs, Crew(p)
  PROVE  /\ \A q \in Procs : q # p => ~Crew(q)
         /\ \A q \in Procs, r \in Parts : q # p => step[q][r] = "idle" /\ act[q][r] = "none"
         /\ \A r \in Parts : \A n \in DOMAIN att[r] :
              att[r][n].thread \in {"working", "closing"} => att[r][n].host = p
<1>1. \A q \in Procs : q # p => ~Crew(q)
  BY DEF IInv, CrewInv, AloneInv
<1>2. \A q \in Procs, r \in Parts : q # p => step[q][r] = "idle" /\ act[q][r] = "none"
  BY <1>1 DEF IInv, CrewInv, StepInv, ActInv, Crew
<1>3. \A r \in Parts : \A n \in DOMAIN att[r] :
        att[r][n].thread \in {"working", "closing"} => Crew(att[r][n].host)
  BY DEF IInv, CrewInv, ThreadInv, HostInv, Crew
<1>4. \A r \in Parts : \A n \in DOMAIN att[r] : att[r][n].host \in Procs
  BY Attempts DEF IInv
<1> QED
  BY <1>1, <1>2, <1>3, <1>4

LEMMA LedgerKept ==
  ASSUME IInv, NEW r \in Parts, Elsewhere(r)
  PROVE  LedgerOK' /\ \A p \in Procs : Crew(p)' <=> p \in live /\ mode'[p] # "out"
BY DEF Elsewhere, IInv, TypeInv, LedgerOK, Leases, Crew

(* Admission and binding: only the step of the dispatch changes.           *)
LEMMA StepCrew ==
  ASSUME IInv, NEW p \in Procs, NEW r \in Parts, Admit(p, r) \/ Ensure(p, r) \/ Bind(p, r)
  PROVE  IInv'
<1>1. Elsewhere(r) /\ p \in live
  BY EnsureEffect, BindEffect DEF Admit, Ensure, Bind, IInv, TypeInv
<1>2. /\ mode[p] \in {"driving", "left"} /\ part[r] = "pending" /\ Len(att[r]) < MaxAttempts
      /\ UNCHANGED <<mode, act, job, att, part>>
  BY DEF Admit, Ensure, Bind, IInv, CrewInv, StepInv
<1>3. PICK to \in {"admitted", "ensured", "bound"} : step' = [step EXCEPT ![p][r] = to]
  BY DEF Admit, Ensure, Bind
<1>4. /\ live' = live
      /\ \A q \in Procs, i \in Parts : step'[q][i] = IF q = p /\ i = r THEN to ELSE step[q][i]
  BY <1>1, <1>3 DEF Elsewhere, IInv, TypeInv
<1>5. TypeInv'
  BY <1>1, <1>2, <1>3, LedgerKept DEF IInv, TypeInv
<1>6. CrewInv'
  BY <1>1, <1>2, <1>4
  DEF IInv, CrewInv, AloneInv, ActInv, StepInv, HostInv, ThreadInv, Crew, Last
<1> QED
  BY <1>5, <1>6 DEF IInv

LEMMA GiveUpCrew ==
  ASSUME IInv, NEW p \in Procs, NEW r \in Parts, GiveUp(p, r)
  PROVE  IInv'
<1>1. Elsewhere(r)
  BY ReleaseEffect DEF GiveUp, IInv, TypeInv
<1>2. /\ p \in live /\ mode[p] \in {"driving", "left"} /\ part[r] = "pending"
      /\ step' = [step EXCEPT ![p][r] = "idle"] /\ UNCHANGED <<mode, act, job, att>>
      /\ part' \in {part, [part EXCEPT ![r] = "failed"]}
  BY DEF GiveUp, IInv, CrewInv, StepInv, TypeInv
<1>3. /\ live' = live
      /\ \A q \in Procs, i \in Parts : step'[q][i] = IF q = p /\ i = r THEN "idle" ELSE step[q][i]
      /\ \A i \in Parts \ {r} : part'[i] = part[i]
  BY <1>1, <1>2 DEF Elsewhere, IInv, TypeInv
<1>4. TypeInv'
  BY <1>1, <1>2, LedgerKept DEF IInv, TypeInv
<1>5. Crew(p)
  BY <1>2 DEF Crew
<1>6. AloneInv' /\ HostInv'
  BY <1>2, <1>3 DEF IInv, CrewInv, AloneInv, HostInv, Crew
<1>7. ActInv'
  BY <1>2, <1>3 DEF IInv, CrewInv, ActInv, Crew, Last
<1>8. StepInv'
  BY <1>2, <1>3, <1>5, OneCrew DEF IInv, CrewInv, StepInv
<1>9. ThreadInv'
  BY <1>2, <1>3 DEF IInv, CrewInv, ThreadInv
<1> QED
  BY <1>4, <1>6, <1>7, <1>8, <1>9 DEF IInv, CrewInv

(* A new attempt is the only one whose thread goes on.                     *)
LEMMA SpawnCrew ==
  ASSUME IInv, NEW p \in Procs, NEW r \in Parts, Spawn(p, r) \/ SpawnRefused(p, r)
  PROVE  IInv'
<1>1. PICK status \in {"running", "withdrawn"} :
        /\ Started(p, r, status)
        /\ \/ status = "running" /\ Spawn(p, r)
           \/ status = "withdrawn" /\ SpawnRefused(p, r)
  BY DEF Spawn, SpawnRefused
<1> DEFINE a == [host |-> p, thread |-> "working", status |-> status, worker |-> TRUE]
<1>2. /\ p \in live /\ mode[p] \in {"driving", "left"} /\ part[r] = "pending"
      /\ Len(att[r]) < MaxAttempts /\ step[p][r] # "idle" /\ UNCHANGED mode
      /\ att' = [att EXCEPT ![r] = Append(@, a)]
      /\ job' = [job EXCEPT ![p][r] = Len(att'[r])]
      /\ step' = [step EXCEPT ![p][r] = "idle"]
  BY <1>1 DEF Started, Spawn, SpawnRefused, IInv, CrewInv, StepInv
<1>3. Crew(p) /\ act[p][r] = "none"
  BY <1>2 DEF Crew, IInv, CrewInv, ActInv, TypeInv
<1>4. /\ live' = live /\ LedgerOK'
      /\ part' = [part EXCEPT ![r] = IF status = "running" THEN "running" ELSE "failed"]
      /\ act' = IF status = "running" THEN [act EXCEPT ![p][r] = "managed"] ELSE act
  <2>1. CASE Spawn(p, r) /\ status = "running"
    BY <2>1 DEF Spawn, ledgerVars, IInv, TypeInv, LedgerOK, Leases
  <2>2. CASE SpawnRefused(p, r) /\ status = "withdrawn"
    BY <1>2, <2>2, ReleaseEffect, LedgerKept DEF SpawnRefused, Elsewhere, IInv, TypeInv
  <2> QED
    BY <1>1, <2>1, <2>2
<1>5. a \in Attempt /\ a.host = p /\ a.status = status /\ a.thread = "working"
  BY DEF Attempt
<1> HIDE DEF a
<1>6. /\ att' \in [Parts -> Seq(Attempt)] /\ Len(att'[r]) = Len(att[r]) + 1
      /\ att'[r][Len(att'[r])] = a /\ DOMAIN att'[r] = 1..Len(att'[r]) /\ att'[r] # <<>>
      /\ \A n \in DOMAIN att[r] : n \in DOMAIN att'[r] /\ att'[r][n] = att[r][n]
      /\ \A n \in DOMAIN att'[r] : n = Len(att'[r]) \/ n \in DOMAIN att[r]
      /\ \A q \in Parts \ {r} : att'[q] = att[q]
  <2>1. /\ att[r] \in Seq(Attempt) /\ Len(att[r]) \in Nat /\ DOMAIN att[r] = 1..Len(att[r])
    BY Attempts DEF IInv
  <2>2. att'[r] = Append(att[r], a) /\ \A q \in Parts \ {r} : att'[q] = att[q]
    BY <1>2 DEF IInv, TypeInv
  <2>3. att'[r] \in Seq(Attempt)
    BY <1>5, <2>1, <2>2
  <2>4. Len(att'[r]) = Len(att[r]) + 1 /\ DOMAIN att'[r] = 1..Len(att'[r])
    BY <2>1, <2>2, <2>3, LenProperties
  <2>5. /\ att'[r][Len(att'[r])] = a
        /\ \A n \in DOMAIN att[r] : att'[r][n] = att[r][n]
    BY <2>1, <2>2, <2>4
  <2>6. att' \in [Parts -> Seq(Attempt)]
    BY <1>2, <2>3 DEF IInv, TypeInv
  <2> QED
    BY <2>1, <2>2, <2>3, <2>4, <2>5, <2>6, EmptySeq
<1>7. /\ \A q \in Procs, i \in Parts : step'[q][i] = IF q = p /\ i = r THEN "idle" ELSE step[q][i]
      /\ \A q \in Procs, i \in Parts : q # p \/ i # r => act'[q][i] = act[q][i]
      /\ act'[p][r] = IF status = "running" THEN "managed" ELSE "none"
      /\ \A q \in Procs, i \in Parts :
           job'[q][i] = IF q = p /\ i = r THEN Len(att[r]) + 1 ELSE job[q][i]
      /\ \A i \in Parts \ {r} : part'[i] = part[i]
      /\ part'[r] = IF status = "running" THEN "running" ELSE "failed"
  BY <1>2, <1>3, <1>4, <1>6 DEF IInv, TypeInv
<1>8. Len(att[r]) \in Nat /\ MaxAttempts \in Nat
  BY Attempts, DispatchAssumption DEF IInv
<1>9. TypeInv'
  <2>1. job' \in [Procs -> [Parts -> Nat]] /\ act' \in [Procs -> [Parts -> {"none", "managed", "recovered"}]]
    BY <1>2, <1>4, <1>6, <1>8 DEF IInv, TypeInv
  <2>2. \A i \in Parts : Len(att'[i]) <= MaxAttempts /\ \A q \in Procs : job'[q][i] <= Len(att'[i])
    BY <1>2, <1>6, <1>7, <1>8 DEF IInv, TypeInv
  <2> QED
    BY <1>2, <1>4, <1>6, <2>1, <2>2 DEF IInv, TypeInv
<1>10. AloneInv'
  BY <1>2, <1>4 DEF IInv, CrewInv, AloneInv, Crew
<1>11. HostInv'
  BY <1>2, <1>5, <1>6 DEF IInv, CrewInv, HostInv
<1>12. StepInv'
  BY <1>2, <1>3, <1>4, <1>6, <1>7, OneCrew DEF IInv, CrewInv, StepInv
<1>13. ActInv'
  <2>1. ASSUME NEW q \in Procs, NEW i \in Parts, act'[q][i] # "none", q # p \/ i # r
        PROVE  act[q][i] # "none" /\ i # r /\ q = p
    BY <1>2, <1>3, <1>7, <2>1, OneCrew
  <2> QED
    BY <1>2, <1>3, <1>4, <1>5, <1>6, <1>7, <2>1 DEF IInv, CrewInv, ActInv, Crew, Last
<1>14. ThreadInv'
  <2>1. \A n \in DOMAIN att[r] : att[r][n].thread \notin {"working", "closing"}
    BY <1>2 DEF IInv, CrewInv, ThreadInv
  <2>2. \A i \in Parts \ {r} : \A n \in DOMAIN att[i] : att[i][n].host \in Procs
    BY Attempts DEF IInv
  <2> QED
    BY <1>2, <1>4, <1>5, <1>6, <1>7, <2>1, <2>2 DEF IInv, CrewInv, ThreadInv
<1> QED
  BY <1>9, <1>10, <1>11, <1>12, <1>13, <1>14 DEF IInv, CrewInv

(* The outcome of a run is taken when no thread of it goes on, and nobody  *)
(* follows it then.                                                        *)
LEMMA OutcomeQuiet ==
  ASSUME IInv, NEW p \in Procs, NEW r \in Parts, Poll(p, r) \/ PollRecovered(p, r) \/ Settle(p, r)
  PROVE  /\ Elsewhere(r) /\ leases'[r] = None /\ Crew(p) /\ part[r] = "running"
         /\ \A n \in DOMAIN att[r] : att[r][n].thread \notin {"working", "closing"}
<1>1. /\ Elsewhere(r) /\ leases'[r] = None /\ Crew(p) /\ part[r] = "running"
  BY ReleaseEffect DEF Poll, PollRecovered, Settle, ToRehydrate, Crew, IInv, TypeInv, CrewInv, ActInv
<1>2. CASE Poll(p, r)
  BY <1>1, <1>2 DEF Poll, IInv, CrewInv, ActInv, ThreadInv
<1>3. CASE PollRecovered(p, r)
  BY <1>1, <1>3 DEF PollRecovered, IInv, CrewInv, ActInv, ThreadInv, Last
<1>4. CASE Settle(p, r)
  BY <1>1, <1>4, OneCrew DEF Settle, ToRehydrate, IInv, CrewInv, HostInv
<1> QED
  BY <1>2, <1>3, <1>4

(* The outcome of a run, found by polling it or by recovery: its thread    *)
(* does not go on.                                                         *)
LEMMA OutcomeCrew ==
  ASSUME IInv, NEW p \in Procs, NEW r \in Parts, Poll(p, r) \/ PollRecovered(p, r) \/ Settle(p, r)
  PROVE  IInv'
<1>1. /\ Elsewhere(r) /\ Crew(p) /\ part[r] = "running"
      /\ mode[p] \in {"driving", "overtaken", "rehydrating"} /\ UNCHANGED <<step, att>>
  BY OutcomeQuiet DEF Poll, PollRecovered, Settle, ToRehydrate
<1>2. \A n \in DOMAIN att[r] : att[r][n].thread \notin {"working", "closing"}
  BY OutcomeQuiet
<1>3. /\ act' \in [Procs -> [Parts -> {"none", "managed", "recovered"}]]
      /\ job' \in [Procs -> [Parts -> Nat]]
      /\ \A q \in Procs, i \in Parts :
           /\ act'[q][i] = IF q = p /\ i = r THEN "none" ELSE act[q][i]
           /\ job'[q][i] = job[q][i] \/ (q = p /\ i = r /\ job'[q][i] = 0)
  <2>1. /\ job' \in {job, [job EXCEPT ![p][r] = 0]}
        /\ act' = [act EXCEPT ![p][r] = "none"] \/ (act' = act /\ act[p][r] = "none")
    BY DEF Poll, PollRecovered, Settle, ToRehydrate
  <2>2. /\ act' \in [Procs -> [Parts -> {"none", "managed", "recovered"}]]
        /\ \A q \in Procs, i \in Parts : act'[q][i] = IF q = p /\ i = r THEN "none" ELSE act[q][i]
    <3>1. CASE act' = [act EXCEPT ![p][r] = "none"]
      BY <3>1 DEF IInv, TypeInv
    <3>2. CASE act' = act /\ act[p][r] = "none"
      BY <3>2 DEF IInv, TypeInv
    <3> QED
      BY <2>1, <3>1, <3>2
  <2>3. /\ job' \in [Procs -> [Parts -> Nat]]
        /\ \A q \in Procs, i \in Parts :
             job'[q][i] = job[q][i] \/ (q = p /\ i = r /\ job'[q][i] = 0)
    <3>1. CASE job' = [job EXCEPT ![p][r] = 0]
      BY <3>1 DEF IInv, TypeInv
    <3>2. CASE job' = job
      BY <3>2 DEF IInv, TypeInv
    <3> QED
      BY <2>1, <3>1, <3>2
  <2> QED
    BY <2>2, <2>3
<1>4. PICK s \in {"pending", "running", "done", "failed"} : part' = [part EXCEPT ![r] = s]
  BY DEF Poll, PollRecovered, Settle, Outcomes, IInv, TypeInv
<1>5. \/ mode' = mode
      \/ mode' = [mode EXCEPT ![p] = "left"] /\ mode[p] # "rehydrating"
  BY DEF Poll, PollRecovered, Settle
<1>6. /\ live' = live /\ LedgerOK' /\ \A i \in Parts \ {r} : part'[i] = part[i]
      /\ mode' \in [Procs -> {"out", "rehydrating", "driving", "overtaken", "stopping", "left"}]
      /\ \A q \in Procs : mode'[q] = mode[q] \/ (q = p /\ mode'[q] = "left")
  BY <1>1, <1>4, <1>5, LedgerKept DEF Elsewhere, IInv, TypeInv
<1>7. TypeInv'
  <2>1. \A i \in Parts : Len(att[i]) \in Nat
    BY Attempts DEF IInv
  <2>2. ASSUME NEW i \in Parts, NEW q \in Procs PROVE job'[q][i] <= Len(att[i])
    <3>1. job'[q][i] = job[q][i] \/ job'[q][i] = 0
      BY <1>3
    <3>2. job[q][i] <= Len(att[i]) /\ Len(att[i]) \in Nat
      BY <2>1 DEF IInv, TypeInv
    <3> QED
      BY <3>1, <3>2
  <2>3. part' \in [Parts -> {"pending", "running", "done", "failed"}]
    BY <1>4 DEF IInv, TypeInv
  <2> QED
    BY <1>1, <1>3, <1>6, <2>2, <2>3 DEF IInv, TypeInv
<1>8. AloneInv'
  BY <1>1, <1>6 DEF IInv, CrewInv, AloneInv, Crew
<1>9. ActInv'
  <2>1. ASSUME NEW q \in Procs, NEW i \in Parts, act'[q][i] # "none"
        PROVE  act[q][i] # "none" /\ i # r /\ act'[q][i] = act[q][i] /\ job'[q][i] = job[q][i]
    BY <1>1, <1>3, <2>1, OneCrew
  <2> QED
    BY <1>1, <1>6, <2>1 DEF IInv, CrewInv, ActInv, Crew, Last
<1>10. StepInv'
  BY <1>1, <1>6 DEF IInv, CrewInv, StepInv
<1>11. \A i \in Parts : \A n \in DOMAIN att[i] : att[i][n].host \in Procs
  BY Attempts DEF IInv
<1>12. HostInv'
  BY <1>1, <1>6, <1>11 DEF IInv, CrewInv, HostInv
<1>13. ThreadInv'
  <2>1. SUFFICES ASSUME NEW i \in Parts, NEW n \in DOMAIN att[i],
                        att[i][n].thread \in {"working", "closing"}
        PROVE  /\ n = Len(att[i]) /\ att[i][n].host \in live
               /\ \/ /\ part'[i] = "running"
                     /\ \/ act'[att[i][n].host][i] = "managed"
                        \/ mode'[att[i][n].host] \in {"stopping", "left"}
                  \/ /\ part'[i] = "failed"
                     /\ att[i][n].thread = "working" => att[i][n].status = "withdrawn"
    BY <1>1, <1>6 DEF ThreadInv
  <2>2. i # r /\ att[i][n].host \in Procs
    BY <1>2, <1>11, <2>1
  <2>3. /\ act'[att[i][n].host][i] = act[att[i][n].host][i] /\ part'[i] = part[i]
        /\ mode'[att[i][n].host] \in {mode[att[i][n].host], "left"}
    BY <1>3, <1>6, <2>2
  <2>4. /\ n = Len(att[i]) /\ att[i][n].host \in live
        /\ \/ /\ part[i] = "running"
              /\ \/ act[att[i][n].host][i] = "managed"
                 \/ mode[att[i][n].host] \in {"stopping", "left"}
           \/ /\ part[i] = "failed"
              /\ att[i][n].thread = "working" => att[i][n].status = "withdrawn"
    BY <2>1 DEF IInv, CrewInv, ThreadInv
  <2> QED
    BY <2>3, <2>4
<1> QED
  BY <1>7, <1>8, <1>9, <1>10, <1>12, <1>13 DEF IInv, CrewInv

(* One attempt changes, and keeps its host.                                *)
OnlyAt(r, n, a) ==
  /\ att' \in [Parts -> Seq(Attempt)]
  /\ \A q \in Parts : /\ Len(att'[q]) = Len(att[q]) /\ DOMAIN att'[q] = DOMAIN att[q]
                      /\ att'[q] = <<>> <=> att[q] = <<>>
  /\ att'[r][n] = a /\ a.host = att[r][n].host
  /\ \A q \in Parts : \A m \in DOMAIN att[q] : q # r \/ m # n => att'[q][m] = att[q][m]

LEMMA OneAttempt ==
  ASSUME TypeInv, NEW r \in Parts, NEW n \in DOMAIN att[r], NEW a \in Attempt,
         a.host = att[r][n].host, att' = [att EXCEPT ![r] = [att[r] EXCEPT ![n] = a]]
  PROVE  OnlyAt(r, n, a)
<1>1. att[r] \in Seq(Attempt) /\ n \in 1..Len(att[r]) /\ DOMAIN att[r] = 1..Len(att[r])
  BY Attempts
<1>2. att'[r] = [att[r] EXCEPT ![n] = a] /\ \A q \in Parts \ {r} : att'[q] = att[q]
  BY DEF TypeInv
<1>3. /\ att'[r] \in Seq(Attempt) /\ Len(att'[r]) = Len(att[r])
      /\ \A m \in 1..Len(att[r]) : att'[r][m] = IF m = n THEN a ELSE att[r][m]
  BY <1>1, <1>2, ExceptSeq
<1>4. DOMAIN att'[r] = DOMAIN att[r] /\ att'[r] # <<>> /\ att[r] # <<>>
  BY <1>1, <1>3, LenProperties
<1>5. att' \in [Parts -> Seq(Attempt)]
  BY <1>3 DEF TypeInv
<1> QED
  BY <1>1, <1>2, <1>3, <1>4, <1>5 DEF OnlyAt

(* What happens to an attempt once it runs.                                *)
Calmer(a, b) ==
  /\ a.host = b.host
  /\ a.thread \in {"working", "closing"} => b.thread \in {"working", "closing"}
  /\ a.thread = "working" =>
       b.thread = "working" /\ (a.status = "withdrawn" <=> b.status = "withdrawn")
  /\ a.status = "running" => b.status = "running"
  /\ a.worker => b.worker

LEMMA CancelAttempt ==
  ASSUME IInv, NEW p \in Procs, NEW r \in Parts, CancelManaged(p, r) \/ CancelRecovered(p, r)
  PROVE  /\ Len(att[r]) \in DOMAIN att[r]
         /\ \E a \in Attempt : OnlyAt(r, Len(att[r]), a) /\ Calmer(a, Last(r))
<1> DEFINE n == Len(att[r])
<1>1. n \in DOMAIN att[r] /\ att[r][n] \in Attempt /\ att[r] \in Seq(Attempt)
  BY Attempts DEF CancelManaged, CancelRecovered, IInv, CrewInv, ActInv
<1>2. CASE CancelManaged(p, r)
  <2>1. job[p][r] = n
    BY <1>2 DEF CancelManaged, IInv, CrewInv, ActInv
  <2>2. PICK a : a = [att[r][n] EXCEPT !.status = IF @ = "running" THEN "cancelled" ELSE @]
    OBVIOUS
  <2>3. a \in Attempt /\ Calmer(a, att[r][n])
    BY <1>1, <2>2 DEF Attempt, Calmer
  <2>4. att' = [att EXCEPT ![r] = [att[r] EXCEPT ![n] = a]]
    BY <1>1, <1>2, <2>1, <2>2 DEF CancelManaged, IInv, TypeInv
  <2> QED
    BY <1>1, <2>3, <2>4, OneAttempt DEF IInv, Calmer, Last
<1>3. CASE CancelRecovered(p, r)
  <2>1. PICK a : a = [att[r][n] EXCEPT !.status = IF @ = "running" THEN "cancelled" ELSE @,
                                      !.worker = FALSE]
    OBVIOUS
  <2>2. a \in Attempt /\ Calmer(a, att[r][n])
    BY <1>1, <2>1 DEF Attempt, Calmer
  <2>3. att' = [att EXCEPT ![r] = [att[r] EXCEPT ![n] = a]]
    BY <1>1, <1>3, <2>1 DEF CancelRecovered, IInv, TypeInv
  <2> QED
    BY <1>1, <2>2, <2>3, OneAttempt DEF IInv, Calmer, Last
<1> QED
  BY <1>1, <1>2, <1>3

LEMMA WorkingAttempt ==
  ASSUME IInv, NEW r \in Parts, NEW n \in DOMAIN att[r], Working(r, n)
  PROVE  \E a \in Attempt : OnlyAt(r, n, a) /\ Calmer(a, att[r][n]) /\
           (WorkerEnds(r, n) \/ ThreadCloses(r, n) => a.thread # "working")
<1>1. att[r][n] \in Attempt /\ att[r] \in Seq(Attempt)
  BY Attempts DEF IInv
<1>2. CASE WorkerEnds(r, n)
  <2>1. PICK status \in {"completed", "limited", "failed", att[r][n].status} :
          /\ att' = [att EXCEPT ![r][n].thread = "closing", ![r][n].worker = FALSE,
                                ![r][n].status = status]
          /\ status = "running" => att[r][n].status = "running"
    BY <1>2 DEF WorkerEnds
  <2>2. PICK a : a = [att[r][n] EXCEPT !.thread = "closing", !.worker = FALSE, !.status = status]
    OBVIOUS
  <2>3. a \in Attempt /\ Calmer(a, att[r][n]) /\ a.thread = "closing"
    BY <1>1, <1>2, <2>1, <2>2 DEF Attempt, Calmer, WorkerEnds
  <2>4. att' = [att EXCEPT ![r] = [att[r] EXCEPT ![n] = a]]
    BY <1>1, <2>1, <2>2 DEF IInv, TypeInv
  <2> QED
    BY <2>3, <2>4, OneAttempt DEF IInv, Calmer
<1>3. CASE ThreadCloses(r, n)
  <2>1. PICK to \in {"ended", "broken"} : att' = [att EXCEPT ![r][n].thread = to]
    BY <1>3 DEF ThreadCloses
  <2>2. PICK a : a = [att[r][n] EXCEPT !.thread = to]
    OBVIOUS
  <2>3. a \in Attempt /\ Calmer(a, att[r][n]) /\ a.thread = to
    BY <1>1, <2>2 DEF Attempt, Calmer
  <2>4. att' = [att EXCEPT ![r] = [att[r] EXCEPT ![n] = a]]
    BY <1>1, <2>1, <2>2 DEF IInv, TypeInv
  <2> QED
    BY <2>3, <2>4, OneAttempt DEF IInv, Calmer
<1>4. CASE OrphanEnds(r, n) /\ ~WorkerEnds(r, n) /\ ~ThreadCloses(r, n)
  <2>1. att' = [att EXCEPT ![r][n].worker = FALSE]
    BY <1>4 DEF OrphanEnds
  <2>2. PICK a : a = [att[r][n] EXCEPT !.worker = FALSE]
    OBVIOUS
  <2>3. a \in Attempt /\ Calmer(a, att[r][n])
    BY <1>1, <2>2 DEF Attempt, Calmer
  <2>4. att' = [att EXCEPT ![r] = [att[r] EXCEPT ![n] = a]]
    BY <1>1, <2>1, <2>2 DEF IInv, TypeInv
  <2> QED
    BY <1>4, <2>3, <2>4, OneAttempt DEF IInv, Calmer
<1> QED
  BY <1>2, <1>3, <1>4 DEF Working

(* An attempt changes whose thread does not begin to work again; what it   *)
(* counts for the others does not change.                                  *)
LEMMA AttemptTypes ==
  ASSUME IInv, NEW r \in Parts, NEW n \in DOMAIN att[r], NEW a, OnlyAt(r, n, a), LedgerOK',
         live' = live, UNCHANGED <<mode, step, job, part>>,
         act' \in [Procs -> [Parts -> {"none", "managed", "recovered"}]],
         \A q \in Procs, i \in Parts : act'[q][i] \in {"none", act[q][i]}
  PROVE  /\ TypeInv' /\ AloneInv' /\ ActInv' /\ StepInv' /\ HostInv'
         /\ \A i \in Parts : \A m \in DOMAIN att[i] : att'[i][m].host = att[i][m].host
<1>1. \A i \in Parts : \A m \in DOMAIN att[i] : att'[i][m].host = att[i][m].host
  BY DEF OnlyAt
<1>2. TypeInv'
  BY DEF OnlyAt, IInv, TypeInv
<1>3. AloneInv' /\ StepInv'
  BY DEF OnlyAt, IInv, CrewInv, AloneInv, StepInv, Crew
<1>4. HostInv'
  BY <1>1 DEF OnlyAt, IInv, CrewInv, HostInv
<1>5. \A i \in Parts : att[i] # <<>> => Len(att[i]) \in DOMAIN att[i]
  BY Attempts DEF IInv
<1>6. \A i \in Parts : att[i] # <<>> => Last(i)'.host = Last(i).host
  BY <1>1, <1>5 DEF OnlyAt, Last
<1>7. ActInv'
  BY <1>6 DEF OnlyAt, IInv, CrewInv, ActInv, Crew
<1> QED
  BY <1>1, <1>2, <1>3, <1>4, <1>7

LEMMA CancelCrew ==
  ASSUME IInv, NEW p \in Procs, NEW r \in Parts, CancelManaged(p, r) \/ CancelRecovered(p, r)
  PROVE  IInv'
<1>1. /\ Crew(p) /\ mode[p] = "stopping" /\ act[p][r] # "none" /\ part[r] = "running"
      /\ att[r] # <<>> /\ act' = [act EXCEPT ![p][r] = "none"]
      /\ UNCHANGED <<mode, step, job, part>>
  BY DEF CancelManaged, CancelRecovered, IInv, CrewInv, ActInv
<1>2. PICK n \in DOMAIN att[r] : n = Len(att[r])
  BY CancelAttempt
<1>3. PICK a \in Attempt : OnlyAt(r, n, a) /\ Calmer(a, att[r][n])
  BY <1>2, CancelAttempt DEF Last
<1>4. live' = live /\ LedgerOK'
  <2>1. CASE CancelManaged(p, r)
    BY <2>1 DEF CancelManaged, ledgerVars, IInv, TypeInv, LedgerOK, Leases
  <2>2. CASE CancelRecovered(p, r)
    BY <2>2, ReleaseEffect, LedgerKept DEF CancelRecovered, Elsewhere, IInv, TypeInv
  <2> QED
    BY <2>1, <2>2
<1>6. /\ act' \in [Procs -> [Parts -> {"none", "managed", "recovered"}]]
      /\ \A q \in Procs, i \in Parts : act'[q][i] = IF q = p /\ i = r THEN "none" ELSE act[q][i]
  BY <1>1 DEF IInv, TypeInv
<1>7. TypeInv' /\ AloneInv' /\ ActInv' /\ StepInv' /\ HostInv'
  BY <1>1, <1>3, <1>4, <1>6, AttemptTypes
<1>8. \A i \in Parts : \A m \in DOMAIN att[i] : att[i][m].host \in Procs
  BY Attempts DEF IInv
<1>9. ThreadInv'
  BY <1>1, <1>2, <1>3, <1>4, <1>6, <1>8 DEF IInv, CrewInv, ThreadInv, OnlyAt, Calmer
<1> QED
  BY <1>7, <1>9 DEF IInv, CrewInv

LEMMA WorkingCrew ==
  ASSUME IInv, NEW r \in Parts, NEW n \in DOMAIN att[r], Working(r, n)
  PROVE  IInv'
<1>2. PICK a \in Attempt : OnlyAt(r, n, a) /\ Calmer(a, att[r][n])
  BY WorkingAttempt
<1>3. live' = live /\ LedgerOK' /\ UNCHANGED <<mode, step, act, job, part>>
  <2>1. CASE UNCHANGED ledgerVars
    BY <2>1 DEF Working, WorkerEnds, ThreadCloses, OrphanEnds, ledgerVars, IInv, TypeInv,
       LedgerOK, Leases
  <2>2. CASE Release(r)
    BY <2>2, ReleaseEffect, LedgerKept
    DEF Working, WorkerEnds, ThreadCloses, OrphanEnds, Elsewhere, IInv, TypeInv
  <2> QED
    BY <2>1, <2>2 DEF Working, WorkerEnds, ThreadCloses, OrphanEnds
<1>5. TypeInv' /\ AloneInv' /\ ActInv' /\ StepInv' /\ HostInv'
  BY <1>2, <1>3, AttemptTypes DEF IInv, TypeInv
<1>6. ThreadInv'
  BY <1>2, <1>3 DEF IInv, CrewInv, ThreadInv, OnlyAt, Calmer
<1> QED
  BY <1>5, <1>6 DEF IInv, CrewInv

(* A process takes the plan, stops or leaves it.  An orderly takeover      *)
(* finds everybody else out or dead.                                       *)
LEMMA ModeCrew ==
  ASSUME Orderly, IInv, NEW p \in Procs,
         SeesInterrupt(p) \/ Leave(p) \/ TakeOver(p) \/ Rehydrated(p)
  PROVE  IInv'
<1>1. UNCHANGED <<leases, live, clock, step, act, job, att, part>>
  BY DEF SeesInterrupt, Leave, TakeOver, Rehydrated, ledgerVars
<1>2. mode' \in [Procs -> {"out", "rehydrating", "driving", "overtaken", "stopping", "left"}]
  BY DEF SeesInterrupt, Leave, TakeOver, Rehydrated, IInv, TypeInv
<1>3. TypeInv'
  BY <1>1, <1>2 DEF IInv, TypeInv, LedgerOK, Leases
<1>4. \A i \in Parts : \A n \in DOMAIN att[i] : att[i][n].host \in Procs
  BY Attempts DEF IInv
<1>5. CASE SeesInterrupt(p) \/ Leave(p) \/ Rehydrated(p)
  <2>1. /\ Crew(p) /\ mode'[p] \notin {"out", "rehydrating", "overtaken"}
        /\ \A q \in Procs \ {p} : mode'[q] = mode[q]
        /\ \/ mode[p] \in {"driving", "rehydrating"} /\ \A r \in Parts : step[p][r] = "idle"
           \/ mode[p] = "stopping" /\ mode'[p] = "left"
    <3>1. CASE SeesInterrupt(p)
      BY <3>1 DEF SeesInterrupt, Crew, IInv, TypeInv
    <3>2. CASE Leave(p)
      BY <3>2 DEF Leave, Crew, IInv, TypeInv
    <3>3. CASE Rehydrated(p)
      <4>1. mode[p] = "rehydrating" /\ p \in live /\ mode' = [mode EXCEPT ![p] = "driving"]
        BY <3>3 DEF Rehydrated
      <4>2. \A r \in Parts : step[p][r] = "idle"
        BY <4>1 DEF IInv, CrewInv, StepInv
      <4> QED
        BY <4>1, <4>2 DEF Crew, IInv, TypeInv
    <3> QED
      BY <1>5, <3>1, <3>2, <3>3
  <2>2. AloneInv' /\ ActInv'
    BY <1>1, <2>1 DEF IInv, CrewInv, AloneInv, ActInv, Crew, Last
  <2>3. StepInv'
    BY <1>1, <2>1 DEF IInv, CrewInv, StepInv
  <2>4. HostInv'
    BY <1>1, <1>4, <2>1 DEF IInv, CrewInv, HostInv
  <2>5. ThreadInv'
    <3>1. \A i \in Parts : \A n \in DOMAIN att[i] :
            mode[att[i][n].host] \in {"stopping", "left"} =>
            mode'[att[i][n].host] \in {"stopping", "left"}
      BY <1>4, <2>1
    <3> QED
      BY <1>1, <3>1 DEF IInv, CrewInv, ThreadInv
  <2> QED
    BY <1>3, <2>2, <2>3, <2>4, <2>5 DEF IInv, CrewInv
<1>6. CASE TakeOver(p)
  <2>1. /\ mode[p] = "out" /\ \A q \in Procs : ~Crew(q)
        /\ mode' = [q \in Procs |-> IF q = p THEN "rehydrating"
                                     ELSE IF mode[q] = "driving" THEN "overtaken" ELSE mode[q]]
    BY <1>6 DEF TakeOver, Crew
  <2>2. /\ \A q \in Procs, r \in Parts : act[q][r] = "none" /\ step[q][r] = "idle"
        /\ \A i \in Parts : \A n \in DOMAIN att[i] : att[i][n].thread \notin {"working", "closing"}
    BY <2>1, <1>4 DEF IInv, CrewInv, ActInv, StepInv, ThreadInv, HostInv, Crew
  <2>3. AloneInv'
    BY <1>1, <2>1 DEF AloneInv, Crew
  <2>4. HostInv'
    BY <1>1, <1>4, <2>1 DEF IInv, CrewInv, HostInv
  <2> QED
    BY <1>1, <1>3, <2>2, <2>3, <2>4 DEF IInv, CrewInv, ActInv, StepInv, ThreadInv
<1> QED
  BY <1>5, <1>6

LEMMA AdoptCrew ==
  ASSUME IInv, NEW p \in Procs, NEW r \in Parts, Adopt(p, r)
  PROVE  IInv'
<1>1. /\ Elsewhere(r) /\ p \in live /\ mode[p] = "rehydrating" /\ part[r] = "running" /\ IsLive(r)
      /\ act' = [act EXCEPT ![p][r] = "recovered"] /\ UNCHANGED <<mode, step, job, att, part>>
  BY EnsureEffect DEF Adopt, ToRehydrate, IInv, TypeInv
<1>2. /\ live' = live
      /\ \A q \in Procs, i \in Parts : act'[q][i] = IF q = p /\ i = r THEN "recovered" ELSE act[q][i]
  BY <1>1 DEF Elsewhere, IInv, TypeInv
<1>3. att[r] # <<>> /\ Last(r).host \notin live
  <2>1. att[r] # <<>> /\ Len(att[r]) \in DOMAIN att[r] /\ Last(r).host \in Procs
    BY <1>1, Attempts DEF IsLive, IInv, Last
  <2>2. mode[Last(r).host] \notin {"out", "rehydrating"}
    BY <2>1 DEF IInv, CrewInv, HostInv, Last
  <2> QED
    BY <1>1, <2>1, <2>2 DEF IInv, CrewInv, AloneInv, Crew
<1>4. step[p][r] = "idle" /\ Crew(p)
  BY <1>1 DEF IInv, CrewInv, StepInv, Crew
<1>5. TypeInv'
  BY <1>1, LedgerKept DEF IInv, TypeInv
<1>6. ActInv'
  BY <1>1, <1>2, <1>3, <1>4 DEF IInv, CrewInv, ActInv, Crew, Last
<1>7. \A i \in Parts : \A n \in DOMAIN att[i] :
        att[i][n].host # p
  BY <1>1 DEF IInv, CrewInv, HostInv
<1>8. \A i \in Parts : \A n \in DOMAIN att[i] : att[i][n].host \in Procs
  BY Attempts DEF IInv
<1>9. ThreadInv'
  BY <1>1, <1>2, <1>7, <1>8 DEF IInv, CrewInv, ThreadInv
<1> QED
  BY <1>1, <1>2, <1>5, <1>6, <1>9
  DEF IInv, CrewInv, AloneInv, StepInv, HostInv, Crew

(* A process dies, its threads with it.                                    *)
LEMMA ExitCrew ==
  ASSUME IInv, NEW p \in Procs, Exit(p)
  PROVE  IInv'
<1>1. /\ Crew(p) /\ live' = live \ {p} /\ UNCHANGED <<leases, clock, mode, part>>
      /\ act' = [act EXCEPT ![p] = [r \in Parts |-> "none"]]
      /\ step' = [step EXCEPT ![p] = [r \in Parts |-> "idle"]]
      /\ job' = [job EXCEPT ![p] = [r \in Parts |-> 0]]
      /\ att' = [r \in Parts |-> [n \in DOMAIN att[r] |->
           IF att[r][n].host = p THEN [att[r][n] EXCEPT !.thread = "ended"] ELSE att[r][n]]]
  BY DEF Exit, Ledger!Exit, Crew
<1>2. ASSUME NEW r \in Parts
      PROVE  /\ att'[r] \in Seq(Attempt) /\ Len(att'[r]) = Len(att[r])
             /\ DOMAIN att'[r] = DOMAIN att[r]
             /\ \A n \in DOMAIN att[r] : att'[r][n].host = att[r][n].host
             /\ \A n \in DOMAIN att[r] : att'[r][n].thread \notin {"working", "closing"}
  <2>1. /\ Len(att[r]) \in Nat /\ DOMAIN att[r] = 1..Len(att[r])
        /\ \A n \in DOMAIN att[r] : att[r][n] \in Attempt
    BY Attempts DEF IInv
  <2>2. /\ DOMAIN att'[r] = 1..Len(att[r])
        /\ att'[r] = [n \in 1..Len(att[r]) |->
             IF att[r][n].host = p THEN [att[r][n] EXCEPT !.thread = "ended"] ELSE att[r][n]]
    BY <1>1, <2>1
  <2>3. ASSUME NEW n \in 1..Len(att[r])
        PROVE  /\ att'[r][n] \in Attempt /\ att'[r][n].host = att[r][n].host
               /\ att'[r][n].thread \notin {"working", "closing"}
    <3>1. CASE att[r][n].host = p
      BY <2>1, <2>2, <3>1 DEF Attempt
    <3>2. CASE att[r][n].host # p
      BY <1>1, <2>1, <2>2, <3>2, OneCrew DEF Attempt
    <3> QED
      BY <3>1, <3>2
  <2>4. att'[r] \in [1..Len(att[r]) -> Attempt]
    BY <2>2, <2>3
  <2>5. att'[r] \in Seq(Attempt)
    BY <2>1, <2>4
  <2>6. Len(att'[r]) = Len(att[r])
    BY <2>1, <2>2, <2>5, LenProperties
  <2> QED
    BY <2>1, <2>2, <2>3, <2>5, <2>6
<1>3. att' \in [Parts -> Seq(Attempt)]
  BY <1>1, <1>2
<1>4. /\ \A q \in Procs, i \in Parts : act'[q][i] = IF q = p THEN "none" ELSE act[q][i]
      /\ \A q \in Procs, i \in Parts : step'[q][i] = IF q = p THEN "idle" ELSE step[q][i]
      /\ \A q \in Procs, i \in Parts : job'[q][i] = IF q = p THEN 0 ELSE job[q][i]
  BY <1>1 DEF IInv, TypeInv
<1>5. \A q \in Procs, i \in Parts : act'[q][i] = "none" /\ step'[q][i] = "idle"
  BY <1>1, <1>4, OneCrew
<1>6. TypeInv'
  <2>1. LedgerOK'
    BY <1>1 DEF IInv, TypeInv, LedgerOK, Leases
  <2>2. /\ act' \in [Procs -> [Parts -> {"none", "managed", "recovered"}]]
        /\ step' \in [Procs -> [Parts -> {"idle", "admitted", "ensured", "bound"}]]
        /\ job' \in [Procs -> [Parts -> Nat]]
    BY <1>1 DEF IInv, TypeInv
  <2>3. ASSUME NEW i \in Parts
        PROVE  Len(att'[i]) <= MaxAttempts /\ \A q \in Procs : job'[q][i] <= Len(att'[i])
    <3>1. /\ Len(att[i]) \in Nat /\ Len(att[i]) <= MaxAttempts
          /\ \A q \in Procs : job[q][i] \in Nat /\ job[q][i] <= Len(att[i])
      BY Attempts DEF IInv, TypeInv
    <3>2. Len(att'[i]) = Len(att[i])
      BY <1>2
    <3>3. \A q \in Procs : job'[q][i] = job[q][i] \/ job'[q][i] = 0
      BY <1>4
    <3> QED
      BY <3>1, <3>2, <3>3
  <2> QED
    BY <1>1, <1>3, <2>1, <2>2, <2>3 DEF IInv, TypeInv
<1>7. AloneInv' /\ HostInv'
  BY <1>1, <1>2 DEF IInv, CrewInv, AloneInv, HostInv, Crew
<1> QED
  BY <1>2, <1>5, <1>6, <1>7 DEF IInv, CrewInv, ActInv, StepInv, ThreadInv

LEMMA CrewStep ==
  ASSUME Orderly
  PROVE  IInv /\ [Next]_vars => IInv'
<1> SUFFICES ASSUME IInv, [Next]_vars PROVE IInv'
  OBVIOUS
<1>1. CASE UNCHANGED vars
  BY <1>1 DEF vars, IInv, TypeInv, LedgerOK, Leases, CrewInv, AloneInv, Crew, ActInv, StepInv,
     HostInv, ThreadInv, Last
<1>2. CASE Tick
  BY <1>2 DEF Tick, Ledger!Tick, IInv, TypeInv, LedgerOK, Leases, CrewInv, AloneInv, Crew, ActInv,
     StepInv, HostInv, ThreadInv, Last
<1> QED
  BY <1>1, <1>2, StepCrew, GiveUpCrew, SpawnCrew, OutcomeCrew, CancelCrew, WorkingCrew, ModeCrew,
     AdoptCrew, ExitCrew DEF Next, Dispatching, Following, Recovering

(* The ledger, the processes, the attempts and the part states keep their  *)
(* types, no part is tried more often than it may be, and a managed part   *)
(* has a job (coordinator, provider_runner jobs).                          *)
THEOREM TypeCorrect == ASSUME Orderly PROVE Spec => []TypeOK
<1>1. IInv => TypeOK
  <2> SUFFICES ASSUME IInv PROVE TypeOK
    OBVIOUS
  <2>1. Ledger!TypeOK
    BY DEF IInv, TypeInv, LedgerOK, Leases, Ledger!TypeOK
  <2>2. ASSUME NEW r \in Parts
        PROVE  /\ Len(att[r]) <= MaxAttempts
               /\ \A n \in DOMAIN att[r] : att[r][n] \in Attempt
               /\ \A p \in Procs :
                    /\ job[p][r] \in {0} \cup DOMAIN att[r]
                    /\ act[p][r] = "managed" => job[p][r] # 0
    <3>1. /\ Len(att[r]) \in Nat /\ DOMAIN att[r] = 1..Len(att[r])
          /\ \A n \in DOMAIN att[r] : att[r][n] \in Attempt
          /\ att[r] # <<>> => Len(att[r]) \in DOMAIN att[r]
      BY Attempts DEF IInv
    <3>2. \A p \in Procs : job[p][r] \in Nat /\ job[p][r] <= Len(att[r])
      BY DEF IInv, TypeInv
    <3>3. \A p \in Procs : act[p][r] = "managed" => job[p][r] = Len(att[r]) /\ att[r] # <<>>
      BY DEF IInv, CrewInv, ActInv
    <3> QED
      BY <3>1, <3>2, <3>3 DEF IInv, TypeInv
  <2> QED
    BY <2>1, <2>2 DEF IInv, TypeInv, TypeOK
<1> QED
  BY <1>1, CrewInit, CrewStep, PTL DEF Spec

-----------------------------------------------------------------------------
(* What the leases of processes rest on, orderly or not: the types, and    *)
(* that a process out of the plan dispatches nothing.                      *)
DeskInv ==
  /\ LedgerOK
  /\ mode \in [Procs -> {"out", "rehydrating", "driving", "overtaken", "stopping", "left"}]
  /\ step \in [Procs -> [Parts -> {"idle", "admitted", "ensured", "bound"}]]
  /\ act \in [Procs -> [Parts -> {"none", "managed", "recovered"}]]
  /\ \A p \in Procs, r \in Parts : step[p][r] # "idle" => mode[p] # "out"

LEMMA DeskLemma == IInv => DeskInv
BY DEF IInv, TypeInv, CrewInv, StepInv, DeskInv

(* Why a live process has a lease.                                         *)
Reason(r, p) ==
  mode[p] # "out" /\ (mode[p] \in {"stopping", "left"} \/ step[p][r] # "idle" \/ act[p][r] # "none")

LeakInv == \A r \in Parts : \A p \in live : Has(r, p) => Reason(r, p)

(* A transaction about a part that leaves the reasons of the others.       *)
LEMMA LeakElsewhere ==
  ASSUME DeskInv, LeakInv, NEW r \in Parts, Elsewhere(r),
         \A i \in Parts \ {r} : \A q \in live : Reason(i, q) => Reason(i, q)',
         \A q \in live : Has(r, q)' => Reason(r, q)'
  PROVE  LeakInv'
<1>1. live' = live /\ live \subseteq Procs
  BY DEF Elsewhere, DeskInv, LedgerOK
<1> QED
  BY <1>1 DEF LeakInv, Elsewhere

(* A step towards a worker: whoever gets a lease has a use for it.         *)
LEMMA AdmittingSteps ==
  ASSUME DeskInv, NEW p \in Procs, NEW r \in Parts,
         Admit(p, r) \/ Ensure(p, r) \/ Bind(p, r) \/ Adopt(p, r)
  PROVE  /\ DeskInv' /\ Elsewhere(r) /\ mode' = mode
         /\ \A q \in Procs : Has(r, q)' => q = p \/ Has(r, q)
         /\ \A q \in Procs, i \in Parts : q # p \/ i # r =>
              step'[q][i] = step[q][i] /\ act'[q][i] = act[q][i]
         /\ mode[p] # "out" /\ (step'[p][r] # "idle" \/ act'[p][r] # "none")
<1>1. LedgerOK
  BY DEF DeskInv
<1>2. /\ Elsewhere(r)
      /\ \A q \in Procs : Has(r, q)' => q = p \/ Has(r, q)
  <2>1. CASE EnsureReserved(p, r)
    BY <1>1, <2>1, EnsureEffect
  <2>2. CASE Ledger!Bind(r, Engine, Account, r, clock)
    BY <1>1, <2>2, BindEffect DEF Has
  <2> QED
    BY <2>1, <2>2 DEF Admit, Ensure, Bind, Adopt
<1>3. mode' = mode /\ mode[p] # "out"
  BY DEF Admit, Ensure, Bind, Adopt, ToRehydrate, DeskInv
<1>4. \/ /\ act' = act
         /\ \E to \in {"admitted", "ensured", "bound"} : step' = [step EXCEPT ![p][r] = to]
      \/ step' = step /\ act' = [act EXCEPT ![p][r] = "recovered"]
  BY DEF Admit, Ensure, Bind, Adopt
<1> DEFINE Moved ==
      /\ step' \in [Procs -> [Parts -> {"idle", "admitted", "ensured", "bound"}]]
      /\ act' \in [Procs -> [Parts -> {"none", "managed", "recovered"}]]
      /\ \A q \in Procs, i \in Parts : q # p \/ i # r =>
           step'[q][i] = step[q][i] /\ act'[q][i] = act[q][i]
      /\ step'[p][r] # "idle" \/ act'[p][r] # "none"
<1>5. Moved
  <2>1. ASSUME act' = act, NEW to \in {"admitted", "ensured", "bound"},
               step' = [step EXCEPT ![p][r] = to]
        PROVE  Moved
    BY <2>1 DEF DeskInv
  <2>2. CASE step' = step /\ act' = [act EXCEPT ![p][r] = "recovered"]
    BY <2>2 DEF DeskInv
  <2> QED
    BY <1>4, <2>1, <2>2
<1>6. LedgerOK'
  BY <1>1, <1>2 DEF Elsewhere, LedgerOK
<1> QED
  BY <1>2, <1>3, <1>5, <1>6 DEF DeskInv

LEMMA ReleaseSteps ==
  ASSUME DeskInv, NEW p \in Procs, NEW r \in Parts,
         \/ GiveUp(p, r) \/ SpawnRefused(p, r) \/ CancelRecovered(p, r)
         \/ Poll(p, r) \/ PollRecovered(p, r) \/ Settle(p, r)
  PROVE  /\ Elsewhere(r) /\ leases'[r] = None
         /\ \A q \in Procs, i \in Parts : i # r => step'[q][i] = step[q][i] /\ act'[q][i] = act[q][i]
         /\ \A q \in Procs : mode'[q] = mode[q] \/ (q = p /\ mode[q] # "out" /\ mode'[q] = "left")
<1>1. Elsewhere(r) /\ leases'[r] = None
  BY ReleaseEffect DEF GiveUp, SpawnRefused, CancelRecovered, Poll, PollRecovered, Settle,
     DeskInv
<1>2. /\ act' \in {act, [act EXCEPT ![p][r] = "none"]}
      /\ step' \in {step, [step EXCEPT ![p][r] = "idle"]}
      /\ mode' = mode \/ (mode' = [mode EXCEPT ![p] = "left"] /\ mode[p] # "out")
  BY DEF GiveUp, SpawnRefused, Started, CancelRecovered, Poll, PollRecovered, Settle
<1>3. \A q \in Procs, i \in Parts : i # r => act'[q][i] = act[q][i]
  <2>1. CASE act' = [act EXCEPT ![p][r] = "none"]
    BY <2>1 DEF DeskInv
  <2> QED
    BY <1>2, <2>1
<1>4. \A q \in Procs, i \in Parts : i # r => step'[q][i] = step[q][i]
  <2>1. CASE step' = [step EXCEPT ![p][r] = "idle"]
    BY <2>1 DEF DeskInv
  <2> QED
    BY <1>2, <2>1
<1>5. \A q \in Procs : mode'[q] = mode[q] \/ (q = p /\ mode[q] # "out" /\ mode'[q] = "left")
  BY <1>2 DEF DeskInv
<1> QED
  BY <1>1, <1>3, <1>4, <1>5

LEMMA DeskStep == DeskInv /\ [Next]_vars => DeskInv'
<1> SUFFICES ASSUME DeskInv, [Next]_vars PROVE DeskInv'
  OBVIOUS
<1>1. ASSUME NEW p \in Procs, NEW r \in Parts,
             Admit(p, r) \/ Ensure(p, r) \/ Bind(p, r) \/ Adopt(p, r)
      PROVE  DeskInv'
  BY <1>1, AdmittingSteps
<1>2. ASSUME NEW p \in Procs, NEW r \in Parts,
             \/ GiveUp(p, r) \/ SpawnRefused(p, r) \/ CancelRecovered(p, r)
             \/ Poll(p, r) \/ PollRecovered(p, r) \/ Settle(p, r)
      PROVE  DeskInv'
  <2>1. LedgerOK'
    BY <1>2, ReleaseSteps DEF Elsewhere, LedgerOK, DeskInv
  <2>2. /\ act' \in {act, [act EXCEPT ![p][r] = "none"]}
        /\ step' \in {step, [step EXCEPT ![p][r] = "idle"]}
        /\ mode' = mode \/ (mode' = [mode EXCEPT ![p] = "left"] /\ step' = step)
    BY <1>2 DEF GiveUp, SpawnRefused, Started, CancelRecovered, Poll, PollRecovered, Settle
  <2>3. act' \in [Procs -> [Parts -> {"none", "managed", "recovered"}]]
    <3>1. CASE act' = [act EXCEPT ![p][r] = "none"]
      BY <3>1 DEF DeskInv
    <3> QED
      BY <2>2, <3>1 DEF DeskInv
  <2>4. /\ step' \in [Procs -> [Parts -> {"idle", "admitted", "ensured", "bound"}]]
        /\ \A q \in Procs, i \in Parts : step'[q][i] # "idle" => step[q][i] # "idle"
    <3>1. CASE step' = [step EXCEPT ![p][r] = "idle"]
      BY <3>1 DEF DeskInv
    <3> QED
      BY <2>2, <3>1 DEF DeskInv
  <2>5. /\ mode' \in [Procs -> {"out", "rehydrating", "driving", "overtaken", "stopping", "left"}]
        /\ \A q \in Procs : mode[q] # "out" => mode'[q] # "out"
    BY <2>2 DEF DeskInv
  <2> QED
    BY <2>1, <2>3, <2>4, <2>5 DEF DeskInv
<1>3. ASSUME NEW p \in Procs, NEW r \in Parts, Spawn(p, r) \/ CancelManaged(p, r) PROVE DeskInv'
  <2>1. /\ UNCHANGED <<leases, live, clock, mode>>
        /\ \E to \in {"none", "managed"} : act' = [act EXCEPT ![p][r] = to]
        /\ step' \in {step, [step EXCEPT ![p][r] = "idle"]}
    BY <1>3 DEF Spawn, Started, CancelManaged, ledgerVars
  <2>2. act' \in [Procs -> [Parts -> {"none", "managed", "recovered"}]]
    BY <2>1 DEF DeskInv
  <2>3. /\ step' \in [Procs -> [Parts -> {"idle", "admitted", "ensured", "bound"}]]
        /\ \A q \in Procs, i \in Parts : step'[q][i] # "idle" => step[q][i] # "idle"
    <3>1. CASE step' = [step EXCEPT ![p][r] = "idle"]
      BY <3>1 DEF DeskInv
    <3> QED
      BY <2>1, <3>1 DEF DeskInv
  <2> QED
    BY <2>1, <2>2, <2>3 DEF DeskInv, LedgerOK, Leases
<1>4. ASSUME NEW r \in Parts, NEW n \in DOMAIN att[r], Working(r, n) PROVE DeskInv'
  <2>1. CASE UNCHANGED ledgerVars
    BY <1>4, <2>1
    DEF Working, WorkerEnds, ThreadCloses, OrphanEnds, ledgerVars, DeskInv, LedgerOK, Leases
  <2>2. CASE Release(r)
    BY <1>4, <2>2, ReleaseEffect
    DEF Working, WorkerEnds, ThreadCloses, OrphanEnds, Elsewhere, DeskInv, LedgerOK
  <2> QED
    BY <1>4, <2>1, <2>2 DEF Working, WorkerEnds, ThreadCloses, OrphanEnds
<1>5. ASSUME NEW p \in Procs, SeesInterrupt(p) \/ Leave(p) \/ Rehydrated(p) \/ TakeOver(p)
      PROVE  DeskInv'
  <2>1. UNCHANGED <<leases, live, clock, step, act>>
    BY <1>5 DEF SeesInterrupt, Leave, Rehydrated, TakeOver, ledgerVars
  <2> DEFINE Stays ==
        /\ mode' \in [Procs -> {"out", "rehydrating", "driving", "overtaken", "stopping", "left"}]
        /\ \A q \in Procs : mode[q] # "out" => mode'[q] # "out"
  <2>2. Stays
    <3>1. CASE TakeOver(p)
      BY <3>1 DEF TakeOver, DeskInv
    <3>2. ASSUME NEW to \in {"stopping", "left", "driving"}, mode' = [mode EXCEPT ![p] = to]
          PROVE  Stays
      BY <3>2 DEF DeskInv
    <3> QED
      BY <1>5, <3>1, <3>2 DEF SeesInterrupt, Leave, Rehydrated
  <2> QED
    BY <2>1, <2>2 DEF DeskInv, LedgerOK, Leases
<1>6. ASSUME NEW p \in Procs, Exit(p) PROVE DeskInv'
  BY <1>6 DEF Exit, Ledger!Exit, DeskInv, LedgerOK, Leases
<1>7. CASE Tick \/ UNCHANGED vars
  BY <1>7 DEF Tick, Ledger!Tick, vars, DeskInv, LedgerOK, Leases
<1> QED
  BY <1>1, <1>2, <1>3, <1>4, <1>5, <1>6, <1>7 DEF Next, Dispatching, Following, Recovering

LEMMA LeakStep == DeskInv /\ LeakInv /\ [Next]_vars => LeakInv'
<1> SUFFICES ASSUME DeskInv, LeakInv, [Next]_vars PROVE LeakInv'
  OBVIOUS
<1>1. live \subseteq Procs
  BY DEF DeskInv, LedgerOK
<1>2. ASSUME NEW p \in Procs, NEW r \in Parts,
             Admit(p, r) \/ Ensure(p, r) \/ Bind(p, r) \/ Adopt(p, r)
      PROVE  LeakInv'
  <2>1. \A i \in Parts \ {r} : \A q \in live : Reason(i, q) => Reason(i, q)'
    BY <1>1, <1>2, AdmittingSteps DEF Reason
  <2>2. \A q \in live : Has(r, q)' => Reason(r, q)'
    BY <1>1, <1>2, AdmittingSteps DEF Reason, LeakInv
  <2> QED
    BY <1>2, <2>1, <2>2, AdmittingSteps, LeakElsewhere
<1>3. ASSUME NEW p \in Procs, NEW r \in Parts,
             \/ GiveUp(p, r) \/ SpawnRefused(p, r) \/ CancelRecovered(p, r)
             \/ Poll(p, r) \/ PollRecovered(p, r) \/ Settle(p, r)
      PROVE  LeakInv'
  <2>1. \A i \in Parts \ {r} : \A q \in live : Reason(i, q) => Reason(i, q)'
    BY <1>1, <1>3, ReleaseSteps DEF Reason
  <2>2. \A q \in live : ~Has(r, q)'
    BY <1>3, ReleaseSteps DEF Has
  <2> QED
    BY <1>3, <2>1, <2>2, ReleaseSteps, LeakElsewhere
<1>4. ASSUME NEW p \in Procs, NEW r \in Parts, Spawn(p, r) \/ CancelManaged(p, r) PROVE LeakInv'
  <2>1. UNCHANGED <<leases, live, mode>>
    BY <1>4 DEF Spawn, CancelManaged, ledgerVars
  <2>2. \A q \in Procs, i \in Parts : q # p \/ i # r => step'[q][i] = step[q][i] /\ act'[q][i] = act[q][i]
    BY <1>4 DEF Spawn, Started, CancelManaged, DeskInv
  <2>3. act'[p][r] # "none" \/ mode[p] = "stopping"
    BY <1>4 DEF Spawn, CancelManaged, DeskInv
  <2> QED
    BY <1>1, <2>1, <2>2, <2>3 DEF LeakInv, Reason, Has
<1>5. ASSUME NEW r \in Parts, NEW n \in DOMAIN att[r], Working(r, n) PROVE LeakInv'
  <2>1. UNCHANGED <<mode, step, act>>
    BY <1>5 DEF Working, WorkerEnds, ThreadCloses, OrphanEnds
  <2>2. CASE UNCHANGED ledgerVars
    BY <2>1, <2>2 DEF ledgerVars, LeakInv, Reason, Has
  <2>3. CASE Release(r)
    <3>1. Elsewhere(r) /\ leases'[r] = None
      BY <2>3, ReleaseEffect DEF DeskInv
    <3> QED
      BY <2>1, <3>1, LeakElsewhere DEF Reason, Has
  <2> QED
    BY <1>5, <2>2, <2>3 DEF Working, WorkerEnds, ThreadCloses, OrphanEnds
<1>6. ASSUME NEW p \in Procs, SeesInterrupt(p) \/ Leave(p) \/ Rehydrated(p) \/ TakeOver(p)
      PROVE  LeakInv'
  <2>1. UNCHANGED <<leases, live, step, act>>
    BY <1>6 DEF SeesInterrupt, Leave, Rehydrated, TakeOver, ledgerVars
  <2>2. \A q \in Procs :
          \/ mode'[q] = mode[q] \/ mode'[q] \in {"stopping", "left"}
          \/ mode[q] \in {"out", "rehydrating", "driving"} /\ mode'[q] # "out"
    BY <1>6 DEF SeesInterrupt, Leave, Rehydrated, TakeOver, DeskInv
  <2> QED
    BY <1>1, <2>1, <2>2 DEF LeakInv, Reason, Has
<1>7. ASSUME NEW p \in Procs, Exit(p) PROVE LeakInv'
  <2>1. live' = live \ {p} /\ UNCHANGED <<leases, mode>>
    BY <1>7 DEF Exit, Ledger!Exit
  <2>2. \A q \in Procs \ {p}, i \in Parts : step'[q][i] = step[q][i] /\ act'[q][i] = act[q][i]
    BY <1>7 DEF Exit, DeskInv
  <2> QED
    BY <1>1, <2>1, <2>2 DEF LeakInv, Reason, Has
<1>8. CASE Tick \/ UNCHANGED vars
  BY <1>8 DEF Tick, Ledger!Tick, vars, LeakInv, Reason, Has
<1> QED
  BY <1>2, <1>3, <1>4, <1>5, <1>6, <1>7, <1>8 DEF Next, Dispatching, Following, Recovering

LEMMA LeakInit == Init => DeskInv /\ LeakInv
BY DEF Init, Ledger!Init, DeskInv, LedgerOK, Leases, LeakInv, Has

(* No lease outlives its use by a process that goes on: no failure between *)
(* admission and poll leaves one behind, also when the plan is taken from  *)
(* a driver that lives (provider_runner, coordinator/execution).           *)
THEOREM NoLeaseLeaks == Spec => []NothingLeaked
<1>1. DeskInv /\ LeakInv => NothingLeaked
  <2> SUFFICES ASSUME DeskInv, LeakInv, NEW r \in Parts, leases[r] # None, leases[r].owner \in live
      PROVE  Reason(r, leases[r].owner)
    BY DEF NothingLeaked, Reason
  <2> QED
    BY DEF LeakInv, Has
<1> QED
  BY <1>1, DeskStep, LeakInit, LeakStep, PTL DEF Spec

-----------------------------------------------------------------------------
(* While a plan changes hands only when its driver is dead, the process    *)
(* that ensures a lease is its owner.                                      *)
LEMMA EnsuredOwner ==
  ASSUME IInv, LeakInv, NEW p \in Procs, NEW r \in Parts, mode[p] # "out", EnsureReserved(p, r)
  PROVE  Elsewhere(r) /\ p \in live /\ Has(r, p)' /\ \A q \in Procs : Has(r, q)' => q = p
<1>1. /\ Elsewhere(r) /\ p \in live
      /\ Has(r, p)' \/ \E q \in live : Has(r, q) /\ Has(r, q)'
      /\ \A q \in Procs : Has(r, q)' => q = p \/ (q \in live /\ Has(r, q))
  BY EnsureEffect DEF IInv, TypeInv
<1>2. \A q \in live : Has(r, q) => q \in Procs /\ q = p
  BY <1>1 DEF LeakInv, Reason, IInv, TypeInv, LedgerOK, CrewInv, AloneInv, Crew
<1> QED
  BY <1>1, <1>2

LEMMA BoundOwner ==
  ASSUME IInv, LeakInv, NEW p \in Procs, NEW r \in Parts, mode[p] # "out", p \in live,
         Ledger!Bind(r, Engine, Account, r, clock)
  PROVE  Elsewhere(r) /\ Has(r, p)' /\ \A q \in Procs : Has(r, q)' => q = p
<1>1. Elsewhere(r) /\ \E q \in live : Has(r, q) /\ Has(r, q)'
  BY BindEffect DEF IInv, TypeInv
<1>2. \A q \in live : Has(r, q) => q \in Procs /\ q = p
  BY DEF LeakInv, Reason, IInv, TypeInv, LedgerOK, CrewInv, AloneInv, Crew
<1> QED
  BY <1>1, <1>2 DEF Has

LEMMA LedgerSteps ==
  ASSUME IInv, LeakInv, NEW p \in Procs, NEW r \in Parts,
         Admit(p, r) \/ Ensure(p, r) \/ Bind(p, r) \/ Adopt(p, r)
  PROVE  /\ Elsewhere(r) /\ Crew(p) /\ Has(r, p)' /\ (\A q \in Procs : Has(r, q)' => q = p)
         /\ UNCHANGED <<mode, att>>
         /\ \A q \in Procs, i \in Parts : q # p \/ i # r =>
              step'[q][i] = step[q][i] /\ act'[q][i] = act[q][i]
         /\ \/ step'[p][r] # "idle" /\ act'[p][r] = "none"
            \/ act'[p][r] = "recovered" /\ step'[p][r] = "idle"
<1>1. Crew(p)
  BY DEF Admit, Ensure, Bind, Adopt, ToRehydrate, EnsureReserved, Ledger!EnsureReserved, Crew, IInv,
     CrewInv, StepInv
<1>2. Elsewhere(r) /\ Has(r, p)' /\ \A q \in Procs : Has(r, q)' => q = p
  BY <1>1, EnsuredOwner, BoundOwner DEF Admit, Ensure, Bind, Adopt, Crew
<1>3. CASE Admit(p, r) \/ Ensure(p, r) \/ Bind(p, r)
  <2>1. part[r] = "pending"
    BY <1>3 DEF Admit, Ensure, Bind, IInv, CrewInv, StepInv
  <2>2. act[p][r] = "none"
    BY <2>1 DEF IInv, CrewInv, ActInv
  <2> QED
    BY <1>1, <1>2, <1>3, <2>2 DEF Admit, Ensure, Bind, IInv, TypeInv
<1>4. CASE Adopt(p, r)
  <2>1. step[p][r] = "idle"
    BY <1>4 DEF Adopt, ToRehydrate, IInv, CrewInv, StepInv
  <2> QED
    BY <1>1, <1>2, <1>4, <2>1 DEF Adopt, IInv, TypeInv
<1> QED
  BY <1>3, <1>4

(* A process that needs the lease of a part: it dispatches it, follows a   *)
(* worker it has adopted, or has a thread that waits for one.              *)
Needs(r, p) ==
  \/ step[p][r] # "idle"
  \/ act[p][r] = "recovered" /\ IsLive(r)
  \/ \E n \in DOMAIN att[r] : /\ att[r][n].host = p /\ att[r][n].thread = "working"
                              /\ att[r][n].status # "withdrawn"

HeldInv == clock <= MaxTime /\ \A p \in Procs, r \in Parts : Needs(r, p) => Has(r, p)

LEMMA NeedsCrew ==
  ASSUME IInv, NEW p \in Procs, NEW r \in Parts, Needs(r, p)
  PROVE  Crew(p) /\ p \in live
BY DEF Needs, Crew, IInv, CrewInv, StepInv, ActInv, ThreadInv, HostInv

LEMMA HeldElsewhere ==
  ASSUME MaxTime <= Ttl, IInv, HeldInv, NEW r \in Parts, Elsewhere(r),
         \A i \in Parts \ {r} : \A p \in Procs : Needs(i, p)' => Needs(i, p),
         \A p \in Procs : Needs(r, p)' => Has(r, p)'
  PROVE  HeldInv'
<1>1. clock <= Ttl /\ clock' <= MaxTime
  BY DispatchAssumption DEF HeldInv, Elsewhere, IInv, TypeInv, LedgerOK
<1>2. ASSUME NEW i \in Parts \ {r}, NEW p \in Procs, Needs(i, p)' PROVE Has(i, p)'
  BY <1>1, <1>2, NeedsCrew DEF Elsewhere, HeldInv
<1> QED
  BY <1>1, <1>2 DEF HeldInv

LEMMA HeldSame ==
  ASSUME HeldInv, UNCHANGED <<leases, clock>>,
         \A i \in Parts, p \in Procs : Needs(i, p)' => Needs(i, p)
  PROVE  HeldInv'
BY DEF HeldInv, Has

(* An attempt that only gets calmer needs nothing new.                     *)
LEMMA CalmerNeeds ==
  ASSUME IInv, NEW r \in Parts, NEW n \in DOMAIN att[r], NEW a, OnlyAt(r, n, a),
         Calmer(a, att[r][n]), live' = live, NEW i \in Parts, NEW p \in Procs,
         step'[p][i] = step[p][i], act'[p][i] \in {"none", act[p][i]}, Needs(i, p)'
  PROVE  Needs(i, p)
<1>1. \A m \in DOMAIN att[i] : Calmer(att'[i][m], att[i][m])
  BY DEF OnlyAt, Calmer
<1>2. DOMAIN att'[i] = DOMAIN att[i] /\ Len(att'[i]) = Len(att[i]) /\ (att'[i] = <<>> <=> att[i] = <<>>)
  BY DEF OnlyAt
<1>3. att[i] # <<>> => Len(att[i]) \in DOMAIN att[i]
  BY Attempts DEF IInv
<1>4. IsLive(i)' => IsLive(i)
  BY <1>1, <1>2, <1>3 DEF IsLive, Last, Calmer
<1> QED
  BY <1>1, <1>2, <1>4 DEF Needs, Calmer

(* Once a lease is released, nobody needs it.                              *)
LEMMA ReleasedUnneeded ==
  ASSUME IInv, NEW p \in Procs, NEW r \in Parts,
         \/ GiveUp(p, r) \/ SpawnRefused(p, r) \/ CancelRecovered(p, r)
         \/ Poll(p, r) \/ PollRecovered(p, r) \/ Settle(p, r)
  PROVE  /\ \A q \in Procs : ~Needs(r, q)'
         /\ \A i \in Parts \ {r} : \A q \in Procs : Needs(i, q)' => Needs(i, q)
<1>1. /\ live' = live
      /\ \A q \in Procs, i \in Parts : i # r => step'[q][i] = step[q][i] /\ act'[q][i] = act[q][i]
  BY ReleaseSteps, DeskLemma DEF Elsewhere
<1>2. CASE GiveUp(p, r)
  <2>1. /\ Crew(p) /\ part[r] = "pending" /\ att' = att /\ act' = act /\ step'[p][r] = "idle"
        /\ \A q \in Procs \ {p} : step'[q] = step[q]
    BY <1>2 DEF GiveUp, Crew, IInv, CrewInv, StepInv, TypeInv
  <2>2. \A q \in Procs : step'[q][r] = "idle" /\ act[q][r] = "none"
    BY <2>1, OneCrew DEF IInv, CrewInv, ActInv
  <2>3. \A n \in DOMAIN att[r] : att[r][n].thread \notin {"working", "closing"}
    BY <2>1 DEF IInv, CrewInv, ThreadInv
  <2> QED
    BY <1>1, <2>1, <2>2, <2>3 DEF Needs, IsLive, Last
<1>3. CASE SpawnRefused(p, r)
  <2>1. /\ Crew(p) /\ part[r] = "pending" /\ act' = act /\ step' = [step EXCEPT ![p][r] = "idle"]
        /\ att' = [att EXCEPT ![r] = Append(@, [host |-> p, thread |-> "working",
                                          status |-> "withdrawn", worker |-> TRUE])]
    BY <1>3 DEF SpawnRefused, Started, Crew, IInv, CrewInv, StepInv
  <2>2. \A q \in Procs : step'[q][r] = "idle" /\ act[q][r] = "none"
    BY <2>1, OneCrew DEF IInv, CrewInv, ActInv, TypeInv
  <2>3. \A n \in DOMAIN att[r] : att[r][n].thread \notin {"working", "closing"}
    BY <2>1 DEF IInv, CrewInv, ThreadInv
  <2>4. /\ \A i \in Parts \ {r} : att'[i] = att[i]
        /\ \A n \in DOMAIN att'[r] : att'[r][n].thread # "working" \/ att'[r][n].status = "withdrawn"
    <3>1. att[r] \in Seq(Attempt) /\ Len(att[r]) \in Nat /\ DOMAIN att[r] = 1..Len(att[r])
      BY Attempts DEF IInv
    <3>2. /\ att'[r] = Append(att[r], [host |-> p, thread |-> "working",
                                       status |-> "withdrawn", worker |-> TRUE])
          /\ \A i \in Parts \ {r} : att'[i] = att[i]
      BY <2>1 DEF IInv, TypeInv
    <3> QED
      BY <2>3, <3>1, <3>2
  <2> QED
    BY <1>1, <2>1, <2>2, <2>4 DEF Needs, IsLive, Last
<1>4. CASE Poll(p, r) \/ PollRecovered(p, r) \/ Settle(p, r)
  <2>1. /\ Crew(p) /\ part[r] = "running" /\ att' = att /\ step' = step
        /\ \A n \in DOMAIN att[r] : att[r][n].thread \notin {"working", "closing"}
    BY <1>4, OutcomeQuiet DEF Poll, PollRecovered, Settle
  <2>2. act'[p][r] = "none" /\ \A q \in Procs \ {p} : act'[q] = act[q]
    BY <1>4 DEF Poll, PollRecovered, Settle, ToRehydrate, IInv, TypeInv
  <2>3. \A q \in Procs : step[q][r] = "idle" /\ act'[q][r] = "none"
    BY <2>1, <2>2, OneCrew DEF IInv, CrewInv, StepInv
  <2> QED
    BY <1>1, <2>1, <2>3 DEF Needs, IsLive, Last
<1>5. CASE CancelRecovered(p, r)
  <2>1. /\ Crew(p) /\ part[r] = "running" /\ step' = step /\ act' = [act EXCEPT ![p][r] = "none"]
        /\ Last(r).host \notin live
    BY <1>5 DEF CancelRecovered, IInv, CrewInv, ActInv
  <2>2. \A q \in Procs : step[q][r] = "idle" /\ act'[q][r] = "none"
    BY <2>1, OneCrew DEF IInv, CrewInv, StepInv, TypeInv
  <2>3. \A n \in DOMAIN att[r] : att[r][n].thread # "working"
    BY <2>1 DEF IInv, CrewInv, ThreadInv, Last
  <2>4. PICK n \in DOMAIN att[r] : \E a \in Attempt : OnlyAt(r, n, a) /\ Calmer(a, att[r][n])
    BY <1>5, CancelAttempt DEF Last
  <2>5. \A i \in Parts \ {r} : \A q \in Procs : Needs(i, q)' => Needs(i, q)
    BY <1>1, <2>4, CalmerNeeds
  <2>6. \A m \in DOMAIN att'[r] : att'[r][m].thread # "working"
    BY <2>3, <2>4 DEF OnlyAt, Calmer
  <2> QED
    BY <2>1, <2>2, <2>5, <2>6 DEF Needs
<1> QED
  BY <1>2, <1>3, <1>4, <1>5

LEMMA HeldStep ==
  ASSUME Orderly, MaxTime <= Ttl
  PROVE  IInv /\ LeakInv /\ HeldInv /\ [Next]_vars => HeldInv'
<1> SUFFICES ASSUME IInv, LeakInv, HeldInv, [Next]_vars PROVE HeldInv'
  OBVIOUS
<1>1. ASSUME NEW p \in Procs, NEW r \in Parts,
             Admit(p, r) \/ Ensure(p, r) \/ Bind(p, r) \/ Adopt(p, r)
      PROVE  HeldInv'
  <2>1. /\ Elsewhere(r) /\ Crew(p) /\ Has(r, p)' /\ UNCHANGED <<mode, att>>
        /\ \A q \in Procs, i \in Parts : q # p \/ i # r =>
             step'[q][i] = step[q][i] /\ act'[q][i] = act[q][i]
    BY <1>1, LedgerSteps
  <2>2. \A q \in Procs, i \in Parts : (q # p \/ i # r) /\ Needs(i, q)' => Needs(i, q)
    BY <2>1 DEF Needs, IsLive, Last, Elsewhere
  <2>3. \A q \in Procs : Needs(r, q)' => Has(r, q)'
    BY <2>1, <2>2, NeedsCrew, OneCrew
  <2> QED
    BY <2>1, <2>2, <2>3, HeldElsewhere
<1>2. ASSUME NEW p \in Procs, NEW r \in Parts,
             \/ GiveUp(p, r) \/ SpawnRefused(p, r) \/ CancelRecovered(p, r)
             \/ Poll(p, r) \/ PollRecovered(p, r) \/ Settle(p, r)
      PROVE  HeldInv'
  BY <1>2, ReleaseSteps, DeskLemma, ReleasedUnneeded, HeldElsewhere
<1>3. ASSUME NEW p \in Procs, NEW r \in Parts, Spawn(p, r) PROVE HeldInv'
  <2>1. /\ step[p][r] = "bound" /\ p \in live /\ UNCHANGED <<leases, live, clock>>
        /\ step' = [step EXCEPT ![p][r] = "idle"] /\ act' = [act EXCEPT ![p][r] = "managed"]
        /\ att' = [att EXCEPT ![r] = Append(@, [host |-> p, thread |-> "working",
                                          status |-> "running", worker |-> TRUE])]
    BY <1>3 DEF Spawn, Started, ledgerVars
  <2>2. Crew(p) /\ Needs(r, p)
    BY <2>1 DEF Needs, Crew, IInv, CrewInv, StepInv
  <2>3. /\ att[r] \in Seq(Attempt) /\ Len(att[r]) \in Nat /\ DOMAIN att[r] = 1..Len(att[r])
    BY Attempts DEF IInv
  <2>4. /\ att'[r] = Append(att[r], [host |-> p, thread |-> "working",
                                     status |-> "running", worker |-> TRUE])
        /\ \A i \in Parts \ {r} : att'[i] = att[i]
    BY <2>1 DEF IInv, TypeInv
  <2>5. \A n \in DOMAIN att'[r] :
          \/ n \in DOMAIN att[r] /\ att'[r][n] = att[r][n]
          \/ att'[r][n].host = p
    BY <2>3, <2>4
  <2>6. /\ \A q \in Procs, i \in Parts : q # p \/ i # r =>
             step'[q][i] = step[q][i] /\ act'[q][i] = act[q][i]
        /\ step'[p][r] = "idle" /\ act'[p][r] = "managed"
    BY <2>1 DEF IInv, TypeInv
  <2>7. \A i \in Parts \ {r} : \A q \in Procs : Needs(i, q)' => Needs(i, q)
    BY <2>1, <2>4, <2>6 DEF Needs, IsLive, Last
  <2>8. \A q \in Procs : Needs(r, q)' => Needs(r, q) \/ q = p
    BY <2>2, <2>5, <2>6, OneCrew DEF Needs
  <2> QED
    BY <2>1, <2>2, <2>7, <2>8, HeldSame
<1>4. ASSUME NEW p \in Procs, NEW r \in Parts, CancelManaged(p, r) PROVE HeldInv'
  <2>1. UNCHANGED <<leases, live, clock, step>> /\ act' = [act EXCEPT ![p][r] = "none"]
    BY <1>4 DEF CancelManaged, ledgerVars
  <2>2. PICK n \in DOMAIN att[r] : \E a \in Attempt : OnlyAt(r, n, a) /\ Calmer(a, att[r][n])
    BY <1>4, CancelAttempt DEF Last
  <2>3. \A q \in Procs, i \in Parts : act'[q][i] \in {"none", act[q][i]}
    BY <2>1 DEF IInv, TypeInv
  <2>4. \A i \in Parts, q \in Procs : Needs(i, q)' => Needs(i, q)
    BY <2>1, <2>2, <2>3, CalmerNeeds
  <2> QED
    BY <2>1, <2>4, HeldSame
<1>5. ASSUME NEW r \in Parts, NEW n \in DOMAIN att[r], Working(r, n) PROVE HeldInv'
  <2>1. UNCHANGED <<step, act>>
    BY <1>5 DEF Working, WorkerEnds, ThreadCloses, OrphanEnds
  <2>2. PICK a \in Attempt : /\ OnlyAt(r, n, a) /\ Calmer(a, att[r][n])
                             /\ WorkerEnds(r, n) \/ ThreadCloses(r, n) => a.thread # "working"
    BY <1>5, WorkingAttempt
  <2>3. live' = live => \A i \in Parts, q \in Procs : Needs(i, q)' => Needs(i, q)
    BY <2>1, <2>2, CalmerNeeds
  <2>4. CASE UNCHANGED ledgerVars
    BY <2>3, <2>4, HeldSame DEF ledgerVars
  <2>5. CASE ThreadCloses(r, n) /\ Release(r)
    <3>1. Elsewhere(r) /\ live' = live
      BY <2>5, ReleaseEffect DEF Elsewhere, IInv, TypeInv
    <3>2. /\ n = Len(att[r]) /\ att[r][n].host \in live /\ part[r] \in {"running", "failed"}
          /\ \A m \in DOMAIN att[r] : att[r][m].thread = "working" => m = n
      BY <2>5 DEF ThreadCloses, IInv, CrewInv, ThreadInv
    <3>3. \A q \in Procs : step[q][r] = "idle" /\ act[q][r] # "recovered"
      BY <3>2 DEF IInv, CrewInv, StepInv, ActInv, Last
    <3>4. \A m \in DOMAIN att'[r] : att'[r][m].thread # "working"
      BY <2>2, <2>5, <3>2 DEF OnlyAt
    <3>5. \A q \in Procs : ~Needs(r, q)'
      BY <2>1, <3>3, <3>4 DEF Needs
    <3> QED
      BY <2>3, <3>1, <3>5, HeldElsewhere
  <2> QED
    BY <1>5, <2>4, <2>5 DEF Working, WorkerEnds, ThreadCloses, OrphanEnds
<1>6. ASSUME NEW p \in Procs, SeesInterrupt(p) \/ Leave(p) \/ TakeOver(p) \/ Rehydrated(p)
      PROVE  HeldInv'
  <2>1. UNCHANGED <<leases, live, clock, step, act, att>>
    BY <1>6 DEF SeesInterrupt, Leave, TakeOver, Rehydrated, ledgerVars
  <2> QED
    BY <2>1, HeldSame DEF Needs, IsLive, Last
<1>7. ASSUME NEW p \in Procs, Exit(p) PROVE HeldInv'
  <2>1. UNCHANGED <<leases, clock>>
    BY <1>7 DEF Exit, Ledger!Exit
  <2>2. \A q \in Procs, i \in Parts : ~Needs(i, q)'
    <3>1. Crew(p) /\ live' = live \ {p} /\ mode' = mode
      BY <1>7 DEF Exit, Ledger!Exit, Crew
    <3>2. \A q \in Procs : ~Crew(q)'
      BY <3>1, OneCrew DEF Crew
    <3>3. IInv'
      BY <1>7, ExitCrew
    <3>4. ASSUME NEW q \in Procs, NEW i \in Parts, IInv', Needs(i, q)' PROVE Crew(q)'
      BY <3>4 DEF Needs, Crew, IInv, CrewInv, StepInv, ActInv, ThreadInv, HostInv
    <3> QED
      BY <3>2, <3>3, <3>4
  <2> QED
    BY <2>1, <2>2, HeldSame
<1>8. CASE Tick
  <2>1. clock' <= MaxTime /\ UNCHANGED <<leases, live, step, act, att>>
    BY <1>8, DispatchAssumption DEF Tick, Ledger!Tick, IInv, TypeInv, LedgerOK
  <2> QED
    BY <2>1 DEF HeldInv, Needs, Has, IsLive, Last
<1>9. CASE UNCHANGED vars
  BY <1>9 DEF vars, HeldInv, Needs, Has, IsLive, Last
<1> QED
  BY <1>1, <1>2, <1>3, <1>4, <1>5, <1>6, <1>7, <1>8, <1>9
  DEF Next, Dispatching, Following, Recovering

LEMMA HeldInit == Init => HeldInv
<1> SUFFICES ASSUME Init PROVE HeldInv
  OBVIOUS
<1>1. clock = 0 /\ \A p \in Procs, r \in Parts : step[p][r] = "idle" /\ act[p][r] = "none"
  BY DEF Init, Ledger!Init
<1>2. \A r \in Parts : DOMAIN att[r] = {}
  BY DEF Init
<1> QED
  BY <1>1, <1>2, DispatchAssumption DEF HeldInv, Needs

(* A worker keeps its lease until its thread has seen it end, and one that *)
(* was adopted has a lease again: as long as a plan changes hands only     *)
(* when its driver is dead, and no lease grows older than the TTL          *)
(* (release_after_cancel, execute_run, admit_recovered).                   *)
THEOREM LeasesAreHeld == ASSUME Orderly, MaxTime <= Ttl PROVE Spec => []HeldUntilEnd
<1>1. IInv /\ HeldInv => HeldUntilEnd
  <2> SUFFICES ASSUME IInv, HeldInv, NEW r \in Parts, leases[r] = None
               PROVE  /\ \A n \in DOMAIN att[r] :
                           att[r][n].thread = "working" => att[r][n].status = "withdrawn"
                      /\ IsLive(r) => \A p \in live : act[p][r] # "recovered"
    BY DEF HeldUntilEnd
  <2>1. \A p \in Procs : ~Needs(r, p)
    BY DEF HeldInv, Has
  <2>2. live \subseteq Procs /\ \A n \in DOMAIN att[r] : att[r][n].host \in Procs
    BY Attempts DEF IInv, TypeInv, LedgerOK
  <2> QED
    BY <2>1, <2>2 DEF Needs
<1> QED
  BY <1>1, CrewInit, CrewStep, DeskLemma, LeakInit, LeakStep, HeldInit, HeldStep, PTL DEF Spec
=============================================================================
