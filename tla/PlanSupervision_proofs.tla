----------------------- MODULE PlanSupervision_proofs -----------------------
(***************************************************************************)
(* Proofs about PlanSupervision, for any number of processes and parts. As *)
(* long as no process is slower than its lease, at most one process works  *)
(* under the lease of the plan, no running worker is forgotten, none is    *)
(* doubled, and a part is done only if a worker has done it.               *)
(***************************************************************************)
EXTENDS PlanSupervision, FiniteSetTheorems, TLAPS

(* A launch is under way only in the dispatch loop, of a pending part.     *)
LaunchInv ==
  \A s \in Procs : launching[s] # None =>
    pc[s] = "dispatch" /\ mem[s][launching[s]] = "pending"

(* A process that has not begun drives nothing.                            *)
FreshInv == \A s \in Procs : pc[s] = "new" => act[s] = {}

(* Whoever works under the lease has it.                                   *)
DriversOwn == \A s \in Drivers : rec.live /\ rec.owner = s

TypeInv == TypeOK /\ LaunchInv /\ FreshInv

-----------------------------------------------------------------------------
LEMMA InitInv == Init => TypeInv /\ DriversOwn
<1> SUFFICES ASSUME Init PROVE TypeInv /\ DriversOwn
  OBVIOUS
<1> USE SupervisionAssumption
<1>1. PICK starter \in Procs : pc = [s \in Procs |-> IF s = starter THEN "ready" ELSE "new"]
  BY DEF Init
<1>2. rec \in Record
  BY DEF Init, Record, PartState
<1>3. /\ pc \in [Procs -> Pc] /\ mem \in [Procs -> [Parts -> PartState]]
      /\ act \in [Procs -> SUBSET Parts] /\ \A s \in Procs : act[s] = {}
  BY <1>1 DEF Init, Pc, PartState
<1>4. /\ launching \in [Procs -> Parts \cup {None}] /\ \A s \in Procs : launching[s] = None
      /\ run \in [Parts -> Run] /\ host \in [Parts -> Procs \cup {None}]
      /\ unrecorded \in SUBSET Parts /\ op \in {"none", "loaded", "marked"}
      /\ interrupts \in Nat
  BY DEF Init, Run
<1>5. Drivers = {}
  BY <1>1 DEF Drivers
<1> QED
  BY <1>2, <1>3, <1>4, <1>5 DEF TypeInv, TypeOK, LaunchInv, FreshInv, DriversOwn

(* A process moves, and nothing but its place and the record changes.      *)
LEMMA JustMoves ==
  ASSUME TypeInv, NEW s \in Procs, NEW to \in Pc \ {"new"}, Goes(s, to),
         launching[s] = None, rec' \in Record,
         UNCHANGED <<mem, act, launching, run, host, unrecorded, op, interrupts>>
  PROVE  TypeInv'
BY DEF TypeInv, TypeOK, LaunchInv, FreshInv, Goes

LEMMA OnlyInDispatch ==
  ASSUME TypeInv, NEW s \in Procs, pc[s] # "dispatch"
  PROVE  launching[s] = None
BY DEF TypeInv, LaunchInv

LEMMA OwnedRecord ==
  ASSUME TypeInv, NEW s \in Procs
  PROVE  /\ Owned(s) \in Record /\ [Owned(s) EXCEPT !.status = "running"] \in Record
         /\ Owned(s).live /\ Owned(s).owner = s
         /\ [Owned(s) EXCEPT !.status = "running"].live
         /\ [Owned(s) EXCEPT !.status = "running"].owner = s
BY DEF TypeInv, TypeOK, Owned, Record

(* The copy a rehydrating process ends with, and what it makes of the      *)
(* record.                                                                 *)
LEMMA RehydrateTypes ==
  ASSUME TypeInv, NEW s \in Procs, NEW m \in [Parts -> PartState], RehydrateFrom(s, m)
  PROVE  /\ mem' \in [Procs -> [Parts -> PartState]] /\ act' \in [Procs -> SUBSET Parts]
         /\ \A t \in Procs : \A p \in act'[t] : mem'[t][p] = "running"
         /\ \A t \in Procs \ {s} : mem'[t] = mem[t] /\ act'[t] = act[t]
         /\ rec' \in Record /\ rec'.live = rec.live /\ rec'.owner = rec.owner
         /\ UNCHANGED <<launching, run, host, unrecorded, op, interrupts>>
<1> DEFINE found == Running(rec.part)
           fixed == [p \in Parts |-> IF p \in found THEN After(p) ELSE m[p]]
<1>1. \A p \in Parts : After(p) \in PartState
  BY DEF After, PartState, Inspected, TypeInv, TypeOK, Run
<1>2. fixed \in [Parts -> PartState]
  BY <1>1
<1>3. \A p \in found : p \in Parts /\ (Inspected(p) = "live" => fixed[p] = "running")
  BY DEF Running, After
<1>4. /\ mem' = [mem EXCEPT ![s] = fixed]
      /\ act' = [act EXCEPT ![s] = {p \in found : Inspected(p) = "live"}]
      /\ rec' = [rec EXCEPT !.part = fixed]
      /\ UNCHANGED <<launching, run, host, unrecorded, op, interrupts>>
  BY DEF RehydrateFrom, runVars, opVars
<1> HIDE DEF found, fixed
<1> QED
  BY <1>2, <1>3, <1>4 DEF TypeInv, TypeOK, Record

LEMMA AttachTypes ==
  ASSUME TypeInv, NEW s \in Procs,
         AttachLoad(s) \/ AttachGate(s) \/ AttachAcquire(s) \/ Recover(s)
  PROVE  TypeInv'
<1>1. launching[s] = None
  BY OnlyInDispatch DEF AttachLoad, AttachGate, AttachAcquire, Recover
<1>2. CASE AttachLoad(s)
  BY <1>1, <1>2 DEF AttachLoad, Goes, TypeInv, TypeOK, LaunchInv, FreshInv, Record, Pc,
     runVars, opVars
<1>3. CASE AttachGate(s)
  <2>1. PICK to \in {"acquire", "ready"} : Goes(s, to)
    BY <1>3 DEF AttachGate
  <2> QED
    BY <1>1, <1>3, <2>1, JustMoves DEF AttachGate, Pc, TypeInv, TypeOK, runVars, opVars
<1>4. CASE AttachAcquire(s)
  BY <1>1, <1>4, JustMoves, OwnedRecord DEF AttachAcquire, Pc, runVars, opVars
<1>5. CASE Recover(s)
  <2>1. PICK to \in {"recovering", "gone"} : Goes(s, to) /\ rec' \in Record
    BY <1>5, OwnedRecord DEF Recover
  <2> QED
    BY <1>1, <1>5, <2>1, JustMoves DEF Recover, Pc, runVars, opVars
<1> QED
  BY <1>2, <1>3, <1>4, <1>5

LEMMA RehydrationTypes ==
  ASSUME TypeInv, NEW s \in Procs, AttachRehydrate(s) \/ RecoverRehydrate(s)
  PROVE  TypeInv'
<1>1. launching[s] = None /\ pc[s] # "new"
  BY OnlyInDispatch DEF AttachRehydrate, RecoverRehydrate
<1>2. PICK m \in [Parts -> PartState] : RehydrateFrom(s, m)
  BY DEF AttachRehydrate, RecoverRehydrate, TypeInv, TypeOK, Record
<1>3. PICK to \in {"persist", "persistLast"} : Goes(s, to)
  BY DEF AttachRehydrate, RecoverRehydrate
<1>4. /\ mem' \in [Procs -> [Parts -> PartState]] /\ act' \in [Procs -> SUBSET Parts]
      /\ \A t \in Procs : \A p \in act'[t] : mem'[t][p] = "running"
      /\ \A t \in Procs \ {s} : mem'[t] = mem[t] /\ act'[t] = act[t]
      /\ rec' \in Record
      /\ UNCHANGED <<launching, run, host, unrecorded, op, interrupts>>
  BY <1>2, RehydrateTypes
<1>5. pc' \in [Procs -> Pc] /\ pc'[s] # "new" /\ \A t \in Procs \ {s} : pc'[t] = pc[t]
  BY <1>3 DEF Goes, TypeInv, TypeOK, Pc
<1>6. TypeOK'
  BY <1>4, <1>5 DEF TypeInv, TypeOK
<1>7. LaunchInv'
  BY <1>1, <1>4, <1>5 DEF TypeInv, LaunchInv
<1>8. FreshInv'
  BY <1>4, <1>5 DEF TypeInv, FreshInv
<1> QED
  BY <1>6, <1>7, <1>8 DEF TypeInv

(* Writing one field of the record leaves a record.                        *)
LEMMA RecordWrites ==
  ASSUME rec \in Record
  PROVE  /\ \A parts \in [Parts -> PartState] : [rec EXCEPT !.part = parts] \in Record
         /\ \A status \in {"running", "done", "failed", "interrupted"} :
              [rec EXCEPT !.status = status] \in Record
         /\ \A live \in BOOLEAN : [rec EXCEPT !.live = live] \in Record
  BY DEF Record

LEMMA RecordingTypes ==
  ASSUME TypeInv, NEW s \in Procs, Persist(s) \/ End(s) \/ Release(s)
  PROVE  TypeInv'
<1>1. launching[s] = None
  BY OnlyInDispatch DEF Persist, End, Release
<1>2. rec' \in Record
  <2>0. rec \in Record /\ mem[s] \in [Parts -> PartState]
    BY DEF TypeInv, TypeOK
  <2>1. CASE Persist(s)
    <3>1. rec' = [rec EXCEPT !.part = mem[s]]
      BY <2>1 DEF Persist
    <3> QED
      BY <2>0, <3>1, RecordWrites
  <2>2. CASE End(s)
    <3>1. rec' = [rec EXCEPT !.status = "done"] \/ rec' = [rec EXCEPT !.status = "failed"]
      BY <2>2 DEF End
    <3> QED
      BY <2>0, <3>1, RecordWrites
  <2>3. CASE Release(s)
    <3>1. rec' = [rec EXCEPT !.live = FALSE] \/ rec' = rec
      BY <2>3 DEF Release
    <3> QED
      BY <2>0, <3>1, RecordWrites
  <2> QED
    BY <2>1, <2>2, <2>3
<1>3. PICK to \in {"ending", "idle", "gone", "releasing"} : Goes(s, to)
  BY DEF Persist, End, Release
<1>4. UNCHANGED <<mem, act, launching, run, host, unrecorded, op, interrupts>>
  BY DEF Persist, End, Release, runVars, opVars
<1>5. to \in Pc \ {"new"}
  BY <1>3 DEF Pc
<1> QED
  BY <1>1, <1>2, <1>3, <1>4, <1>5, JustMoves

LEMMA TickTypes ==
  ASSUME TypeInv, NEW s \in Procs,
         TickBegin(s) \/ TickInterrupted(s) \/ StopDispatch(s) \/ Poll(s)
  PROVE  TypeInv'
<1>1. CASE TickBegin(s)
  BY <1>1, OnlyInDispatch, JustMoves, OwnedRecord DEF TickBegin, Pc, runVars, opVars
<1>2. CASE TickInterrupted(s)
  <2>1. launching[s] = None
    BY <1>2, OnlyInDispatch DEF TickInterrupted
  <2>2. rec' \in Record
    <3>1. rec' = [rec EXCEPT !.live = FALSE] \/ rec' = rec
      BY <1>2 DEF TickInterrupted
    <3> QED
      BY <3>1, RecordWrites DEF TypeInv, TypeOK
  <2>4. run' \in [Parts -> Run]
    <3> DEFINE alive == {p \in act[s] : run[p] = "live"}
               own == {p \in alive : host[p] = s}
    <3>1. PICK stubborn \in SUBSET (alive \ own) :
            run' = [p \in Parts |-> IF p \in own THEN "cancelled"
                                     ELSE IF p \in alive \ stubborn THEN "lost" ELSE run[p]]
      BY <1>2 DEF TickInterrupted
    <3> HIDE DEF alive, own
    <3> QED
      BY <3>1 DEF TypeInv, TypeOK, Run
  <2>3. /\ Goes(s, "gone") /\ act' = [act EXCEPT ![s] = {}]
        /\ UNCHANGED <<mem, launching, host, unrecorded, op, interrupts>>
    BY <1>2 DEF TickInterrupted, opVars
  <2> QED
    BY <2>1, <2>2, <2>3, <2>4 DEF Goes, TypeInv, TypeOK, LaunchInv, FreshInv, Pc
<1>3. CASE StopDispatch(s)
  BY <1>3, JustMoves DEF StopDispatch, Pc, TypeInv, TypeOK, runVars, opVars
<1>4. CASE Poll(s)
  <2> DEFINE ended == {p \in act[s] : HasEnded(s, p)}
  <2>1. launching[s] = None
    BY <1>4, OnlyInDispatch DEF Poll
  <2>2. PICK last \in SUBSET {p \in ended : After(p) = "pending"} :
          mem' = [mem EXCEPT ![s] = [p \in Parts |->
                    IF p \in last THEN "failed"
                    ELSE IF p \in ended THEN After(p) ELSE mem[s][p]]]
    BY <1>4 DEF Poll
  <2>3. /\ Goes(s, "persist") /\ act' = [act EXCEPT ![s] = @ \ ended]
        /\ UNCHANGED <<rec, launching, run, host, unrecorded, op, interrupts>>
    BY <1>4 DEF Poll, runVars, opVars
  <2>4. \A p \in Parts : After(p) \in PartState
    BY DEF After, PartState, Inspected, TypeInv, TypeOK, Run
  <2>5. last \subseteq ended
    OBVIOUS
  <2> HIDE DEF ended
  <2>6. mem' \in [Procs -> [Parts -> PartState]]
    BY <2>2, <2>4 DEF TypeInv, TypeOK, PartState
  <2> QED
    BY <1>4, <2>1, <2>2, <2>3, <2>5, <2>6
    DEF Poll, Goes, TypeInv, TypeOK, LaunchInv, FreshInv, Pc
<1> QED
  BY <1>1, <1>2, <1>3, <1>4

LEMMA DispatchTypes ==
  ASSUME TypeInv, NEW s \in Procs,
         \/ RecordLaunch(s) \/ LaunchRefused(s) \/ Exit(s)
         \/ \E p \in Parts : Dispatch(s, p) \/ PartFails(s, p)
  PROVE  TypeInv'
<1> USE SupervisionAssumption
<1>1. CASE RecordLaunch(s)
  <2> DEFINE p == launching[s]
  <2>1. p \in Parts /\ pc[s] = "dispatch" /\ mem[s][p] = "pending"
    BY <1>1 DEF RecordLaunch, TypeInv, TypeOK, LaunchInv
  <2>2. rec' \in Record
    BY <1>1, <2>1 DEF RecordLaunch, TypeInv, TypeOK, Record, PartState
  <2>3. /\ mem' = [mem EXCEPT ![s][p] = "running"]
        /\ act' = [act EXCEPT ![s] = @ \cup {p}]
        /\ launching' = [launching EXCEPT ![s] = None]
        /\ UNCHANGED <<pc, run, host, unrecorded, op, interrupts>>
    BY <1>1 DEF RecordLaunch, runVars, opVars
  <2> HIDE DEF p
  <2> QED
    BY <2>1, <2>2, <2>3 DEF TypeInv, TypeOK, LaunchInv, FreshInv, PartState
<1>2. CASE LaunchRefused(s)
  <2> DEFINE p == launching[s]
  <2>1. p \in Parts /\ pc[s] = "dispatch" /\ mem[s][p] = "pending" /\ p \notin act[s]
    BY <1>2 DEF LaunchRefused, TypeInv, TypeOK, LaunchInv
  <2>2. rec' \in Record
    <3>1. \/ rec' = rec \/ rec' = [rec EXCEPT !.part[p] = "failed"]
          \/ rec' = [rec EXCEPT !.part[p] = "running"]
      BY <1>2 DEF LaunchRefused
    <3>2. CASE rec' = rec
      BY <3>2 DEF TypeInv, TypeOK
    <3>3. CASE rec' = [rec EXCEPT !.part[p] = "failed"]
      BY <2>1, <3>3 DEF TypeInv, TypeOK, Record, PartState
    <3>4. CASE rec' = [rec EXCEPT !.part[p] = "running"]
      BY <2>1, <3>4 DEF TypeInv, TypeOK, Record, PartState
    <3> QED
      BY <3>1, <3>2, <3>3, <3>4
  <2>4. run' \in [Parts -> Run] /\ unrecorded' \in SUBSET Parts
    <3>1. /\ run' = [run EXCEPT ![p] = IF @ = "live" THEN "cancelled" ELSE @]
          /\ unrecorded' \in {unrecorded, unrecorded \cup {p}}
      BY <1>2 DEF LaunchRefused
    <3> HIDE DEF p
    <3> QED
      BY <2>1, <3>1 DEF TypeInv, TypeOK, Run
  <2>3. /\ mem' = [mem EXCEPT ![s][p] = "failed"]
        /\ launching' = [launching EXCEPT ![s] = None]
        /\ UNCHANGED <<pc, act, host, op, interrupts>>
    BY <1>2 DEF LaunchRefused, opVars
  <2> HIDE DEF p
  <2> QED
    BY <2>1, <2>2, <2>3, <2>4 DEF TypeInv, TypeOK, LaunchInv, FreshInv, PartState
<1>3. CASE Exit(s)
  <2>1. unrecorded' \in SUBSET Parts
    BY <1>3 DEF Exit, TypeInv, TypeOK
  <2>2. /\ pc[s] # "new" /\ Goes(s, "gone")
        /\ act' = [act EXCEPT ![s] = {}] /\ launching' = [launching EXCEPT ![s] = None]
        /\ UNCHANGED <<rec, mem, run, host, op, interrupts>>
    BY <1>3 DEF Exit, opVars
  <2> QED
    BY <2>1, <2>2 DEF Goes, TypeInv, TypeOK, LaunchInv, FreshInv, Pc
<1>4. ASSUME NEW p \in Parts, Dispatch(s, p) PROVE TypeInv'
  BY <1>4 DEF Dispatch, TypeInv, TypeOK, LaunchInv, FreshInv, Run, opVars
<1>5. ASSUME NEW p \in Parts, PartFails(s, p) PROVE TypeInv'
  <2>1. rec' \in Record
    BY <1>5 DEF PartFails, TypeInv, TypeOK, Record, PartState
  <2>2. p \notin act[s]
    BY <1>5 DEF PartFails, TypeInv, TypeOK
  <2> QED
    BY <1>5, <2>1, <2>2 DEF PartFails, TypeInv, TypeOK, LaunchInv, FreshInv, PartState, runVars, opVars
<1> QED
  BY <1>1, <1>2, <1>3, <1>4, <1>5

LEMMA EnvironmentTypes ==
  ASSUME TypeInv,
         \/ \E p \in Parts : RunEnds(p)
         \/ LeaseExpires \/ InterruptLoad \/ InterruptMark \/ InterruptCancel
  PROVE  TypeInv'
<1> SUFFICES /\ UNCHANGED <<pc, mem, act, launching, host, unrecorded>>
             /\ rec' \in Record /\ run' \in [Parts -> Run]
             /\ op' \in {"none", "loaded", "marked"} /\ interrupts' \in Nat
  BY DEF TypeInv, TypeOK, LaunchInv, FreshInv
<1>1. ASSUME NEW p \in Parts, RunEnds(p) PROVE run' \in [Parts -> Run]
  BY <1>1 DEF RunEnds, TypeInv, TypeOK, Run
<1>2. CASE InterruptCancel
  <2>1. run' \in [Parts -> Run]
    BY <1>2 DEF InterruptCancel, TypeInv, TypeOK, Run
  <2> QED
    BY <1>2, <2>1 DEF InterruptCancel, TypeInv, TypeOK
<1>3. ASSUME NEW p \in Parts, RunEnds(p)
      PROVE  /\ UNCHANGED <<rec, pc, mem, act, launching, host, unrecorded, op, interrupts>>
             /\ run' \in [Parts -> Run]
  BY <1>1, <1>3 DEF RunEnds, opVars
<1>4. CASE LeaseExpires
  BY <1>4 DEF LeaseExpires, TypeInv, TypeOK, Record, runVars, opVars
<1>5. CASE InterruptLoad
  BY <1>5 DEF InterruptLoad, TypeInv, TypeOK, runVars
<1>6. CASE InterruptMark
  BY <1>6 DEF InterruptMark, TypeInv, TypeOK, Record, runVars
<1> QED
  BY <1>2, <1>3, <1>4, <1>5, <1>6 DEF TypeInv, TypeOK

LEMMA TypeStep == TypeInv /\ [Next]_vars => TypeInv'
<1> SUFFICES ASSUME TypeInv, [Next]_vars PROVE TypeInv'
  OBVIOUS
<1>1. CASE UNCHANGED vars
  BY <1>1 DEF vars, TypeInv, TypeOK, LaunchInv, FreshInv
<1> QED
  BY <1>1, AttachTypes, RehydrationTypes, RecordingTypes, TickTypes, DispatchTypes,
     EnvironmentTypes DEF Next

(* The record, the copies of the processes and the runs keep their types,  *)
(* and a process never has a part in its active table that it does not     *)
(* hold as running (scheduler/service, runtime/coordinator/model.rs).      *)
THEOREM TypeCorrect == Spec => []TypeOK
<1>1. Init => TypeInv
  BY InitInv
<1>2. TypeInv => TypeOK
  BY DEF TypeInv
<1> QED
  BY <1>1, <1>2, TypeStep, PTL DEF Spec

-----------------------------------------------------------------------------
LEMMA DriverChanges ==
  ASSUME NEW s \in Procs, NEW to, Goes(s, to), pc \in [Procs -> Pc]
  PROVE  Drivers' \subseteq Drivers \cup {s}
BY DEF Drivers, Goes

(* A step that keeps lease and drivers, or that ends a driver.             *)
LEMMA LeaseKept ==
  ASSUME DriversOwn, Drivers' \subseteq Drivers, rec'.live = rec.live, rec'.owner = rec.owner
  PROVE  DriversOwn'
BY DEF DriversOwn

(* A process that finds the lease free and takes it is the only driver.    *)
LEMMA LeaseTaken ==
  ASSUME DriversOwn, NEW s \in Procs, LeaseFree(s), Drivers' \subseteq Drivers \cup {s},
         rec'.live, rec'.owner = s
  PROVE  DriversOwn'
BY DEF DriversOwn, LeaseFree

(* A process that gives its lease back no longer drives.                   *)
LEMMA LeaseReturned ==
  ASSUME DriversOwn, NEW s \in Procs, Drivers' \subseteq Drivers \ {s},
         \/ rec'.live = rec.live /\ rec'.owner = rec.owner
         \/ rec.owner = s
  PROVE  DriversOwn'
BY DEF DriversOwn

(* One step keeps the drivers in possession of the lease, as long as no    *)
(* lease of a live process expires.                                        *)
LEMMA OwnershipStep ==
  ASSUME Timely
  PROVE  TypeInv /\ DriversOwn /\ [Next]_vars => DriversOwn'
<1> SUFFICES ASSUME TypeInv, DriversOwn, [Next]_vars PROVE DriversOwn'
  OBVIOUS
<1> USE SupervisionAssumption
<1>0. pc \in [Procs -> Pc] /\ rec \in Record
  BY DEF TypeInv, TypeOK
<1>1. ASSUME NEW s \in Procs, AttachLoad(s) \/ AttachGate(s) PROVE DriversOwn'
  <2>1. Drivers' \subseteq Drivers /\ rec' = rec
    BY <1>0, <1>1 DEF AttachLoad, AttachGate, Goes, Drivers
  <2> QED
    BY <2>1, LeaseKept
<1>2. ASSUME NEW s \in Procs, AttachAcquire(s) \/ TickBegin(s) \/ Recover(s) PROVE DriversOwn'
  <2>1. LeaseFree(s) /\ rec'.live /\ rec'.owner = s
    BY <1>2, OwnedRecord DEF AttachAcquire, TickBegin, Recover
  <2>2. Drivers' \subseteq Drivers \cup {s}
    BY <1>0, <1>2 DEF AttachAcquire, TickBegin, Recover, Goes, Drivers
  <2> QED
    BY <2>1, <2>2, LeaseTaken
<1>3. ASSUME NEW s \in Procs, AttachRehydrate(s) \/ RecoverRehydrate(s) PROVE DriversOwn'
  <2>1. s \in Drivers
    BY <1>3 DEF AttachRehydrate, RecoverRehydrate, Drivers
  <2>2. Drivers' \subseteq Drivers \cup {s}
    BY <1>0, <1>3 DEF AttachRehydrate, RecoverRehydrate, Goes, Drivers
  <2>3. PICK m : RehydrateFrom(s, m)
    BY <1>3 DEF AttachRehydrate, RecoverRehydrate
  <2>4. rec'.live = rec.live /\ rec'.owner = rec.owner
    BY <1>0, <2>3 DEF RehydrateFrom, Record
  <2> QED
    BY <2>1, <2>2, <2>4, LeaseKept
<1>4. ASSUME NEW s \in Procs, Persist(s) \/ End(s) PROVE DriversOwn'
  <2>1. Drivers' \subseteq Drivers
    BY <1>0, <1>4 DEF Persist, End, Goes, Drivers
  <2>2. rec'.live = rec.live /\ rec'.owner = rec.owner
    BY <1>0, <1>4 DEF Persist, End, Record
  <2> QED
    BY <2>1, <2>2, LeaseKept
<1>5. ASSUME NEW s \in Procs, Release(s) \/ TickInterrupted(s) PROVE DriversOwn'
  <2>1. Drivers' \subseteq Drivers \ {s}
    BY <1>0, <1>5 DEF Release, TickInterrupted, Goes, Drivers
  <2>2. rec' = rec \/ rec.owner = s
    BY <1>5 DEF Release, TickInterrupted
  <2> QED
    BY <2>1, <2>2, LeaseReturned
<1>6. ASSUME NEW s \in Procs, StopDispatch(s) \/ Poll(s) \/ Exit(s) PROVE DriversOwn'
  <2>1. Drivers' \subseteq Drivers /\ rec' = rec
    BY <1>0, <1>6 DEF StopDispatch, Poll, Exit, Goes, Drivers
  <2> QED
    BY <2>1, LeaseKept
<1>7. ASSUME NEW s \in Procs,
             \/ RecordLaunch(s) \/ LaunchRefused(s)
             \/ \E p \in Parts : Dispatch(s, p) \/ PartFails(s, p)
      PROVE  DriversOwn'
  <2>1. pc' = pc
    BY <1>7 DEF RecordLaunch, LaunchRefused, Dispatch, PartFails
  <2>2. \/ rec' = rec
        \/ \E p \in Parts \cup {None}, st \in PartState : rec' = [rec EXCEPT !.part[p] = st]
    BY <1>7 DEF RecordLaunch, LaunchRefused, Dispatch, PartFails, TypeInv, TypeOK, PartState
  <2>3. rec'.live = rec.live /\ rec'.owner = rec.owner
    BY <1>0, <2>2 DEF Record
  <2> QED
    BY <2>1, <2>3, LeaseKept DEF Drivers
<1>8. CASE LeaseExpires
  <2>1. pc' = pc /\ rec.live /\ pc[rec.owner] = "gone"
    BY <1>8 DEF LeaseExpires
  <2>2. Drivers = {}
    BY <2>1 DEF DriversOwn, Drivers
  <2> QED
    BY <2>1, <2>2 DEF DriversOwn, Drivers
<1>9. CASE \/ \E p \in Parts : RunEnds(p)
           \/ InterruptLoad \/ InterruptMark \/ InterruptCancel
  <2>1. pc' = pc
    BY <1>9 DEF RunEnds, InterruptLoad, InterruptMark, InterruptCancel
  <2>2. rec'.live = rec.live /\ rec'.owner = rec.owner
    BY <1>0, <1>9 DEF RunEnds, InterruptLoad, InterruptMark, InterruptCancel, Record
  <2> QED
    BY <2>1, <2>2, LeaseKept DEF Drivers
<1>10. CASE UNCHANGED vars
  BY <1>10, LeaseKept DEF vars, Drivers
<1> QED
  BY <1>1, <1>2, <1>3, <1>4, <1>5, <1>6, <1>7, <1>8, <1>9, <1>10 DEF Next

(* As long as no process is slower than its lease, at most one process     *)
(* works on the plan, whatever crashes, attaches, recovers or interrupts   *)
(* (acquire_supervisor and save_owned, scheduler/persistence/store.rs).    *)
THEOREM SingleDriver == ASSUME Timely PROVE Spec => []OneDriver
<1>1. TypeInv /\ DriversOwn => OneDriver
  <2> SUFFICES ASSUME DriversOwn PROVE OneDriver
    OBVIOUS
  <2>1. Drivers = {} \/ Drivers = {rec.owner}
    BY DEF DriversOwn
  <2>2. Cardinality({}) = 0 /\ Cardinality({rec.owner}) = 1
    BY FS_EmptySet, FS_Singleton
  <2> QED
    BY <2>1, <2>2 DEF OneDriver
<1> QED
  BY <1>1, InitInv, TypeStep, OwnershipStep, PTL DEF Spec

-----------------------------------------------------------------------------
(* A process that has not driven since it read the record: it cannot have  *)
(* the lease, and it follows no worker.                                    *)
Early(s) == pc[s] \in {"new", "loaded", "acquire", "ready"}

EarlyInv == \A s \in Procs : Early(s) => rec.owner # s /\ act[s] = {}

(* A process that ends the plan has nothing left to run, and has said so.  *)
EndInv ==
  \A s \in Procs :
    /\ pc[s] \in {"ending", "releasing"} => Finished(mem[s]) /\ Finished(rec.part)
    /\ pc[s] = "releasing" => rec.status # "running"

(* A running worker that the record knows of.                              *)
Recorded(p) ==
  /\ run[p] = "live" /\ rec.part[p] = "running" /\ p \notin unrecorded
  /\ \A s \in Procs : launching[s] # p

(* Whoever drives, and has looked at the workers, follows all of these.    *)
FollowInv ==
  \A s \in Drivers : pc[s] \notin {"rehydrate", "recovering"} =>
    \A p \in Parts : Recorded(p) => p \in act[s]

(* A tick that takes the lease without looking at the workers finds none.  *)
QuietInv ==
  (\/ rec.status \in {"done", "failed"}
   \/ rec.status = "running" /\ ~rec.live /\ \E s \in Procs : pc[s] = "ready")
  => \A p \in Parts : ~Recorded(p)

WorkInv == EarlyInv /\ EndInv /\ WorkerAccounted /\ FollowInv /\ QuietInv

(* What is known of the processes before the workers are looked at.        *)
OwnInv == TypeInv /\ DriversOwn

LEMMA WorkInit == Init => WorkInv
<1> SUFFICES ASSUME Init PROVE WorkInv
  OBVIOUS
<1> USE SupervisionAssumption
<1>1. PICK starter \in Procs : pc = [s \in Procs |-> IF s = starter THEN "ready" ELSE "new"]
  BY DEF Init
<1>2. \A s \in Procs : pc[s] \in {"ready", "new"} /\ act[s] = {} /\ rec.owner # s
  BY <1>1 DEF Init
<1>3. \A p \in Parts : run[p] = "none"
  BY DEF Init
<1> QED
  BY <1>2, <1>3 DEF WorkInv, EarlyInv, EndInv, WorkerAccounted, FollowInv, QuietInv, Recorded,
     Drivers

LEMMA Alone ==
  ASSUME OwnInv, NEW s \in Drivers
  PROVE  /\ s \in Procs /\ rec.live /\ rec.owner = s
         /\ \A t \in Procs \ {s} : t \notin Drivers /\ launching[t] = None
BY DEF OwnInv, TypeInv, LaunchInv, DriversOwn, Drivers

LEMMA NobodyDrives ==
  ASSUME OwnInv, NEW s \in Procs, LeaseFree(s), s \notin Drivers
  PROVE  Drivers = {} /\ \A t \in Procs : launching[t] = None
BY DEF OwnInv, TypeInv, LaunchInv, DriversOwn, Drivers, LeaseFree

LEMMA MoveOf ==
  ASSUME OwnInv, NEW s \in Procs, NEW to, Goes(s, to)
  PROVE  pc'[s] = to /\ \A t \in Procs \ {s} : pc'[t] = pc[t]
BY DEF OwnInv, TypeInv, TypeOK, Goes

LEMMA AttachWork ==
  ASSUME OwnInv, WorkInv, NEW s \in Procs, AttachLoad(s) \/ AttachGate(s)
  PROVE  WorkInv'
<1>1. /\ Early(s) /\ \A t \in Procs \ {s} : mem'[t] = mem[t]
      /\ UNCHANGED <<rec, act, launching, run, unrecorded>>
  BY DEF AttachLoad, AttachGate, Early, runVars, OwnInv, TypeInv, TypeOK
<1>2. PICK to \in {"loaded", "acquire", "ready"} : Goes(s, to) /\ (to = "ready" => rec.status # "running")
  BY DEF AttachLoad, AttachGate
<1>3. pc'[s] = to /\ \A t \in Procs \ {s} : pc'[t] = pc[t]
  BY <1>2, MoveOf
<1>4. EarlyInv'
  BY <1>1, <1>3 DEF WorkInv, EarlyInv, Early
<1>5. EndInv'
  BY <1>1, <1>3 DEF WorkInv, EndInv, Finished
<1>6. WorkerAccounted'
  BY <1>1 DEF WorkInv, WorkerAccounted
<1>7. \A p \in Parts : Recorded(p)' = Recorded(p)
  BY <1>1 DEF Recorded
<1>8. FollowInv'
  BY <1>1, <1>3, <1>7 DEF WorkInv, FollowInv, Drivers
<1>9. QuietInv'
  BY <1>1, <1>2, <1>3, <1>7 DEF WorkInv, QuietInv
<1> QED
  BY <1>4, <1>5, <1>6, <1>8, <1>9 DEF WorkInv

(* Taking the lease: nobody else has it, and a tick that has not attached  *)
(* finds no worker to follow.                                              *)
LEMMA TakeWork ==
  ASSUME OwnInv, WorkInv, NEW s \in Procs, AttachAcquire(s) \/ Recover(s) \/ TickBegin(s)
  PROVE  WorkInv'
<1>1. /\ LeaseFree(s) /\ rec'.live /\ rec'.owner = s /\ rec'.part = rec.part
      /\ UNCHANGED <<mem, act, launching, run, unrecorded>>
  <2>1. rec' = Owned(s) \/ rec' = [Owned(s) EXCEPT !.status = "running"]
    BY DEF AttachAcquire, Recover, TickBegin
  <2>2. rec'.live /\ rec'.owner = s /\ rec'.part = rec.part
    BY <2>1 DEF Owned, OwnInv, TypeInv, TypeOK, Record
  <2> QED
    BY <2>2 DEF AttachAcquire, Recover, TickBegin, runVars
<1>2. PICK to \in {"rehydrate", "recovering", "gone", "dispatch"} :
        Goes(s, to) /\ (to = "dispatch" => TickBegin(s))
  BY DEF AttachAcquire, Recover, TickBegin
<1>3. pc'[s] = to /\ \A t \in Procs \ {s} : pc'[t] = pc[t]
  BY <1>2, MoveOf
<1>4. pc[s] \in {"acquire", "ready", "idle"}
  BY DEF AttachAcquire, Recover, TickBegin
<1>5. \A t \in Procs \ {s} : t \notin Drivers
  BY <1>1, Alone, NobodyDrives
<1>6. rec'.status = rec.status \/ rec'.status = "running"
  BY DEF AttachAcquire, Recover, TickBegin, Owned, OwnInv, TypeInv, TypeOK, Record
<1>7. EarlyInv'
  BY <1>1, <1>3 DEF WorkInv, EarlyInv, Early
<1>8. EndInv'
  BY <1>1, <1>3, <1>5 DEF WorkInv, EndInv, Finished, Drivers
<1>9. WorkerAccounted'
  BY <1>1 DEF WorkInv, WorkerAccounted
<1>10. \A p \in Parts : Recorded(p)' = Recorded(p)
  BY <1>1 DEF Recorded
<1>11. ASSUME to = "dispatch", NEW p \in Parts, Recorded(p) PROVE p \in act[s]
  <2>1. pc[s] \in {"ready", "idle"} /\ rec.status # "interrupted"
    BY <1>2, <1>11 DEF TickBegin
  <2>2. CASE pc[s] = "idle"
    BY <1>11, <2>2 DEF WorkInv, FollowInv, Drivers
  <2>3. CASE pc[s] = "ready"
    <3>1. ~rec.live
      BY <1>1, <2>3 DEF WorkInv, EarlyInv, Early, LeaseFree
    <3>2. rec.status \in {"running", "done", "failed"}
      BY <2>1 DEF OwnInv, TypeInv, TypeOK, Record
    <3> QED
      BY <1>11, <2>3, <3>1, <3>2 DEF WorkInv, QuietInv
  <2> QED
    BY <2>1, <2>2, <2>3
<1>12. FollowInv'
  BY <1>1, <1>3, <1>5, <1>10, <1>11 DEF FollowInv, Drivers
<1>13. QuietInv'
  BY <1>1, <1>6, <1>10 DEF WorkInv, QuietInv
<1> QED
  BY <1>7, <1>8, <1>9, <1>12, <1>13 DEF WorkInv

(* Looking at the workers: those that run are followed from then on.       *)
LEMMA RehydrateWork ==
  ASSUME OwnInv, WorkInv, NEW s \in Procs, AttachRehydrate(s) \/ RecoverRehydrate(s)
  PROVE  WorkInv'
<1>1. s \in Drivers
  BY DEF AttachRehydrate, RecoverRehydrate, Drivers
<1>2. PICK m \in [Parts -> PartState] : RehydrateFrom(s, m)
  BY DEF AttachRehydrate, RecoverRehydrate, OwnInv, TypeInv, TypeOK, Record
<1>3. PICK to \in {"persist", "persistLast"} : Goes(s, to)
  BY DEF AttachRehydrate, RecoverRehydrate
<1>4. pc'[s] = to /\ \A t \in Procs \ {s} : pc'[t] = pc[t]
  BY <1>3, MoveOf
<1>5. /\ \A t \in Procs \ {s} : act'[t] = act[t] /\ t \notin Drivers
      /\ rec'.live = rec.live /\ rec'.owner = rec.owner
      /\ UNCHANGED <<launching, run, unrecorded>>
  BY <1>1, <1>2, Alone, RehydrateTypes DEF OwnInv
<1>6. /\ rec'.status = rec.status
      /\ \A p \in Parts : rec'.part[p] = IF rec.part[p] = "running" THEN After(p) ELSE m[p]
      /\ act'[s] = {p \in Running(rec.part) : Inspected(p) = "live"}
  BY <1>2 DEF RehydrateFrom, Running, OwnInv, TypeInv, TypeOK, Record
<1>7. \A p \in Parts : run[p] = "live" => Inspected(p) = "live" /\ After(p) = "running"
  BY DEF Inspected, After
<1>8. WorkerAccounted'
  BY <1>5, <1>6, <1>7 DEF WorkInv, WorkerAccounted
<1>9. \A p \in Parts : Recorded(p)' => Recorded(p)
  BY <1>5 DEF WorkInv, WorkerAccounted, Recorded
<1>10. EarlyInv'
  BY <1>4, <1>5 DEF WorkInv, EarlyInv, Early
<1>11. EndInv'
  BY <1>4, <1>5 DEF EndInv, Drivers
<1>12. ASSUME NEW p \in Parts, Recorded(p) PROVE p \in act'[s]
  BY <1>6, <1>7, <1>12 DEF Recorded, Running
<1>13. FollowInv'
  BY <1>4, <1>5, <1>9, <1>12 DEF FollowInv, Drivers
<1>14. QuietInv'
  BY <1>1, <1>5, <1>6, <1>9, Alone DEF WorkInv, QuietInv
<1> QED
  BY <1>8, <1>10, <1>11, <1>13, <1>14 DEF WorkInv

(* Saving the copy: it holds every worker the record knows of as running.  *)
LEMMA PersistWork ==
  ASSUME OwnInv, WorkInv, NEW s \in Procs, Persist(s)
  PROVE  WorkInv'
<1>1. s \in Drivers
  BY DEF Persist, Drivers
<1>2. /\ pc[s] \in {"persist", "persistLast"} /\ rec.live /\ rec.owner = s
      /\ UNCHANGED <<mem, act, launching, run, unrecorded>>
  BY DEF Persist, Owns, runVars
<1>3. PICK to \in {"ending", "idle", "gone"} : Goes(s, to) /\ (to = "ending" => Finished(mem[s]))
  BY DEF Persist
<1>4. pc'[s] = to /\ \A t \in Procs \ {s} : pc'[t] = pc[t] /\ t \notin Drivers
  BY <1>1, <1>3, MoveOf, Alone
<1>5. /\ rec'.part = mem[s] /\ rec'.status = rec.status /\ rec'.live /\ rec'.owner = s
      /\ rec.status = "running" \/ Finished(mem[s])
  BY <1>2 DEF Persist, OwnInv, TypeInv, TypeOK, Record
<1>6. ASSUME NEW p \in Parts, Recorded(p) PROVE p \in act[s] /\ mem[s][p] = "running"
  BY <1>1, <1>2, <1>6 DEF WorkInv, FollowInv, OwnInv, TypeInv, TypeOK
<1>7. WorkerAccounted'
  BY <1>2, <1>5, <1>6 DEF WorkInv, WorkerAccounted, Recorded
<1>8. \A p \in Parts : Recorded(p)' => Recorded(p)
  BY <1>2 DEF WorkInv, WorkerAccounted, Recorded
<1>9. EarlyInv'
  BY <1>2, <1>4, <1>5 DEF WorkInv, EarlyInv, Early
<1>10. EndInv'
  BY <1>2, <1>3, <1>4, <1>5 DEF EndInv, Drivers, Finished
<1>11. FollowInv'
  BY <1>2, <1>4, <1>6, <1>8 DEF FollowInv, Drivers
<1>12. QuietInv'
  BY <1>2, <1>5, <1>8 DEF WorkInv, QuietInv, Finished, Recorded
<1> QED
  BY <1>7, <1>9, <1>10, <1>11, <1>12 DEF WorkInv

LEMMA EndWork ==
  ASSUME OwnInv, WorkInv, NEW s \in Procs, End(s) \/ Release(s)
  PROVE  WorkInv'
<1>1. /\ s \in Drivers /\ pc[s] \in {"ending", "releasing"}
      /\ UNCHANGED <<mem, act, launching, run, unrecorded>>
  BY DEF End, Release, Drivers, runVars
<1>2. /\ Finished(mem[s]) /\ Finished(rec.part)
      /\ rec'.part = rec.part /\ rec'.owner = rec.owner /\ rec.owner = s
  BY <1>1, Alone DEF End, Release, WorkInv, EndInv, OwnInv, TypeInv, TypeOK, Record
<1>3. PICK to \in {"releasing", "gone"} : Goes(s, to)
  BY DEF End, Release
<1>4. pc'[s] = to /\ \A t \in Procs \ {s} : pc'[t] = pc[t] /\ t \notin Drivers
  BY <1>1, <1>3, MoveOf, Alone
<1>5. rec'.status # "running"
  BY DEF End, Release, WorkInv, EndInv, OwnInv, TypeInv, TypeOK, Record
<1>6. \A p \in Parts : ~Recorded(p) /\ ~Recorded(p)'
  BY <1>2 DEF Recorded, Finished
<1>7. EarlyInv'
  BY <1>1, <1>2, <1>4 DEF WorkInv, EarlyInv, Early
<1>8. EndInv'
  BY <1>1, <1>2, <1>4, <1>5 DEF EndInv, Finished, Drivers
<1>9. WorkerAccounted'
  BY <1>1, <1>2 DEF WorkInv, WorkerAccounted
<1> QED
  BY <1>6, <1>7, <1>8, <1>9 DEF WorkInv, FollowInv, QuietInv

(* A step of a process that leaves the record alone, or only gives the     *)
(* lease of an interrupted plan back, and that makes no worker unknown.    *)
LEMMA QuietMove ==
  ASSUME OwnInv, WorkInv, NEW s \in Procs, ~Early(s) \/ pc'[s] = "gone",
         pc'[s] \notin {"new", "loaded", "acquire", "ready", "rehydrate", "recovering",
                        "ending", "releasing"},
         \A t \in Procs \ {s} : pc'[t] = pc[t] /\ mem'[t] = mem[t] /\ act'[t] = act[t],
         rec'.part = rec.part, rec'.owner = rec.owner, rec'.status = rec.status,
         rec'.live = rec.live \/ rec.status = "interrupted",
         \A p \in Parts : run'[p] = "live" => run[p] = "live",
         \A p \in Parts : Recorded(p)' => Recorded(p),
         s \in Drivers' => \A p \in Parts : Recorded(p)' => p \in act'[s],
         WorkerAccounted'
  PROVE  WorkInv'
<1>1. EarlyInv'
  BY DEF WorkInv, EarlyInv, Early
<1>2. EndInv'
  BY DEF WorkInv, EndInv, Finished
<1>3. FollowInv'
  BY DEF WorkInv, FollowInv, Drivers
<1>4. QuietInv'
  BY DEF WorkInv, QuietInv
<1> QED
  BY <1>1, <1>2, <1>3, <1>4 DEF WorkInv

LEMMA TickWork ==
  ASSUME OwnInv, WorkInv, NEW s \in Procs, TickInterrupted(s) \/ StopDispatch(s) \/ Poll(s)
  PROVE  WorkInv'
<1>1. CASE TickInterrupted(s)
  <2>1. /\ Goes(s, "gone") /\ act' = [act EXCEPT ![s] = {}] /\ rec.status = "interrupted"
        /\ rec' = rec \/ rec' = [rec EXCEPT !.live = FALSE]
        /\ UNCHANGED <<mem, launching, unrecorded>>
    BY <1>1 DEF TickInterrupted
  <2>2. \A p \in Parts : run'[p] = "live" => run[p] = "live"
    BY <1>1 DEF TickInterrupted
  <2>3. rec'.part = rec.part /\ rec'.owner = rec.owner /\ rec'.status = rec.status
    BY <2>1 DEF OwnInv, TypeInv, TypeOK, Record
  <2>4. pc'[s] = "gone" /\ \A t \in Procs \ {s} : pc'[t] = pc[t] /\ act'[t] = act[t]
    BY <2>1, MoveOf DEF OwnInv, TypeInv, TypeOK
  <2>5. WorkerAccounted'
    BY <2>1, <2>2, <2>3 DEF WorkInv, WorkerAccounted
  <2>6. \A p \in Parts : Recorded(p)' => Recorded(p)
    BY <2>1, <2>2, <2>3 DEF Recorded
  <2>7. s \notin Drivers'
    BY <2>4 DEF Drivers
  <2> QED
    BY <2>1, <2>2, <2>3, <2>4, <2>5, <2>6, <2>7, QuietMove
<1>2. CASE StopDispatch(s) \/ Poll(s)
  <2>1. PICK to \in {"poll", "persist"} : Goes(s, to)
    BY <1>2 DEF StopDispatch, Poll
  <2>2. /\ s \in Drivers /\ ~Early(s) /\ pc[s] \in {"dispatch", "poll"}
        /\ UNCHANGED <<rec, launching, run, unrecorded>>
    BY <1>2 DEF StopDispatch, Poll, Drivers, Early, runVars
  <2>3. /\ pc'[s] = to
        /\ \A t \in Procs \ {s} : pc'[t] = pc[t] /\ mem'[t] = mem[t] /\ act'[t] = act[t]
    BY <1>2, <2>1, MoveOf DEF StopDispatch, Poll, OwnInv, TypeInv, TypeOK
  <2>4. WorkerAccounted' /\ \A p \in Parts : Recorded(p)' = Recorded(p)
    BY <2>2 DEF WorkInv, WorkerAccounted, Recorded
  <2>5. \A p \in act[s] : run[p] = "live" => p \in act'[s]
    BY <1>2 DEF StopDispatch, Poll, HasEnded, Inspected, OwnInv, TypeInv, TypeOK
  <2>6. \A p \in Parts : Recorded(p) => p \in act'[s]
    BY <2>2, <2>5 DEF WorkInv, FollowInv, Recorded
  <2> QED
    BY <2>2, <2>3, <2>4, <2>6, QuietMove
<1> QED
  BY <1>1, <1>2

LEMMA DispatchWork ==
  ASSUME OwnInv, WorkInv, NEW s \in Procs, NEW p \in Parts, Dispatch(s, p)
  PROVE  WorkInv'
<1> USE SupervisionAssumption
<1>1. /\ launching' = [launching EXCEPT ![s] = p] /\ run' = [run EXCEPT ![p] = "live"]
      /\ launching[s] = None /\ unrecorded' = unrecorded \ {p} /\ UNCHANGED <<rec, pc, mem, act>>
  BY DEF Dispatch
<1>2. WorkerAccounted'
  BY <1>1 DEF WorkInv, WorkerAccounted, OwnInv, TypeInv, TypeOK
<1>3. \A q \in Parts : Recorded(q)' => Recorded(q)
  BY <1>1 DEF Recorded, OwnInv, TypeInv, TypeOK
<1> QED
  BY <1>1, <1>2, <1>3 DEF WorkInv, EarlyInv, Early, EndInv, Finished, FollowInv, QuietInv, Drivers

(* The record learns of a launch, refuses it, or of a part that fails.     *)
LEMMA RecordWork ==
  ASSUME OwnInv, WorkInv, NEW s \in Procs,
         RecordLaunch(s) \/ LaunchRefused(s) \/ \E p \in Parts : PartFails(s, p)
  PROVE  WorkInv'
<1> USE SupervisionAssumption
<1>1. /\ s \in Drivers /\ pc[s] = "dispatch" /\ UNCHANGED pc
      /\ \A t \in Procs \ {s} : t \notin Drivers /\ launching[t] = None
      /\ rec.live /\ rec.owner = s
  <2>1. pc[s] = "dispatch" /\ UNCHANGED pc
    BY DEF RecordLaunch, LaunchRefused, PartFails, OwnInv, TypeInv, LaunchInv
  <2> QED
    BY <2>1, Alone DEF Drivers
<1> DEFINE About(p) ==
      /\ mem[s][p] = "pending" /\ launching[s] \in {None, p} /\ launching'[s] = None
      /\ \A t \in Procs \ {s} : launching'[t] = launching[t] /\ act'[t] = act[t]
      /\ \A q \in Parts \ {p} : run'[q] = run[q] /\ (q \in unrecorded' <=> q \in unrecorded)
      /\ rec' = rec \/ \E st \in PartState : rec' = [rec EXCEPT !.part[p] = st]
<1>2. PICK p \in Parts :
        /\ About(p)
        /\ \/ RecordLaunch(s) /\ p = launching[s]
           \/ LaunchRefused(s) /\ p = launching[s]
           \/ PartFails(s, p)
  <2>1. CASE RecordLaunch(s)
    <3>1. launching[s] \in Parts /\ About(launching[s])
      BY <2>1 DEF RecordLaunch, runVars, OwnInv, TypeInv, TypeOK, LaunchInv, PartState
    <3> QED
      BY <2>1, <3>1
  <2>2. CASE LaunchRefused(s)
    <3>1. launching[s] \in Parts /\ About(launching[s])
      BY <2>2 DEF LaunchRefused, runVars, OwnInv, TypeInv, TypeOK, LaunchInv, PartState
    <3> QED
      BY <2>2, <3>1
  <2>3. ASSUME NEW p \in Parts, PartFails(s, p) PROVE About(p)
    BY <2>3 DEF PartFails, runVars, PartState
  <2> QED
    BY <2>1, <2>2, <2>3
<1>3. /\ rec'.status = rec.status /\ rec'.owner = rec.owner /\ rec'.live = rec.live
      /\ \A q \in Parts \ {p} : rec'.part[q] = rec.part[q]
  BY <1>2 DEF OwnInv, TypeInv, TypeOK, Record
<1>4. act[s] \subseteq act'[s] /\ p \notin act[s] /\ ~Recorded(p)
  BY <1>1, <1>2 DEF RecordLaunch, LaunchRefused, PartFails, OwnInv, TypeInv, TypeOK, WorkInv, FollowInv
<1>5. \A q \in Parts \ {p} : Recorded(q)' => Recorded(q)
  BY <1>1, <1>2, <1>3 DEF Recorded
<1>6. Recorded(p)' => p \in act'[s]
  <2>1. CASE RecordLaunch(s) /\ p = launching[s]
    BY <2>1 DEF RecordLaunch, OwnInv, TypeInv, TypeOK
  <2>2. CASE LaunchRefused(s) /\ p = launching[s]
    BY <2>2 DEF LaunchRefused, Recorded, OwnInv, TypeInv, TypeOK
  <2>3. CASE PartFails(s, p)
    <3>1. launching[s] = None /\ UNCHANGED <<launching, run, unrecorded>>
      BY <2>3 DEF PartFails, runVars
    <3>2. rec'.part[p] = "running" => rec.part[p] = "running"
      BY <2>3 DEF PartFails, OwnInv, TypeInv, TypeOK, Record
    <3> QED
      BY <1>4, <3>1, <3>2 DEF Recorded
  <2> QED
    BY <1>2, <2>1, <2>2, <2>3
<1>7. run'[p] = "live" => \/ rec'.part[p] = "running"
                          \/ p \in unrecorded' \/ \E t \in Procs : launching'[t] = p
  <2>1. CASE RecordLaunch(s) /\ p = launching[s]
    BY <2>1 DEF RecordLaunch, OwnInv, TypeInv, TypeOK, Record
  <2>2. CASE LaunchRefused(s) /\ p = launching[s]
    BY <2>2 DEF LaunchRefused, OwnInv, TypeInv, TypeOK
  <2>3. CASE PartFails(s, p)
    <3>1. launching[s] = None /\ UNCHANGED <<launching, run, unrecorded>>
      BY <2>3 DEF PartFails, runVars
    <3> QED
      BY <1>1, <1>4, <3>1 DEF Recorded, WorkInv, WorkerAccounted
  <2> QED
    BY <1>2, <2>1, <2>2, <2>3
<1>8. ASSUME NEW q \in Parts \ {p}, run'[q] = "live"
      PROVE  \/ rec'.part[q] = "running"
             \/ q \in unrecorded' \/ \E t \in Procs : launching'[t] = q
  BY <1>1, <1>2, <1>3, <1>8 DEF WorkInv, WorkerAccounted
<1>9. EarlyInv'
  BY <1>1, <1>2, <1>3 DEF WorkInv, EarlyInv, Early
<1>10. EndInv'
  BY <1>1 DEF EndInv, Drivers
<1>11. WorkerAccounted'
  BY <1>7, <1>8 DEF WorkerAccounted
<1>12. FollowInv'
  BY <1>1, <1>4, <1>5, <1>6 DEF WorkInv, FollowInv, Drivers
<1>13. QuietInv'
  <2>1. CASE rec.status = "running"
    BY <1>1, <1>3, <2>1 DEF QuietInv
  <2>2. CASE rec.status # "running"
    <3>1. \A q \in Parts : Recorded(q)' => Recorded(q)
      <4>1. ~Recorded(p)'
        BY <1>2, <1>4, <2>2
        DEF RecordLaunch, LaunchRefused, PartFails, TakesPart, Recorded, runVars, OwnInv, TypeInv, TypeOK
      <4> QED
        BY <1>5, <4>1
    <3> QED
      BY <1>1, <1>3, <3>1 DEF WorkInv, QuietInv
  <2> QED
    BY <2>1, <2>2
<1> QED
  BY <1>9, <1>10, <1>11, <1>12, <1>13 DEF WorkInv

LEMMA ExitWork ==
  ASSUME OwnInv, WorkInv, NEW s \in Procs, Exit(s)
  PROVE  WorkInv'
<1>1. /\ Goes(s, "gone") /\ act' = [act EXCEPT ![s] = {}]
      /\ launching' = [launching EXCEPT ![s] = None] /\ UNCHANGED <<rec, mem, run>>
      /\ unrecorded' = IF launching[s] = None THEN unrecorded ELSE unrecorded \cup {launching[s]}
  BY DEF Exit
<1>2. pc'[s] = "gone" /\ \A t \in Procs \ {s} : pc'[t] = pc[t] /\ act'[t] = act[t]
  BY <1>1, MoveOf DEF OwnInv, TypeInv, TypeOK
<1>3. WorkerAccounted' /\ \A p \in Parts : Recorded(p)' => Recorded(p)
  BY <1>1, SupervisionAssumption
  DEF WorkInv, WorkerAccounted, Recorded, OwnInv, TypeInv, TypeOK
<1>4. s \notin Drivers'
  BY <1>2 DEF Drivers
<1> QED
  BY <1>1, <1>2, <1>3, <1>4, QuietMove

(* What happens outside the processes never makes a worker run.  A lease   *)
(* runs out only when nobody is about to tick with what it has read.       *)
LEMMA EnvironmentWork ==
  ASSUME Timely, OwnInv, WorkInv,
         \/ \E p \in Parts : RunEnds(p)
         \/ LeaseExpires \/ InterruptLoad \/ InterruptMark \/ InterruptCancel
  PROVE  WorkInv'
<1>1. /\ UNCHANGED <<pc, mem, act, launching, unrecorded>>
      /\ rec'.part = rec.part /\ rec'.owner = rec.owner
  BY DEF RunEnds, LeaseExpires, InterruptLoad, InterruptMark, InterruptCancel, runVars, OwnInv,
     TypeInv, TypeOK, Record
<1>2. \A p \in Parts : run'[p] = "live" => run[p] = "live"
  <2>1. ASSUME NEW q \in Parts, RunEnds(q) PROVE \A p \in Parts : run'[p] = "live" => run[p] = "live"
    BY <2>1 DEF RunEnds, OwnInv, TypeInv, TypeOK
  <2>2. CASE InterruptCancel
    BY <2>2 DEF InterruptCancel
  <2> QED
    BY <2>1, <2>2 DEF LeaseExpires, InterruptLoad, InterruptMark, runVars
<1>3. \/ rec' = rec
      \/ rec'.status = "interrupted"
      \/ rec'.status = rec.status /\ \A s \in Procs : pc[s] # "ready"
  BY DEF RunEnds, LeaseExpires, InterruptLoad, InterruptMark, InterruptCancel, OwnInv, TypeInv,
     TypeOK, Record
<1>4. WorkerAccounted' /\ \A p \in Parts : Recorded(p)' => Recorded(p)
  BY <1>1, <1>2 DEF WorkInv, WorkerAccounted, Recorded
<1>5. EarlyInv' /\ EndInv'
  BY <1>1, <1>3 DEF WorkInv, EarlyInv, Early, EndInv, Finished
<1>6. FollowInv'
  BY <1>1, <1>4 DEF WorkInv, FollowInv, Drivers
<1>7. QuietInv'
  BY <1>1, <1>3, <1>4 DEF WorkInv, QuietInv
<1> QED
  BY <1>4, <1>5, <1>6, <1>7 DEF WorkInv

LEMMA WorkStep ==
  ASSUME Timely
  PROVE  OwnInv /\ WorkInv /\ [Next]_vars => WorkInv'
<1> SUFFICES ASSUME OwnInv, WorkInv, [Next]_vars PROVE WorkInv'
  OBVIOUS
<1>1. CASE UNCHANGED vars
  BY <1>1 DEF vars, WorkInv, EarlyInv, Early, EndInv, Finished, WorkerAccounted, FollowInv,
     Recorded, QuietInv, Drivers
<1> QED
  BY <1>1, AttachWork, TakeWork, RehydrateWork, PersistWork, EndWork, TickWork, DispatchWork,
     RecordWork, ExitWork, EnvironmentWork DEF Next

(* As long as no process is slower than its lease, a running worker is     *)
(* never forgotten by the plan (service.rs rehydrate, dispatch, persist).  *)
THEOREM WorkersAccounted == ASSUME Timely PROVE Spec => []WorkerAccounted
<1>1. Init => OwnInv
  BY InitInv DEF OwnInv
<1>2. OwnInv /\ [Next]_vars => OwnInv'
  BY TypeStep, OwnershipStep DEF OwnInv
<1>3. WorkInv => WorkerAccounted
  BY DEF WorkInv
<1> QED
  BY <1>1, <1>2, <1>3, WorkInit, WorkStep, PTL DEF Spec

LEMMA StartIsDispatch ==
  ASSUME OwnInv, [Next]_vars, NEW p \in Parts, Starts(p)
  PROVE  \E s \in Procs : Dispatch(s, p)
<1> USE SupervisionAssumption
<1>1. PICK s \in Procs : launching[s] # p /\ launching'[s] = p
  BY DEF Starts
<1>2. p # None
  OBVIOUS
<1>3. ASSUME NEW t \in Procs,
             \/ RecordLaunch(t) \/ LaunchRefused(t) \/ Exit(t)
             \/ \E q \in Parts : Dispatch(t, q) /\ q # p
      PROVE  FALSE
  BY <1>1, <1>2, <1>3 DEF RecordLaunch, LaunchRefused, Exit, Dispatch, OwnInv, TypeInv, TypeOK
<1>4. ASSUME NEW t \in Procs, AttachRehydrate(t) \/ RecoverRehydrate(t)
      PROVE  UNCHANGED launching
  BY <1>4 DEF AttachRehydrate, RecoverRehydrate, RehydrateFrom
<1> QED
  BY <1>1, <1>3, <1>4
  DEF Next, vars, AttachLoad, AttachGate, AttachAcquire, Recover, Persist, End, Release, TickBegin,
      TickInterrupted, StopDispatch, Poll, PartFails, RunEnds, LeaseExpires, InterruptLoad,
      InterruptMark, InterruptCancel

(* As long as no process is slower than its lease, no second worker is     *)
(* started beside one the record knows of (scheduler/service.rs, dispatch  *)
(* after rehydrate_running_parts).                                         *)
THEOREM WorkersAreSingle == ASSUME Timely PROVE Spec => NoSecondWorker
<1>1. Init => OwnInv
  BY InitInv DEF OwnInv
<1>2. OwnInv /\ [Next]_vars => OwnInv'
  BY TypeStep, OwnershipStep DEF OwnInv
<1>3. OwnInv /\ WorkInv /\ [Next]_vars =>
        [\A p \in Parts : Starts(p) /\ p \notin unrecorded => run[p] # "live"]_vars
  <2> SUFFICES ASSUME OwnInv, WorkInv, [Next]_vars,
                      NEW p \in Parts, Starts(p), p \notin unrecorded, run[p] = "live"
               PROVE  FALSE
    OBVIOUS
  <2>1. PICK s \in Procs : Dispatch(s, p)
    BY StartIsDispatch
  <2>2. /\ s \in Drivers /\ pc[s] = "dispatch" /\ mem[s][p] = "pending"
        /\ launching[s] = None
    BY <2>1 DEF Dispatch, Drivers
  <2>3. Recorded(p)
    BY <2>2, Alone, SupervisionAssumption DEF Recorded, WorkInv, WorkerAccounted
  <2> QED
    BY <2>2, <2>3 DEF WorkInv, FollowInv, OwnInv, TypeInv, TypeOK
<1> QED
  BY <1>1, <1>2, <1>3, WorkInit, WorkStep, PTL DEF Spec, NoSecondWorker

-----------------------------------------------------------------------------
Over(state) == state \in {"done", "failed"}

(* What a process read before it takes a free lease is still the record.   *)
ReadInv ==
  rec.status = "running" /\ ~rec.live =>
    \A s \in Procs : Early(s) /\ pc[s] # "new" => mem[s] = rec.part

(* A part that is over in the record is over for whoever drives.           *)
CopyInv ==
  rec.status = "running" =>
    \A s \in Drivers : pc[s] # "recovering" =>
      \A p \in Parts : Over(rec.part[p]) => Over(mem[s][p])

(* A part that was done when a process read the record is over in it, or   *)
(* the plan is not running and someone took its lease without recovering   *)
(* it, to fail.                                                            *)
OldInv ==
  \/ \A s \in Procs : Early(s) /\ pc[s] # "new" =>
       \A p \in Parts : mem[s][p] = "done" => Over(rec.part[p])
  \/ /\ rec.status # "running" /\ rec.live
     /\ rec.owner \in Procs /\ pc[rec.owner] \in {"persist", "gone"}

Backed(p) ==
  run[p] = "completed" \/ p \in unrecorded \/ \E s \in Procs : launching[s] = p

(* The same as DoneIsBacked for every copy of the record.                  *)
MemInv ==
  \A s \in Procs : pc[s] \notin {"new", "gone"} =>
    \A p \in Parts : mem[s][p] = "done" => Backed(p)

DoneInv == ReadInv /\ CopyInv /\ OldInv /\ MemInv /\ DoneIsBacked

LEMMA DoneInit == Init => DoneInv
<1> SUFFICES ASSUME Init PROVE DoneInv
  OBVIOUS
<1>1. PICK starter \in Procs : pc = [s \in Procs |-> IF s = starter THEN "ready" ELSE "new"]
  BY DEF Init
<1>2. /\ \A s \in Procs : mem[s] = rec.part
      /\ \A p \in Parts : rec.part[p] = "pending"
  BY DEF Init
<1> QED
  BY <1>1, <1>2 DEF DoneInv, ReadInv, CopyInv, OldInv, MemInv, DoneIsBacked, Over, Drivers

LEMMA AttachDone ==
  ASSUME OwnInv, WorkInv, DoneInv, NEW s \in Procs, AttachLoad(s) \/ AttachGate(s)
  PROVE  DoneInv'
<1>1. /\ Early(s) /\ \A t \in Procs \ {s} : mem'[t] = mem[t]
      /\ UNCHANGED <<rec, launching, run, unrecorded>>
      /\ \/ pc[s] = "new" /\ mem'[s] = rec.part
         \/ pc[s] = "loaded" /\ mem'[s] = mem[s]
  BY DEF AttachLoad, AttachGate, Early, runVars, OwnInv, TypeInv, TypeOK
<1>2. PICK to \in {"loaded", "acquire", "ready"} : Goes(s, to)
  BY DEF AttachLoad, AttachGate
<1>3. pc'[s] = to /\ \A t \in Procs \ {s} : pc'[t] = pc[t]
  BY <1>2, MoveOf
<1>4. rec.owner # s
  BY <1>1 DEF WorkInv, EarlyInv
<1>5. ReadInv'
  BY <1>1, <1>3 DEF DoneInv, ReadInv, Early
<1>6. CopyInv'
  BY <1>1, <1>3 DEF DoneInv, CopyInv, Drivers
<1>7. OldInv'
  BY <1>1, <1>3, <1>4 DEF DoneInv, OldInv, Early, Over
<1>8. DoneIsBacked' /\ \A p \in Parts : Backed(p)' = Backed(p)
  BY <1>1 DEF DoneInv, DoneIsBacked, Backed
<1>9. MemInv'
  BY <1>1, <1>3, <1>8 DEF DoneInv, MemInv, DoneIsBacked, Backed
<1> QED
  BY <1>5, <1>6, <1>7, <1>8, <1>9 DEF DoneInv

LEMMA AfterDone ==
  ASSUME OwnInv, NEW p \in Parts, After(p) = "done"
  PROVE  Backed(p)
BY DEF After, Inspected, Backed, OwnInv, TypeInv, TypeOK, Run

(* Nobody who waits for the lease holds a part as done that is not over,   *)
(* unless the plan no longer runs.                                         *)
LEMMA ReadersAgree ==
  ASSUME OwnInv, DoneInv, NEW s \in Drivers, pc[s] # "persist" \/ rec.status = "running",
         NEW t \in Procs, Early(t), pc[t] # "new", NEW p \in Parts, mem[t][p] = "done"
  PROVE  Over(rec.part[p])
BY Alone DEF DoneInv, OldInv, Drivers

LEMMA TakeDone ==
  ASSUME OwnInv, WorkInv, DoneInv, NEW s \in Procs, AttachAcquire(s) \/ Recover(s) \/ TickBegin(s)
  PROVE  DoneInv'
<1>1. /\ LeaseFree(s) /\ rec'.live /\ rec'.part = rec.part
      /\ rec'.status = rec.status \/ pc'[s] = "recovering"
      /\ UNCHANGED <<mem, launching, run, unrecorded>>
  <2>1. \/ rec' = Owned(s)
        \/ rec' = [Owned(s) EXCEPT !.status = "running"] /\ Goes(s, "recovering")
    BY DEF AttachAcquire, Recover, TickBegin
  <2>2. /\ rec'.live /\ rec'.part = rec.part
        /\ rec'.status = rec.status \/ pc'[s] = "recovering"
    BY <2>1, MoveOf DEF Owned, OwnInv, TypeInv, TypeOK, Record
  <2> QED
    BY <2>2 DEF AttachAcquire, Recover, TickBegin, runVars
<1>2. PICK to \in {"rehydrate", "recovering", "gone", "dispatch"} : Goes(s, to)
  BY DEF AttachAcquire, Recover, TickBegin
<1>3. pc'[s] = to /\ \A t \in Procs \ {s} : pc'[t] = pc[t]
  BY <1>2, MoveOf
<1>4. pc[s] \in {"acquire", "ready", "idle"} /\ (pc[s] = "idle" => rec.live /\ rec.owner = s)
  BY Alone DEF AttachAcquire, Recover, TickBegin, Drivers
<1>5. \A t \in Procs \ {s} : t \notin Drivers
  BY <1>1, Alone, NobodyDrives
<1>6. pc[s] \in {"acquire", "ready"} => ~rec.live
  BY <1>1 DEF WorkInv, EarlyInv, Early, LeaseFree
<1>7. ReadInv'
  BY <1>1 DEF ReadInv
<1>8. CopyInv'
  <2>1. ASSUME rec.status = "running", NEW p \in Parts, Over(rec.part[p])
        PROVE  Over(mem[s][p])
    BY <1>4, <1>6, <2>1 DEF DoneInv, ReadInv, CopyInv, Early, Drivers
  <2> QED
    BY <1>1, <1>3, <1>5, <2>1 DEF CopyInv, Drivers
<1>9. OldInv'
  <2>1. \A t \in Procs : Early(t) /\ pc[t] # "new" =>
          \A p \in Parts : mem[t][p] = "done" => Over(rec.part[p])
    BY <1>4, <1>6 DEF DoneInv, OldInv
  <2> QED
    BY <1>1, <1>3, <2>1 DEF OldInv, Early
<1>10. MemInv' /\ DoneIsBacked'
  BY <1>1, <1>3, <1>4 DEF DoneInv, MemInv, DoneIsBacked, Backed
<1> QED
  BY <1>7, <1>8, <1>9, <1>10 DEF DoneInv

LEMMA RehydrateDone ==
  ASSUME OwnInv, WorkInv, DoneInv, NEW s \in Procs, AttachRehydrate(s) \/ RecoverRehydrate(s)
  PROVE  DoneInv'
<1>1. s \in Drivers /\ rec.live /\ rec.owner = s
  BY Alone DEF AttachRehydrate, RecoverRehydrate, Drivers
<1>2. PICK m \in [Parts -> PartState] :
        /\ RehydrateFrom(s, m)
        /\ \/ pc[s] = "rehydrate" /\ m = mem[s] /\ Goes(s, "persist")
           \/ pc[s] = "recovering" /\ m = rec.part /\ Goes(s, "persistLast")
  BY DEF AttachRehydrate, RecoverRehydrate, OwnInv, TypeInv, TypeOK, Record
<1>3. /\ pc'[s] \in {"persist", "persistLast"} /\ (pc[s] = "rehydrate" => pc'[s] = "persist")
      /\ \A t \in Procs \ {s} : pc'[t] = pc[t]
  BY <1>2, MoveOf
<1>4. /\ \A t \in Procs \ {s} : mem'[t] = mem[t] /\ t \notin Drivers
      /\ rec'.live /\ rec'.owner = s
      /\ UNCHANGED <<launching, run, unrecorded>>
  BY <1>1, <1>2, Alone, RehydrateTypes DEF OwnInv
<1>5. /\ rec'.status = rec.status /\ mem'[s] = rec'.part
      /\ \A p \in Parts : rec'.part[p] = IF rec.part[p] = "running" THEN After(p) ELSE m[p]
  BY <1>2 DEF RehydrateFrom, Running, OwnInv, TypeInv, TypeOK, Record
<1>6. ReadInv'
  BY <1>4 DEF ReadInv
<1>7. CopyInv'
  BY <1>3, <1>4, <1>5 DEF CopyInv, Drivers
<1>8. ASSUME NEW p \in Parts, rec'.part[p] = "done" PROVE Backed(p)
  <2>1. CASE rec.part[p] = "running"
    BY <1>5, <1>8, <2>1, AfterDone
  <2>2. CASE rec.part[p] # "running"
    BY <1>2, <1>5, <1>8, <2>2 DEF DoneInv, MemInv, DoneIsBacked, Backed
  <2> QED
    BY <2>1, <2>2
<1>9. \A p \in Parts : Backed(p)' = Backed(p)
  BY <1>4 DEF Backed
<1>10. MemInv' /\ DoneIsBacked'
  BY <1>3, <1>4, <1>5, <1>8, <1>9 DEF DoneInv, MemInv, DoneIsBacked, Backed
<1>11. OldInv'
  <2>1. CASE rec.status # "running" /\ pc[s] = "rehydrate"
    BY <1>3, <1>4, <1>5, <2>1 DEF OldInv
  <2>2. CASE rec.status = "running" \/ pc[s] = "recovering"
    <3>1. ASSUME NEW p \in Parts, Over(rec.part[p]) PROVE Over(rec'.part[p])
      <4>1. rec'.part[p] = m[p]
        BY <1>5, <3>1 DEF Over
      <4> QED
        BY <1>1, <1>2, <2>2, <3>1, <4>1 DEF DoneInv, CopyInv
    <3>2. \A t \in Procs : Early(t)' /\ pc'[t] # "new" => Early(t) /\ pc[t] # "new" /\ mem'[t] = mem[t]
      BY <1>3, <1>4 DEF Early
    <3>3. pc[s] # "persist"
      BY <1>2
    <3> QED
      BY <1>1, <3>1, <3>2, <3>3, ReadersAgree DEF OldInv
  <2> QED
    BY <1>2, <2>1, <2>2
<1> QED
  BY <1>6, <1>7, <1>10, <1>11 DEF DoneInv

LEMMA PersistDone ==
  ASSUME OwnInv, WorkInv, DoneInv, NEW s \in Procs, Persist(s)
  PROVE  DoneInv'
<1>1. /\ s \in Drivers /\ pc[s] \in {"persist", "persistLast"} /\ rec.live
      /\ rec.status = "running" \/ Finished(mem[s])
      /\ UNCHANGED <<mem, launching, run, unrecorded>>
  BY DEF Persist, Drivers, Owns, runVars
<1>2. PICK to \in {"ending", "idle", "gone"} : Goes(s, to)
  BY DEF Persist
<1>3. pc'[s] = to /\ \A t \in Procs \ {s} : pc'[t] = pc[t] /\ t \notin Drivers
  BY <1>1, <1>2, MoveOf, Alone
<1>4. rec'.part = mem[s] /\ rec'.status = rec.status /\ rec'.live
  BY <1>1 DEF Persist, OwnInv, TypeInv, TypeOK, Record
<1>5. ReadInv'
  BY <1>4 DEF ReadInv
<1>6. CopyInv'
  BY <1>1, <1>3, <1>4 DEF CopyInv, Drivers
<1>7. OldInv'
  <2>1. ASSUME NEW t \in Procs, Early(t), pc[t] # "new", NEW p \in Parts, mem[t][p] = "done"
        PROVE  Over(mem[s][p])
    <3>1. CASE rec.status = "running"
      BY <1>1, <2>1, <3>1, ReadersAgree DEF DoneInv, CopyInv
    <3>2. CASE Finished(mem[s])
      BY <3>2 DEF Finished, Over
    <3> QED
      BY <1>1, <3>1, <3>2
  <2> QED
    BY <1>1, <1>3, <1>4, <2>1 DEF OldInv, Early
<1>8. MemInv' /\ DoneIsBacked'
  BY <1>1, <1>3, <1>4 DEF DoneInv, MemInv, DoneIsBacked, Backed
<1> QED
  BY <1>5, <1>6, <1>7, <1>8 DEF DoneInv

(* A driver moves on, and neither the record nor the runs change, except   *)
(* for the status and the lease of a plan that does not run any more.      *)
LEMMA DriverMoves ==
  ASSUME OwnInv, DoneInv, NEW s \in Drivers, pc[s] # "persist",
         \A t \in Procs \ {s} : pc'[t] = pc[t] /\ mem'[t] = mem[t],
         pc'[s] \notin {"new", "loaded", "acquire", "ready", "recovering"},
         \A p \in Parts : mem'[s][p] # mem[s][p] => mem[s][p] = "running" /\
                                                   (mem'[s][p] = "done" => Backed(p)),
         rec'.part = rec.part, rec'.status # "running" \/ (rec' = rec /\ pc[s] # "recovering"),
         \A p \in Parts : Backed(p)' = Backed(p)
  PROVE  DoneInv'
<1>1. s \in Procs /\ rec.live /\ pc[s] \notin {"new", "gone"}
  BY Alone DEF Drivers
<1>2. ReadInv'
  BY <1>1 DEF ReadInv
<1>3. CopyInv'
  BY <1>1 DEF DoneInv, CopyInv, Drivers, Over
<1>4. OldInv'
  BY ReadersAgree DEF OldInv, Early
<1>5. MemInv'
  BY <1>1 DEF DoneInv, MemInv
<1>6. DoneIsBacked'
  BY DEF DoneInv, DoneIsBacked, Backed
<1> QED
  BY <1>2, <1>3, <1>4, <1>5, <1>6 DEF DoneInv

LEMMA EndDone ==
  ASSUME OwnInv, WorkInv, DoneInv, NEW s \in Procs,
         End(s) \/ Release(s) \/ StopDispatch(s) \/ Poll(s)
  PROVE  DoneInv'
<1>1. /\ s \in Drivers /\ pc[s] \in {"ending", "releasing", "dispatch", "poll"}
      /\ UNCHANGED <<launching, run, unrecorded>>
  BY DEF End, Release, StopDispatch, Poll, Drivers, runVars
<1>2. PICK to \in {"releasing", "gone", "poll", "persist"} : Goes(s, to)
  BY DEF End, Release, StopDispatch, Poll
<1>3. pc'[s] = to /\ \A t \in Procs \ {s} : pc'[t] = pc[t] /\ mem'[t] = mem[t]
  BY <1>2, MoveOf DEF End, Release, StopDispatch, Poll, OwnInv, TypeInv, TypeOK
<1>4. rec'.part = rec.part /\ (rec'.status # "running" \/ rec' = rec)
  BY DEF End, Release, StopDispatch, Poll, WorkInv, EndInv, OwnInv, TypeInv, TypeOK, Record
<1>5. \A p \in Parts : Backed(p)' = Backed(p)
  BY <1>1 DEF Backed
<1>6. \A p \in Parts : mem'[s][p] # mem[s][p] => mem[s][p] = "running" /\
                                                (mem'[s][p] = "done" => Backed(p))
  <2>1. CASE Poll(s)
    <3> DEFINE ended == {p \in act[s] : HasEnded(s, p)}
    <3>1. PICK last \in SUBSET {p \in ended : After(p) = "pending"} :
            mem' = [mem EXCEPT ![s] = [p \in Parts |->
                      IF p \in last THEN "failed"
                      ELSE IF p \in ended THEN After(p) ELSE mem[s][p]]]
      BY <2>1 DEF Poll
    <3>2. ended \subseteq act[s] /\ last \subseteq ended
      OBVIOUS
    <3> HIDE DEF ended
    <3> QED
      BY <3>1, <3>2, AfterDone DEF OwnInv, TypeInv, TypeOK
  <2> QED
    BY <2>1 DEF End, Release, StopDispatch
<1> QED
  BY <1>1, <1>3, <1>4, <1>5, <1>6, DriverMoves

LEMMA LeaveDone ==
  ASSUME OwnInv, WorkInv, DoneInv, NEW s \in Procs, TickInterrupted(s) \/ Exit(s)
  PROVE  DoneInv'
<1>1. Goes(s, "gone") /\ UNCHANGED mem /\ pc[s] \notin {"new", "gone"}
  BY DEF TickInterrupted, Exit
<1>2. pc'[s] = "gone" /\ \A t \in Procs \ {s} : pc'[t] = pc[t]
  BY <1>1, MoveOf
<1>3. /\ rec'.part = rec.part /\ rec'.status = rec.status /\ rec'.owner = rec.owner
      /\ \/ rec'.live = rec.live
         \/ rec.status # "running" /\ rec.owner = s /\ pc[s] # "persist"
  BY DEF TickInterrupted, Exit, OwnInv, TypeInv, TypeOK, Record
<1>4. \A p \in Parts : Backed(p) => Backed(p)'
  <2>1. CASE TickInterrupted(s)
    BY <2>1 DEF TickInterrupted, Backed
  <2>2. CASE Exit(s)
    BY <2>2 DEF Exit, Backed, OwnInv, TypeInv, TypeOK
  <2> QED
    BY <2>1, <2>2
<1>5. ReadInv'
  BY <1>1, <1>2, <1>3 DEF DoneInv, ReadInv, Early
<1>6. CopyInv'
  BY <1>1, <1>2, <1>3 DEF DoneInv, CopyInv, Drivers
<1>7. OldInv'
  BY <1>1, <1>2, <1>3 DEF DoneInv, OldInv, Early
<1>8. MemInv' /\ DoneIsBacked'
  BY <1>1, <1>2, <1>3, <1>4 DEF DoneInv, MemInv, DoneIsBacked, Backed
<1> QED
  BY <1>5, <1>6, <1>7, <1>8 DEF DoneInv

LEMMA DispatchDone ==
  ASSUME OwnInv, WorkInv, DoneInv, NEW s \in Procs, NEW p \in Parts, Dispatch(s, p)
  PROVE  DoneInv'
<1>1. /\ launching' = [launching EXCEPT ![s] = p] /\ run' = [run EXCEPT ![p] = "live"]
      /\ launching[s] = None /\ unrecorded' = unrecorded \ {p} /\ UNCHANGED <<rec, pc, mem>>
  BY DEF Dispatch
<1>2. \A q \in Parts : Backed(q) => Backed(q)'
  BY <1>1, SupervisionAssumption DEF Backed, OwnInv, TypeInv, TypeOK
<1> QED
  BY <1>1, <1>2 DEF DoneInv, ReadInv, CopyInv, OldInv, MemInv, DoneIsBacked, Backed, Early, Drivers

(* The driver alone changes one part of the record, which is not over, and *)
(* of its copy, where it is pending.                                       *)
LEMMA RecordDone ==
  ASSUME OwnInv, WorkInv, DoneInv, NEW s \in Procs,
         RecordLaunch(s) \/ LaunchRefused(s) \/ \E p \in Parts : PartFails(s, p)
  PROVE  DoneInv'
<1> USE SupervisionAssumption
<1>1. /\ s \in Drivers /\ pc[s] = "dispatch" /\ UNCHANGED pc
      /\ \A t \in Procs \ {s} : t \notin Drivers /\ launching[t] = None
      /\ rec.live
  <2>1. pc[s] = "dispatch" /\ UNCHANGED pc
    BY DEF RecordLaunch, LaunchRefused, PartFails, OwnInv, TypeInv, LaunchInv
  <2> QED
    BY <2>1, Alone DEF Drivers
<1> DEFINE About(p) ==
      /\ launching[s] \in {None, p}
      /\ mem'[s][p] \in {"running", "failed"} /\ mem[s][p] = "pending"
      /\ \A q \in Parts \ {p} : mem'[s][q] = mem[s][q] /\ run'[q] = run[q]
      /\ \A t \in Procs \ {s} : mem'[t] = mem[t] /\ launching'[t] = launching[t]
      /\ unrecorded \subseteq unrecorded'
      /\ run[p] = "completed" => run'[p] = "completed"
      /\ \/ rec' = rec /\ (Backed(p) => Backed(p)') /\ mem'[s][p] = "failed"
         \/ /\ TakesPart(p) /\ rec' = [rec EXCEPT !.part[p] = "failed"]
            /\ mem'[s][p] = "failed" /\ (Backed(p) => Backed(p)')
         \/ TakesPart(p) /\ rec' = [rec EXCEPT !.part[p] = "running"]
<1>2. PICK p \in Parts : About(p)
  <2>1. CASE RecordLaunch(s)
    <3>1. PICK p \in Parts : p = launching[s] /\ mem[s][p] = "pending"
      BY <2>1 DEF RecordLaunch, OwnInv, TypeInv, TypeOK, LaunchInv
    <3>2. About(p)
      BY <2>1, <3>1 DEF RecordLaunch, Backed, runVars, OwnInv, TypeInv, TypeOK
    <3> QED
      BY <3>2
  <2>2. CASE LaunchRefused(s)
    <3>1. PICK p \in Parts : p = launching[s] /\ mem[s][p] = "pending"
      BY <2>2 DEF LaunchRefused, OwnInv, TypeInv, TypeOK, LaunchInv
    <3>2. About(p)
      BY <2>2, <3>1 DEF LaunchRefused, Backed, runVars, OwnInv, TypeInv, TypeOK
    <3> QED
      BY <3>2
  <2>3. ASSUME NEW p \in Parts, PartFails(s, p) PROVE About(p)
    BY <2>3 DEF PartFails, runVars, Backed, OwnInv, TypeInv, TypeOK
  <2> QED
    BY <2>1, <2>2, <2>3
<1>3. /\ rec'.status = rec.status /\ rec'.live /\ rec'.owner = rec.owner
      /\ \A q \in Parts \ {p} : rec'.part[q] = rec.part[q]
  BY <1>1, <1>2 DEF OwnInv, TypeInv, TypeOK, Record
<1>4. ASSUME NEW q \in Parts \ {p}, Backed(q) PROVE Backed(q)'
  BY <1>1, <1>2, <1>4 DEF Backed
<1>5. ReadInv'
  BY <1>3 DEF ReadInv
<1>6. CopyInv'
  <2>1. rec.status = "running" /\ Over(rec'.part[p]) => Over(mem'[s][p])
    BY <1>1, <1>2 DEF DoneInv, CopyInv, Over, OwnInv, TypeInv, TypeOK, Record
  <2> QED
    BY <1>1, <1>2, <1>3, <2>1 DEF DoneInv, CopyInv, Drivers
<1>7. \A t \in Procs : Early(t) /\ pc[t] # "new" => mem'[t] = mem[t] /\
        (TakesPart(p) => mem[t][p] # "done")
  BY <1>1, <1>2, ReadersAgree DEF Early, TakesPart, Over
<1>8. OldInv'
  <2>1. ASSUME NEW t \in Procs, Early(t), pc[t] # "new", NEW q \in Parts, mem[t][q] = "done"
        PROVE  Over(rec'.part[q])
    <3>1. Over(rec.part[q])
      BY <1>1, <2>1, ReadersAgree
    <3> QED
      BY <1>2, <1>3, <1>7, <2>1, <3>1
  <2> QED
    BY <1>1, <1>7, <2>1 DEF OldInv, Early
<1>9. MemInv'
  <2>1. ASSUME NEW t \in Procs, pc[t] \notin {"new", "gone"}, NEW q \in Parts, mem'[t][q] = "done"
        PROVE  Backed(q)'
    <3>1. mem[t][q] = "done" /\ (t = s => q # p)
      BY <1>2, <2>1
    <3>2. Backed(q) /\ (t # s => Early(t))
      BY <1>1, <2>1, <3>1 DEF DoneInv, MemInv, Early, Drivers, OwnInv, TypeInv, TypeOK, Pc
    <3> QED
      BY <1>2, <1>4, <1>7, <2>1, <3>1, <3>2
  <2> QED
    BY <1>1, <2>1 DEF MemInv
<1>10. DoneIsBacked'
  <2>1. rec'.part[p] = "done" => Backed(p)'
    BY <1>2 DEF DoneInv, DoneIsBacked, Backed, OwnInv, TypeInv, TypeOK, Record
  <2> QED
    BY <1>3, <1>4, <2>1 DEF DoneInv, DoneIsBacked, Backed
<1> QED
  BY <1>5, <1>6, <1>8, <1>9, <1>10 DEF DoneInv

LEMMA EnvironmentDone ==
  ASSUME Timely, OwnInv, WorkInv, DoneInv,
         \/ \E p \in Parts : RunEnds(p)
         \/ LeaseExpires \/ InterruptLoad \/ InterruptMark \/ InterruptCancel
  PROVE  DoneInv'
<1>1. /\ UNCHANGED <<pc, mem, launching, unrecorded>> /\ rec'.part = rec.part
      /\ \/ rec' = rec
         \/ rec'.status = "interrupted" /\ rec'.live = rec.live /\ rec'.owner = rec.owner
         \/ /\ rec'.status = rec.status
            /\ \A s \in Procs : pc[s] \notin {"loaded", "acquire", "ready"}
  BY DEF RunEnds, LeaseExpires, InterruptLoad, InterruptMark, InterruptCancel, runVars, OwnInv,
     TypeInv, TypeOK, Record
<1>2. \A p \in Parts : run[p] = "completed" => run'[p] = "completed"
  <2>1. ASSUME NEW q \in Parts, RunEnds(q)
        PROVE  \A p \in Parts : run[p] = "completed" => run'[p] = "completed"
    BY <2>1 DEF RunEnds, OwnInv, TypeInv, TypeOK
  <2>2. CASE InterruptCancel
    BY <2>2 DEF InterruptCancel
  <2> QED
    BY <2>1, <2>2 DEF LeaseExpires, InterruptLoad, InterruptMark, runVars
<1>3. ReadInv'
  BY <1>1 DEF DoneInv, ReadInv, Early
<1>4. CopyInv'
  BY <1>1 DEF DoneInv, CopyInv, Drivers
<1>5. OldInv'
  BY <1>1 DEF DoneInv, OldInv, Early
<1>6. MemInv' /\ DoneIsBacked'
  BY <1>1, <1>2 DEF DoneInv, MemInv, DoneIsBacked, Backed
<1> QED
  BY <1>3, <1>4, <1>5, <1>6 DEF DoneInv

LEMMA DoneStep ==
  ASSUME Timely
  PROVE  OwnInv /\ WorkInv /\ DoneInv /\ [Next]_vars => DoneInv'
<1> SUFFICES ASSUME OwnInv, WorkInv, DoneInv, [Next]_vars PROVE DoneInv'
  OBVIOUS
<1>1. CASE UNCHANGED vars
  BY <1>1 DEF vars, DoneInv, ReadInv, CopyInv, OldInv, MemInv, DoneIsBacked, Backed, Early, Drivers
<1> QED
  BY <1>1, AttachDone, TakeDone, RehydrateDone, PersistDone, EndDone, LeaveDone, DispatchDone,
     RecordDone, EnvironmentDone DEF Next

(* As long as no process is slower than its lease, a part is done in the   *)
(* record only when its latest run completed, or a launch the record knows *)
(* nothing of has followed (service.rs persist_state and reconcile).       *)
THEOREM DoneBacked == ASSUME Timely PROVE Spec => []DoneIsBacked
<1>1. Init => OwnInv
  BY InitInv DEF OwnInv
<1>2. OwnInv /\ [Next]_vars => OwnInv'
  BY TypeStep, OwnershipStep DEF OwnInv
<1>3. DoneInv => DoneIsBacked
  BY DEF DoneInv
<1> QED
  BY <1>1, <1>2, <1>3, WorkInit, WorkStep, DoneInit, DoneStep, PTL DEF Spec
=============================================================================
