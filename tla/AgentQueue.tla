------------------------------ MODULE AgentQueue ------------------------------
(***************************************************************************)
(* The queue of sub-agents (queue): agent-queue.json, a FIFO list of       *)
(* reservations that orchestrator sessions change through the commands of  *)
(* `neomax queue`.  Every command is one transaction under the exclusive   *)
(* lock of the file: drop the reservations that are too old or whose       *)
(* session is known to be dead, apply the operation, hand out what the     *)
(* budgets leave free, write the file.                                     *)
(*                                                                         *)
(* A command reads the clock, and which sessions are dead, before it waits *)
(* for the lock, so a transaction works with an earlier time (`lag`) and   *)
(* may miss a death (`seen`).  A reservation is found by its task, of      *)
(* which the file has one; an id that is out of date finds nothing.        *)
(***************************************************************************)
EXTENDS Integers, FiniteSets, SequencesExt, FiniteSetsExt

CONSTANTS
  Tasks,
  Sessions,       \* registered orchestrator sessions
  Callers,        \* processes without a session: they reserve as pid-<n>
  AgentBudgets,   \* what set-budget may set, and the defaults, are among these
  TaskBudgets,    \* 0 means no cap
  Wants,          \* agents asked for at a time
  U32Max,         \* where the sum of grants saturates
  QueueTtl,       \* queue_ttl_seconds
  MaxLag          \* bound of the model: how long a command waits for the lock

Owners == Sessions \cup Callers

ASSUME QueueAssumption ==
  /\ IsFiniteSet(Tasks) /\ Sessions \cap Callers = {}
  /\ U32Max \in Nat /\ QueueTtl \in Nat /\ MaxLag \in Nat
  /\ AgentBudgets \subseteq 0..U32Max /\ AgentBudgets # {}
  /\ TaskBudgets \subseteq 0..U32Max /\ TaskBudgets # {}
  /\ Wants \subseteq 1..U32Max

(* Ages are counted up to where no command can tell them apart.            *)
MaxAge == QueueTtl + MaxLag + 1

Reservation == [task : Tasks, want : Wants, granted : Nat, session : Owners, age : 0..MaxAge]

VARIABLES
  queue,         \* the reservations in the order of the file
  agentBudget,
  taskBudget,
  dead,          \* sessions whose process has ended
  told           \* the reservation each task's caller was last told of, {} or a singleton

queueVars == <<queue, agentBudget, taskBudget, dead, told>>

(* One reservation at most for a task, and the budgets are numbers.        *)
QueueTypeOK ==
  /\ queue \in Seq(Reservation)
  /\ \A i, j \in DOMAIN queue : queue[i].task = queue[j].task => i = j
  /\ agentBudget \in AgentBudgets /\ taskBudget \in TaskBudgets
  /\ dead \subseteq Sessions
  /\ told \in [Tasks -> SUBSET Reservation]

-----------------------------------------------------------------------------
(* Allocation of a queue q.                                                *)

Monus(a, b) == IF a > b THEN a - b ELSE 0

(* The sum of amounts, a sequence of numbers.                              *)
Sums(amounts) ==
  LET sum[i \in 0 .. Len(amounts)] == IF i = 0 THEN 0 ELSE sum[i - 1] + amounts[i]
  IN  sum
Total(amounts) == Sums(amounts)[Len(amounts)]

(* used: the sum saturates.                                                *)
Used(q) == Min({Total([i \in DOMAIN q |-> Min({q[i].granted, q[i].want})]), U32Max})

Active(q) == {i \in DOMAIN q : q[i].granted > 0}

(* First come the reservations that have agents and want more, then those *)
(* that have none, as long as the task budget has places for them.         *)
Ask(r, waiting, active, places) ==
  IF waiting
  THEN IF r.granted = 0 /\ (places = 0 \/ active < places) THEN r.want ELSE 0
  ELSE IF r.granted > 0 THEN Monus(r.want, r.granted) ELSE 0

(* Wrong on purpose: a request that does not fit is passed over.           *)
ServingFitting(q, free, waiting, places) ==
  LET after[i \in 0 .. Len(q)] ==
        IF i = 0 THEN [gets |-> 0, free |-> free, active |-> Cardinality(Active(q))]
        ELSE LET before == after[i - 1]
                 ask    == Ask(q[i], waiting, before.active, places)
                 n      == IF ask <= before.free THEN ask ELSE 0
             IN  [gets   |-> n,
                  free   |-> before.free - n,
                  active |-> before.active + IF q[i].granted = 0 /\ n > 0 THEN 1 ELSE 0]
  IN  after

(* What is free goes, in the order of the file, to those who ask: what the *)
(* i-th one gets, and what is left after it.                               *)
Serving(q, free, waiting, places) ==
  LET after[i \in 0 .. Len(q)] ==
        IF i = 0 THEN [gets |-> 0, free |-> free, active |-> Cardinality(Active(q))]
        ELSE LET before == after[i - 1]
                 n      == Min({Ask(q[i], waiting, before.active, places), before.free})
             IN  [gets   |-> n,
                  free   |-> before.free - n,
                  active |-> before.active + IF q[i].granted = 0 /\ n > 0 THEN 1 ELSE 0]
  IN  after
HandOut(q, free, waiting, places) ==
  LET after == Serving(q, free, waiting, places)
  IN  [i \in DOMAIN q |-> [q[i] EXCEPT !.granted = @ + after[i].gets]]

TopUp(q, budget) == HandOut(q, Monus(budget, Used(q)), FALSE, 0)
StartWaiting(q, budget, places) == HandOut(q, Monus(budget, Used(q)), TRUE, places)

(* Wrong on purpose: waiting reservations only.                            *)
AllocatedToWaiting(q, budget, places) == StartWaiting(q, budget, places)

Allocated(q, budget, places) == StartWaiting(TopUp(q, budget), budget, places)

-----------------------------------------------------------------------------

(* Wrong on purpose: off by one at the TTL.                                *)
AliveBelowTtl(r, lag, seen) ==
  /\ r.age - lag < QueueTtl
  /\ r.session \notin seen

Alive(r, lag, seen) ==
  /\ r.age - lag <= QueueTtl
  /\ r.session \notin seen

(* The reservations of q with an index in `stay`, in their order.          *)
Retained(q, stay) ==
  LET kept[i \in 0 .. Len(q)] ==
        IF i = 0 THEN <<>>
        ELSE IF i \in stay THEN Append(kept[i - 1], q[i]) ELSE kept[i - 1]
  IN  kept
Only(q, stay) == Retained(q, stay)[Len(q)]

Living(lag, seen) == Only(queue, {i \in DOMAIN queue : Alive(queue[i], lag, seen)})

(* The caller learns what the file now says of the tasks it named.  What   *)
(* the file says of a session that has ended promises nothing.             *)
Tell(named, q) ==
  LET Promised(k) == {r \in ToSet(q) : r.task = k /\ r.session \notin dead}
  IN  told' = [k \in Tasks |-> IF k \in named THEN Promised(k) ELSE told[k]]

Commit(q) == queue' = Allocated(q, agentBudget', taskBudget')

QueueInit ==
  /\ queue = <<>>
  /\ agentBudget \in AgentBudgets /\ taskBudget \in TaskBudgets
  /\ dead = {}
  /\ told = [k \in Tasks |-> {}]

-----------------------------------------------------------------------------

(* Wrong on purpose: the newest first.                                     *)
RequestedFirst(q, k, n, s, lag) ==
  IF \E i \in DOMAIN q : q[i].task = k
  THEN [i \in DOMAIN q |-> IF q[i].task = k THEN [q[i] EXCEPT !.want = Max({@, n})] ELSE q[i]]
  ELSE <<[task |-> k, want |-> n, granted |-> 0, session |-> s, age |-> lag]>> \o q

(* A task that has a reservation keeps it, with its place, session and age,*)
(* and may only ask for more.                                              *)
Requested(q, k, n, s, lag) ==
  IF \E i \in DOMAIN q : q[i].task = k
  THEN [i \in DOMAIN q |-> IF q[i].task = k THEN [q[i] EXCEPT !.want = Max({@, n})] ELSE q[i]]
  ELSE Append(q, [task |-> k, want |-> n, granted |-> 0, session |-> s, age |-> lag])

Reserve(k, n, s, lag, seen) ==
  /\ s \notin dead
  /\ UNCHANGED <<agentBudget, taskBudget, dead>>
  /\ Commit(Requested(Living(lag, seen), k, n, s, lag))
  /\ Tell({k}, queue')

(* poll and status: `named` is empty for status.                           *)
Poll(named, lag, seen) ==
  /\ UNCHANGED <<agentBudget, taskBudget, dead>>
  /\ Commit(Living(lag, seen))
  /\ Tell(named, queue')

(* release by id, by task, or by both, which may be of two reservations.   *)
ReleaseTasks(named, lag, seen) ==
  /\ UNCHANGED <<agentBudget, taskBudget, dead>>
  /\ LET living == Living(lag, seen)
     IN  Commit(Only(living, {i \in DOMAIN living : living[i].task \notin named}))
  /\ told' = [k \in Tasks |-> IF k \in named THEN {} ELSE told[k]]

SetBudget(agents, tasks, lag, seen) ==
  /\ agentBudget' = agents /\ taskBudget' = tasks
  /\ UNCHANGED dead
  /\ Commit(Living(lag, seen))
  /\ UNCHANGED told

(* Time passes.                                                            *)
TimePasses ==
  LET Older(r) == [r EXCEPT !.age = Min({@ + 1, MaxAge})]
  IN  /\ queue' = [i \in DOMAIN queue |-> Older(queue[i])]
      /\ told' = [k \in Tasks |-> {Older(r) : r \in told[k]}]
      /\ UNCHANGED <<agentBudget, taskBudget, dead>>

(* What the reservations of a session promised ends with it.               *)
Exit(s) ==
  /\ s \notin dead
  /\ dead' = dead \cup {s}
  /\ told' = [k \in Tasks |-> {r \in told[k] : r.session # s}]
  /\ UNCHANGED <<queue, agentBudget, taskBudget>>

(* A session is registered again, under a new process.                     *)
Register(s) ==
  /\ s \in dead
  /\ dead' = dead \ {s}
  /\ UNCHANGED <<queue, agentBudget, taskBudget, told>>

Commands ==
  \E lag \in 0..MaxLag, seen \in SUBSET dead :
    \/ \E k \in Tasks, n \in Wants, s \in Owners : Reserve(k, n, s, lag, seen)
    \/ \E k, l \in Tasks : ReleaseTasks({k, l}, lag, seen)
    \/ \E k \in Tasks : Poll({k}, lag, seen)
    \/ Poll({}, lag, seen)
    \/ \E agents \in AgentBudgets, tasks \in TaskBudgets : SetBudget(agents, tasks, lag, seen)

QueueNext ==
  \/ Commands
  \/ TimePasses
  \/ \E s \in Sessions : Exit(s) \/ Register(s)

QueueSpec == QueueInit /\ [][QueueNext]_queueVars

IsActive(k) == \E i \in Active(queue) : queue[i].task = k

Waits(k) == \E i \in DOMAIN queue : queue[i].task = k /\ queue[i].granted = 0

(* Those who have agents release them some day (the callers' duty, not the *)
(* queue's): weak fairness, with what enables the release written out.     *)
FairSpec ==
  QueueSpec /\ \A k \in Tasks : []<>~IsActive(k) \/ []<><<ReleaseTasks({k}, 0, {})>>_queueVars

-----------------------------------------------------------------------------
TotalGranted(q) == Total([i \in DOMAIN q |-> q[i].granted])

(* Agents stay idle only when nobody who may have them wants them.         *)
NothingIdle ==
  \/ TotalGranted(queue) >= agentBudget
  \/ \A i \in DOMAIN queue :
       \/ queue[i].granted = queue[i].want
       \/ queue[i].granted = 0 /\ taskBudget # 0 /\ Cardinality(Active(queue)) >= taskBudget

(* First in, first out: whatever is dropped, released or asked again, no   *)
(* reservation has agents while one that came earlier has none.            *)
NoOvertaking == Active(queue) = 1..Cardinality(Active(queue))

(* What a caller was told it has stays reserved for it until its task is   *)
(* released, its session ends or the reservation is older than the TTL:    *)
(* no budget change and no other command takes it away.                    *)
PromiseKept ==
  \A k \in Tasks : \A r \in told[k] :
    r.age <= QueueTtl => \E i \in DOMAIN queue :
                      /\ queue[i].task = k /\ queue[i].session = r.session
                      /\ queue[i].granted >= r.granted

(* Nobody waits for ever, although running tasks that ask for more are     *)
(* served before those that wait: a task gets agents, or is released, or   *)
(* its reservation becomes older than the TTL and is dropped.              *)
TooOld(k) == \E i \in DOMAIN queue : queue[i].task = k /\ queue[i].age > QueueTtl
Served == \A k \in Tasks : Waits(k) ~> ~Waits(k) \/ TooOld(k)
=============================================================================
