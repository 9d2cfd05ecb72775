--------------------------- MODULE AccountRotation ---------------------------
(***************************************************************************)
(* Runs that hit the limit of an account and go on with another: in place, *)
(* by a swap of the credentials of two profiles, or by a move to another   *)
(* profile.  Supervisors of runs (runs/coordinator), the maintenance tick  *)
(* (rotate-tick) and the rotate command work at the same time; claims keep *)
(* them from taking the same target.  A credential transaction is one step *)
(* here; AuthTransaction has its steps.                                    *)
(***************************************************************************)
EXTENDS Naturals, FiniteSets

CONSTANTS
  Profiles, Runs, Nil,
  Patient,     \* does a claim outlive the rotation it was made for?
  Setups       \* what a behaviour starts from, and how much happens in it

VARIABLES
  holds,    \* the account a profile is logged in to
  cache,    \* the account of which a profile's cached quota is
  cool,     \* the account until whose reset a profile is cooling, or Nil
  claims,   \* the claimed targets
  meta,     \* who has account-metadata.lock
  run, proc,
  setup, count

rotationVars == <<holds, cache, cool, claims, meta, run, proc, setup, count>>

Logins == Profiles      \* named by the profile they were first logged in to
Actors == Runs \cup {"tick", "user"}
Counted == {"ticks", "rotates", "armed", "failures", "kills"}

ASSUME RotationAssumption ==
  /\ IsFiniteSet(Profiles) /\ Nil \notin Profiles /\ Nil \notin Actors
  /\ {"tick", "user"} \cap Runs = {} /\ Patient \in BOOLEAN
  /\ Setups \subseteq [inPlace : BOOLEAN, at : [Runs -> Profiles], working : SUBSET Runs,
                       bound : [Counted -> Nat]]

(* Can credentials be swapped (Claude, Codex), or are runs moved?          *)
InPlace == setup.inPlace

Idle == [at |-> "idle", for |-> Nil, from |-> Nil, to |-> Nil, of |-> Nil,
         seen |-> {}, busy |-> {}, runs |-> {}]

RunRecord ==
  [status : {"working", "failing", "limit", "aborted", "done"},
   profile : Profiles, tried : SUBSET Profiles, attempt : 1 .. Cardinality(Profiles),
   uses : Logins, spent : SUBSET Logins, killed : BOOLEAN]
Rotation ==
  [at : {"idle", "planning", "chosen", "moving", "moved"},
   for : Runs \cup {Nil}, from : Profiles \cup {Nil}, to : Profiles \cup {Nil},
   of : Logins \cup {Nil}, seen : SUBSET Profiles, busy : SUBSET Profiles, runs : SUBSET Runs]

(* A run at rest has no rotation under way; a lock holder is between the   *)
(* two halves of a swap.                                                   *)
Linked ==
  /\ \A a \in Actors : meta = a <=> proc[a].at = "moving"
  /\ \A r \in Runs : proc[r].at # "idle" => run[r].status = "failing" /\ proc[r].for = r

RotationTypeOK ==
  /\ holds \in [Profiles -> Logins]
  /\ cache \in [Profiles -> Logins] /\ cool \in [Profiles -> Logins \cup {Nil}]
  /\ claims \subseteq Profiles /\ meta \in Actors \cup {Nil}
  /\ run \in [Runs -> RunRecord] /\ proc \in [Actors -> Rotation] /\ Linked
  /\ setup \in Setups /\ count \in [Counted -> Nat]
  /\ \A what \in Counted : count[what] <= setup.bound[what]

-----------------------------------------------------------------------------
Exchange(f, p, q) == [f EXCEPT ![p] = f[q], ![q] = f[p]]
May(what) == count[what] < setup.bound[what] /\ count' = [count EXCEPT ![what] = @ + 1]

(* The accounts that inventory and selection let a rotation go to.         *)
Eligible == {p \in Profiles : cool[p] = Nil}

(* record_limit_cooldown.                                                  *)
Cooldown(p, a) == [cool EXCEPT ![p] = a]

(* An attempt ends with the limit of the account whose credential it read  *)
(* when it began, or without one.                                          *)
Hit(r) ==
  /\ run[r].status = "working"
  /\ run' = [run EXCEPT ![r].status = "failing", ![r].spent = @ \cup {run[r].uses}]
  /\ UNCHANGED <<holds, cache, cool, claims, meta, proc, count>>
Done(r) ==
  /\ run[r].status = "working"
  /\ run' = [run EXCEPT ![r].status = "done"]
  /\ UNCHANGED <<holds, cache, cool, claims, meta, proc, count>>

(* routing_snapshots: what a supervisor decides on afterwards.             *)
Look(r) ==
  /\ run[r].status = "failing" /\ proc[r].at = "idle" /\ ~run[r].killed
  /\ proc' = [proc EXCEPT ![r] = [Idle EXCEPT !.at = "planning", !.for = r,
                !.from = run[r].profile, !.of = run[r].uses, !.seen = Eligible]]
  /\ UNCHANGED <<holds, cache, cool, claims, meta, run, count>>

(* The tick looks once, at the accounts and at the runs, and then rotates  *)
(* the limited runs one after the other.                                   *)
TickLook ==
  /\ InPlace /\ proc["tick"].at = "idle" /\ May("ticks")
  /\ \E r \in Runs : run[r].status = "limit"
  /\ proc' = [proc EXCEPT !["tick"] = [Idle EXCEPT !.at = "planning", !.seen = Eligible,
                                    !.runs = {r \in Runs : run[r].status = "limit"}]]
  /\ UNCHANGED <<holds, cache, cool, claims, meta, run>>
TickTake(r) ==
  /\ proc["tick"].at = "planning" /\ proc["tick"].for = Nil /\ r \in proc["tick"].runs
  /\ proc' = [proc EXCEPT !["tick"].for = r, !["tick"].from = run[r].profile,
                          !["tick"].of = run[r].uses, !["tick"].runs = @ \ {r}]
  /\ UNCHANGED <<holds, cache, cool, claims, meta, run, count>>
TickEnd ==
  /\ proc["tick"].at = "planning" /\ proc["tick"].for = Nil /\ proc["tick"].runs = {}
  /\ proc' = [proc EXCEPT !["tick"] = Idle]
  /\ UNCHANGED <<holds, cache, cool, claims, meta, run, count>>

(* rotate of an account chooses a source and a target and claims both.     *)
UserLook ==
  /\ InPlace /\ proc["user"].at = "idle" /\ May("rotates")
  /\ \E p, q \in Profiles :
       /\ p # q /\ q \in Eligible /\ p \notin claims
       /\ claims' = claims \cup {p}
       /\ proc' = [proc EXCEPT !["user"] = [Idle EXCEPT !.at = "planning", !.from = p, !.seen = {q}]]
  /\ UNCHANGED <<holds, cache, cool, meta, run>>

Left(a) ==
  LET r == proc[a].for
  IN  proc[a].seen \ (proc[a].busy \cup {proc[a].from} \cup (IF r = Nil THEN {} ELSE run[r].tried))

Plans(a) ==
  /\ proc[a].at = "planning"
  /\ a \in Runs => ~run[a].killed
  /\ a = "tick" => proc[a].for # Nil
More(a) == proc[a].for # Nil => run[proc[a].for].attempt < Cardinality(Profiles)

(* Wrong on purpose: a claimed target is claimed again.                    *)
ChooseAny(a) ==
  /\ Plans(a) /\ More(a)
  /\ \E q \in Left(a) :
       /\ claims' = claims \cup {q}
       /\ proc' = [proc EXCEPT ![a].at = "chosen", ![a].to = q]
  /\ UNCHANGED <<holds, cache, cool, meta, run, count>>

(* Wrong on purpose: a busy target is not taken off the list.              *)
ChooseAgain(a) ==
  /\ Plans(a) /\ More(a)
  /\ \E q \in Left(a) \ claims :
       /\ claims' = claims \cup {q}
       /\ proc' = [proc EXCEPT ![a].at = "chosen", ![a].to = q]
  /\ UNCHANGED <<holds, cache, cool, meta, run, count>>

(* plan_target: of the accounts seen, those left are tried, and one that   *)
(* can be claimed is taken.                                                *)
Choose(a) ==
  /\ Plans(a) /\ More(a)
  /\ \E q \in Left(a) :
       IF q \in claims
       THEN proc' = [proc EXCEPT ![a].busy = @ \cup {q}] /\ UNCHANGED claims
       ELSE /\ claims' = claims \cup {q}
            /\ proc' = [proc EXCEPT ![a].at = "chosen", ![a].to = q]
  /\ UNCHANGED <<holds, cache, cool, meta, run, count>>

Rest(a) ==
  IF a = "tick"
  THEN [proc EXCEPT ![a] = [Idle EXCEPT !.at = "planning", !.seen = proc[a].seen,
                                        !.runs = proc[a].runs]]
  ELSE [proc EXCEPT ![a] = Idle]
Claimed(a) == {proc[a].to} \cup (IF a = "user" THEN {proc[a].from} ELSE {})

(* The end of a rotation that does not take place, on the cooldowns c: a   *)
(* supervisor leaves its run limited and its profile cooling.  The targets *)
(* that were busy count as tried, unless the tick found no other.          *)
Leave(a, free, c) ==
  LET Marked(r) == [run[r] EXCEPT !.tried = @ \cup proc[a].busy]
  IN  /\ proc' = Rest(a)
      /\ claims' = claims \ free
      /\ cool' = IF a \in Runs THEN [c EXCEPT ![run[a].profile] = proc[a].of] ELSE c
      /\ run' = IF a \in Runs THEN [run EXCEPT ![a] = [Marked(a) EXCEPT !.status = "limit"]]
                ELSE IF a = "tick" /\ proc[a].at # "planning"
                THEN [run EXCEPT ![proc[a].for] = Marked(proc[a].for)] ELSE run
Stop(a) ==
  /\ Plans(a) /\ (Left(a) = {} \/ ~More(a))
  /\ Leave(a, IF a = "user" THEN {proc[a].from} ELSE {}, cool)
  /\ UNCHANGED <<holds, cache, meta, count>>

(* A kill makes a supervisor leave at its next look at the record; before  *)
(* the end of the swap no claim is given back at one of the two looks.     *)
Abort(r) ==
  /\ run[r].status = "failing" /\ run[r].killed /\ proc[r].at # "moving"
  /\ \/ proc[r].at \in {"chosen", "moved"} /\ claims' = claims \ {proc[r].to}
     \/ proc[r].at # "moved" /\ UNCHANGED claims
  /\ run' = [run EXCEPT ![r].status = "aborted"]
  /\ proc' = [proc EXCEPT ![r] = Idle]
  /\ UNCHANGED <<holds, cache, cool, meta, count>>

(* swap_account_auth: under the lock the credentials are swapped, then the *)
(* cached quotas, which were read before, and the cooldowns.               *)
Swap(a) ==
  /\ InPlace /\ proc[a].at = "chosen" /\ meta = Nil
  /\ holds' = Exchange(holds, proc[a].from, proc[a].to)
  /\ meta' = a
  /\ proc' = [proc EXCEPT ![a].at = "moving"]
  /\ UNCHANGED <<cache, cool, claims, run, count>>

(* Wrong on purpose: only the quotas are moved.                            *)
MoveQuota(a) ==
  /\ proc[a].at = "moving" /\ meta' = Nil
  /\ cache' = Exchange(cache, proc[a].from, proc[a].to)
  /\ proc' = [proc EXCEPT ![a].at = "moved"]
  /\ UNCHANGED <<holds, cool, claims, run, count>>

Move(a) ==
  /\ proc[a].at = "moving" /\ meta' = Nil
  /\ cache' = Exchange(cache, proc[a].from, proc[a].to)
  /\ cool' = Exchange(cool, proc[a].from, proc[a].to)
  /\ proc' = [proc EXCEPT ![a].at = "moved"]
  /\ UNCHANGED <<holds, claims, run, count>>

(* The quotas or cooldowns cannot be written and the credentials are       *)
(* swapped back, or a run that is to move cannot write its handoff.        *)
MoveFails(a) ==
  /\ May("failures")
  /\ \/ proc[a].at = "moving" /\ meta' = Nil
        /\ holds' = Exchange(holds, proc[a].from, proc[a].to)
     \/ ~InPlace /\ proc[a].at = "chosen" /\ UNCHANGED <<meta, holds>>
  /\ Leave(a, Claimed(a), cool)
  /\ UNCHANGED cache

(* The handoff cannot be written: everything is swapped back.              *)
BatonFails(a) ==
  /\ a # "user" /\ proc[a].at = "moved" /\ meta = Nil /\ May("failures")
  /\ holds' = Exchange(holds, proc[a].from, proc[a].to)
  /\ cache' = Exchange(cache, proc[a].from, proc[a].to)
  /\ Leave(a, Claimed(a), Exchange(cool, proc[a].from, proc[a].to))
  /\ UNCHANGED meta

(* Wrong on purpose: the target of a swap is not remembered.               *)
TriedSource(a) ==
  LET r == proc[a].for IN run[r].tried \cup proc[a].busy \cup {run[r].profile}

(* apply_to_run.                                                           *)
Tried(a) ==
  LET r == proc[a].for
  IN  run[r].tried \cup proc[a].busy \cup {run[r].profile} \cup (IF InPlace THEN {proc[a].to} ELSE {})

(* Wrong on purpose: a swap cools the profile it began with.              *)
SpentSlotSource(a) == proc[a].from

(* ContinuationOutcome::cooldown_profile.                                  *)
SpentSlot(a) == IF InPlace THEN proc[a].to ELSE proc[a].from

(* After the swap the spent credential's profile is cooled, and the run    *)
(* starts its next attempt.                                                *)
Resume(r) ==
  /\ ~run[r].killed
  /\ IF InPlace THEN proc[r].at = "moved" ELSE proc[r].at = "chosen"
  /\ cool' = Cooldown(SpentSlot(r), proc[r].of)
  /\ LET p == IF InPlace THEN run[r].profile ELSE proc[r].to
     IN  run' = [run EXCEPT ![r].status = "working", ![r].tried = Tried(r), ![r].attempt = @ + 1,
                            ![r].profile = p, ![r].uses = holds[p]]
  /\ proc' = Rest(r)
  /\ UNCHANGED <<holds, cache, claims, meta, count>>
TickRecord ==
  LET r == proc["tick"].for
  IN  /\ proc["tick"].at = "moved"
      /\ cool' = Cooldown(SpentSlot("tick"), proc["tick"].of)
      /\ run' = [run EXCEPT ![r].tried = Tried("tick"), ![r].attempt = @ + 1]
      /\ proc' = Rest("tick") /\ claims' = claims \ {proc["tick"].to}
      /\ UNCHANGED <<holds, cache, meta, count>>
UserEnd ==
  /\ proc["user"].at = "moved"
  /\ proc' = Rest("user") /\ claims' = claims \ Claimed("user")
  /\ UNCHANGED <<holds, cache, cool, meta, run, count>>

(* The sweep over armed profiles: it swaps credentials without the lock    *)
(* and sets one cooldown.                                                  *)
ArmedSwap(p) ==
  /\ InPlace /\ p \notin claims /\ cool[p] = Nil /\ May("armed")
  /\ \E q \in Eligible \ {p} :
       /\ holds' = Exchange(holds, p, q)
       /\ cool' = Cooldown(q, cache[p])
  /\ claims' = claims \cup {p}
  /\ UNCHANGED <<cache, meta, run, proc>>

Kill(r) ==
  /\ run[r].status = "failing" /\ ~run[r].killed /\ May("kills")
  /\ run' = [run EXCEPT ![r].killed = TRUE]
  /\ UNCHANGED <<holds, cache, cool, claims, meta, proc>>

(* The usage agent reads the quota of a profile's account.                 *)
Observe(p) ==
  /\ meta = Nil /\ cache[p] # holds[p]
  /\ cache' = [cache EXCEPT ![p] = holds[p]]
  /\ UNCHANGED <<holds, cool, claims, meta, run, proc, count>>
Reset(p) ==
  /\ cool[p] # Nil /\ cool' = [cool EXCEPT ![p] = Nil]
  /\ UNCHANGED <<holds, cache, claims, meta, run, proc, count>>
(* A claim is good for two minutes.                                        *)
Lapse(p) ==
  /\ p \in claims
  /\ Patient => \A a \in Actors : p \notin Claimed(a)
  /\ claims' = claims \ {p}
  /\ UNCHANGED <<holds, cache, cool, meta, run, proc, count>>

RotationInit ==
  /\ holds = [p \in Profiles |-> p]
  /\ cache = [p \in Profiles |-> p] /\ cool = [p \in Profiles |-> Nil]
  /\ claims = {} /\ meta = Nil
  /\ setup \in Setups
  /\ run = [r \in Runs |-> [status |-> IF r \in setup.working THEN "working" ELSE "done",
                            profile |-> setup.at[r], tried |-> {}, attempt |-> 1,
                            uses |-> setup.at[r], spent |-> {}, killed |-> FALSE]]
  /\ proc = [a \in Actors |-> Idle]
  /\ count = [what \in Counted |-> 0]

Supervise(r) ==
  \/ Look(r) \/ Choose(r) \/ Stop(r) \/ Abort(r) \/ Swap(r) \/ Move(r) \/ Resume(r)
Maintain ==
  \/ TickLook \/ TickEnd \/ TickRecord \/ UserLook \/ UserEnd
  \/ \E r \in Runs : TickTake(r)
  \/ \E a \in {"tick", "user"} : Choose(a) \/ Stop(a) \/ Swap(a) \/ Move(a)
  \/ \E p \in Profiles : ArmedSwap(p)
Step ==
  \/ \E r \in Runs : Supervise(r) \/ Hit(r) \/ Done(r) \/ Kill(r)
  \/ Maintain
  \/ \E a \in Actors : MoveFails(a) \/ BatonFails(a)
  \/ \E p \in Profiles : Observe(p) \/ Reset(p) \/ Lapse(p)

RotationNext == Step /\ UNCHANGED setup

RotationSpec == RotationInit /\ [][RotationNext]_rotationVars

(* A supervisor does not stop, a worker ends, and whoever swaps gives the  *)
(* lock back.                                                              *)
Fairness ==
  /\ \A r \in Runs :
       /\ WF_rotationVars(Supervise(r) /\ UNCHANGED setup)
       /\ WF_rotationVars((Hit(r) \/ Done(r)) /\ UNCHANGED setup)
  /\ \A a \in {"tick", "user"} : WF_rotationVars(Move(a) /\ UNCHANGED setup)
FairSpec == RotationSpec /\ Fairness

-----------------------------------------------------------------------------
(* Two rotations under way never take the same profile: what one of them   *)
(* has claimed, no other has (RotationClaimStore).                         *)
Taken(a) ==
  IF proc[a].at \in {"chosen", "moving", "moved"} THEN Claimed(a)
  ELSE IF a = "user" /\ proc[a].at = "planning" THEN {proc[a].from} ELSE {}
OneTaker == \A a, b \in Actors : a # b => Taken(a) \cap Taken(b) = {}

(* Only supervisors and the tick rotate, as the rotate command and the     *)
(* sweep pay no heed to the runs that use the accounts they swap; and      *)
(* where credentials are swapped there is one run, and one tick, as two of *)
(* them do not heed each other either.  Runs that move may be many.        *)
Undisturbed ==
  /\ setup.bound["rotates"] = 0 /\ setup.bound["armed"] = 0
  /\ InPlace => setup.bound["ticks"] <= 1 /\ \A q, r \in setup.working : q = r

(* A profile cools because of the account it is logged in to: a rotation   *)
(* cools the spent credential and never the one that replaces it           *)
(* (swap_cooldowns, set_limit_cooldown).                                   *)
CoolFollows ==
  Undisturbed /\ meta = Nil => \A p \in Profiles : cool[p] \in {Nil, holds[p]}

(* The tries of one run are of different accounts: none is of an account   *)
(* whose limit an earlier one has hit, wherever its credential is by now   *)
(* (RunRecord::tried).                                                     *)
Fresh ==
  Undisturbed => \A r \in Runs : run[r].status = "working" => run[r].uses \notin run[r].spent

(* Every run ends: there are only so many accounts to fail over to.        *)
AllEnd == \A r \in Runs : <>[](run[r].status \in {"limit", "aborted", "done"})

(* When a supervisor is through with an account at its limit, the profile  *)
(* that is logged in to the account cools: whichever way the rotation      *)
(* ended, but for a kill.                                                  *)
SpentIsCooled ==
  [][\A r \in Runs :
       Undisturbed /\ run[r].status = "failing" /\ run'[r].status \in {"limit", "working"} =>
         \E p \in Profiles : holds'[p] = run[r].uses /\ cool'[p] = run[r].uses]_rotationVars

-----------------------------------------------------------------------------
(* The code does not keep the following in every setting, and no           *)
(* configuration checks it: README, "Known disagreements".                 *)

(* A profile's cached quota is of the account it is logged in to.          *)
CacheFollows == meta = Nil => \A p \in Profiles : cache[p] = holds[p]
=============================================================================
