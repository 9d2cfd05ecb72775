---------------------------- MODULE IssueClaims -----------------------------
(***************************************************************************)
(* The issue registry (issues): one file per issue, and the commands of    *)
(* `neomax issue`, each a process of its own.  A claim or a release loads  *)
(* the issue under .claim.lock and saves it under the lock of the issue;   *)
(* every other change loads and saves under the lock of the issue alone,   *)
(* and is one step here.  So is the list that open and next read.          *)
(*                                                                         *)
(* A command reads the clock, and which orchestrator sessions live, when   *)
(* it begins (RuntimeContext), and judges claims by that.  File locks end  *)
(* with the process that holds them.                                       *)
(***************************************************************************)
EXTENDS Integers, Sequences, FiniteSets

CONSTANTS
  Commands,   \* processes, each of one command
  Sessions,   \* orchestrator sessions
  SessionOf,  \* the session a command is given by, or None
  None,
  Ttl,        \* claim_ttl
  MaxIssues,  \* bound of the model
  MaxTime,    \* bound of the model
  Crashes     \* bound of the model: commands that die

VARIABLES
  issues,     \* the files, by key: keys are numbered in the order of creation
  live,       \* sessions that are registered and whose process lives
  now,
  cmd,        \* how far the commands are
  claimLock,  \* who holds .claim.lock
  openLock    \* who holds .open.lock

vars == <<issues, live, now, cmd, claimLock, openLock>>

ASSUME IssueAssumption ==
  /\ IsFiniteSet(Commands) /\ None \notin Commands /\ None \notin Sessions
  /\ SessionOf \in [Commands -> Sessions \cup {None}]
  /\ {Ttl, MaxIssues, MaxTime, Crashes} \subseteq Nat

Keys == 1 .. MaxIssues
Time == 0 .. MaxTime
Status == {"open", "claimed", "fixing", "blocked", "done", "closed"}
Terminal == {"done", "closed"}
Changes == {"opened", "claimed", "released", "status", "linked", "commented", "closed"}
Event == [by : Commands, what : Changes]
Claim == [session : Sessions \cup {None}, pid : Commands, ts : Time]
Issue == [status : Status, claim : Claim \cup {None}, history : SUBSET Event]
ASSUME NoIssueAssumption == None \notin Issue

(* keys: the issues a command is still to claim, or the one it is about;   *)
(* copy: the issue as it will be saved.                                    *)
Command ==
  [at : {"unused", "started", "checked", "saving", "opening", "linked", "gone", "dead"},
   op : {"claim", "next", "batch", "release", "any", "set", "link", "comment", "close",
         "open", "force"},
   keys : Seq(Keys), clock : Time, seen : SUBSET Sessions, copy : Issue \cup {None},
   closed : SUBSET Keys]

(* A lock is held exactly by the command that is between load and save.    *)
TypeOK ==
  /\ issues \in [Keys -> Issue \cup {None}]
  /\ live \subseteq Sessions /\ now \in Time
  /\ cmd \in [Commands -> Command]
  /\ \A c \in Commands : (claimLock = c) <=> (cmd[c].at = "saving")
  /\ \A c \in Commands : (openLock = c) <=> (cmd[c].at = "opening")
  /\ claimLock \in Commands \cup {None} /\ openLock \in Commands \cup {None}

-----------------------------------------------------------------------------
Alive(c) == cmd[c].at \notin {"unused", "gone", "dead"}

(* IssueClaim::is_active, as command c sees it.                            *)
IsActive(c, claim) ==
  /\ cmd[c].clock - claim.ts \in 0 .. Ttl
  /\ IF claim.session # None THEN claim.session \in cmd[c].seen ELSE Alive(claim.pid)

OwnClaim(c) == [session |-> SessionOf[c], pid |-> c, ts |-> cmd[c].clock]
SameOwner(c, claim) == claim.session = SessionOf[c] /\ claim.pid = c
Held(c, claim) == claim # None /\ ~SameOwner(c, claim) /\ IsActive(c, claim)

(* active_claim_belongs_elsewhere asks for another session and process.    *)
Elsewhere(c, claim) ==
  claim # None /\ IsActive(c, claim) /\ claim.session # SessionOf[c] /\ claim.pid # c

CanTransition(from, to) == from \in Terminal => to \in Terminal \cup {"open"}

(* No command adds an event to an issue twice: the history is a set.       *)
With(issue, c, what) == [issue EXCEPT !.history = @ \cup {[by |-> c, what |-> what]}]
Claimed(issue, c) ==
  With([issue EXCEPT !.claim = OwnClaim(c),
                     !.status = IF @ = "open" THEN "claimed" ELSE @], c, "claimed")
Released(issue, c) ==
  With([issue EXCEPT !.claim = None,
                     !.status = IF @ \in {"claimed", "fixing"} THEN "open" ELSE @], c, "released")

Key(c) == Head(cmd[c].keys)
Exists(k) == issues[k] # None
Idle(at) ==
  [at |-> at, op |-> "set", keys |-> <<>>, clock |-> 0, seen |-> {}, copy |-> None, closed |-> {}]
Leaves(c) == cmd' = [cmd EXCEPT ![c] = Idle("gone")]
Locks == <<claimLock, openLock>>
World == <<live, now>>

-----------------------------------------------------------------------------
(* The command line and RuntimeContext, whose clock and sessions only      *)
(* those need that judge claims.                                           *)
Begin(c, op, keys) ==
  /\ cmd[c].at = "unused"
  /\ cmd' = [cmd EXCEPT ![c] =
       IF op \in {"claim", "next", "batch", "release"}
       THEN [Idle("started") EXCEPT !.op = op, !.keys = keys, !.clock = now, !.seen = live]
       ELSE [Idle("started") EXCEPT !.op = op, !.keys = keys]]
  /\ UNCHANGED <<issues, World, Locks>>

BeginOne(c) ==
  \E k \in Keys, op \in {"claim", "release", "any", "set", "link", "comment", "close"} :
    Exists(k) /\ Begin(c, op, <<k>>)
BeginOpen(c) == \E op \in {"open", "force"} : Begin(c, op, <<>>)

(* next lists the issues that are not blocked or ended, sorted by their    *)
(* creation, and claims one after the other, up to its batch.              *)
BeginNext(c) ==
  LET wanted == {k \in Keys : Exists(k) /\ issues[k].status \in {"open", "claimed", "fixing"}}
  IN  \E keys \in [1 .. Cardinality(wanted) -> wanted], op \in {"next", "batch"} :
        /\ keys # <<>> /\ \A i, j \in DOMAIN keys : i < j => keys[i] < keys[j]
        /\ Begin(c, op, keys)

(* What is left to do when an issue was claimed, or could not be.          *)
Proceeds(c, got) ==
  LET rest == IF got /\ cmd[c].op # "batch" THEN <<>> ELSE Tail(cmd[c].keys)
  IN  IF rest = <<>> THEN Leaves(c)
      ELSE cmd' = [cmd EXCEPT ![c].at = "started", ![c].keys = rest, ![c].copy = None]

ClaimBegins(c) == cmd[c].at = "started" /\ cmd[c].op \in {"claim", "next", "batch"}

(* Wrong on purpose: .claim.lock is not waited for.                        *)
LoadToClaimUnlocked(c) ==
  /\ ClaimBegins(c)
  /\ ~Held(c, issues[Key(c)].claim)
  /\ cmd' = [cmd EXCEPT ![c].at = "saving", ![c].copy = Claimed(issues[Key(c)], c)]
  /\ UNCHANGED <<issues, World, Locks>>

(* IssueStore::claim.  Neither it nor next looks at the status again.      *)
LoadToClaim(c) ==
  /\ ClaimBegins(c) /\ claimLock = None
  /\ ~Held(c, issues[Key(c)].claim)
  /\ claimLock' = c
  /\ cmd' = [cmd EXCEPT ![c].at = "saving", ![c].copy = Claimed(issues[Key(c)], c)]
  /\ UNCHANGED <<issues, World, openLock>>

RefuseClaim(c) ==
  /\ ClaimBegins(c) /\ claimLock = None
  /\ Held(c, issues[Key(c)].claim)
  /\ Proceeds(c, FALSE)
  /\ UNCHANGED <<issues, World, Locks>>

(* release looks whose claim it is, and takes the lock afterwards.         *)
CheckRelease(c) ==
  /\ cmd[c].at = "started" /\ cmd[c].op \in {"release", "any"}
  /\ IF cmd[c].op = "release" /\ Elsewhere(c, issues[Key(c)].claim)
     THEN Leaves(c)
     ELSE cmd' = [cmd EXCEPT ![c].at = "checked"]
  /\ UNCHANGED <<issues, World, Locks>>

(* Wrong on purpose: a release takes the lock of the issue alone.          *)
LoadToReleaseUnlocked(c) ==
  /\ cmd[c].at = "checked"
  /\ cmd' = [cmd EXCEPT ![c].at = "saving", ![c].copy = Released(issues[Key(c)], c)]
  /\ UNCHANGED <<issues, World, Locks>>

LoadToRelease(c) ==
  /\ cmd[c].at = "checked" /\ claimLock = None
  /\ claimLock' = c
  /\ cmd' = [cmd EXCEPT ![c].at = "saving", ![c].copy = Released(issues[Key(c)], c)]
  /\ UNCHANGED <<issues, World, openLock>>

(* save_at: the copy replaces the file.                                    *)
Save(c) ==
  /\ cmd[c].at = "saving"
  /\ issues' = [issues EXCEPT ![Key(c)] = cmd[c].copy]
  /\ claimLock' = None
  /\ Proceeds(c, TRUE)
  /\ UNCHANGED <<World, openLock>>

-----------------------------------------------------------------------------
(* update_at and append_event_at.                                          *)
Update(c, issue) ==
  /\ issues' = [issues EXCEPT ![Key(c)] = issue]
  /\ UNCHANGED <<World, Locks>>

SetStatus(c) ==
  /\ cmd[c].at = "started" /\ cmd[c].op = "set"
  /\ \E status \in Status :
       /\ CanTransition(issues[Key(c)].status, status)
       /\ Update(c, With([issues[Key(c)] EXCEPT !.status = status], c, "status"))
  /\ Leaves(c)

Comment(c) ==
  /\ cmd[c].at = "started" /\ cmd[c].op = "comment"
  /\ Update(c, With(issues[Key(c)], c, "commented"))
  /\ Leaves(c)

Close(c) ==
  /\ cmd[c].at = "started" /\ cmd[c].op = "close"
  /\ Update(c, With([issues[Key(c)] EXCEPT !.status = "done"], c, "closed"))
  /\ Leaves(c)

(* link --run: the issue is linked, and then set to fixing by what the     *)
(* first update found.                                                     *)
Link(c) ==
  /\ cmd[c].at = "started" /\ cmd[c].op = "link"
  /\ Update(c, With(issues[Key(c)], c, "linked"))
  /\ IF issues[Key(c)].status \in {"open", "claimed"}
     THEN cmd' = [cmd EXCEPT ![c].at = "linked"]
     ELSE Leaves(c)

SetFixing(c) ==
  /\ cmd[c].at = "linked"
  /\ IF CanTransition(issues[Key(c)].status, "fixing")
     THEN Update(c, With([issues[Key(c)] EXCEPT !.status = "fixing"], c, "status"))
     ELSE UNCHANGED <<issues, World, Locks>>
  /\ Leaves(c)

-----------------------------------------------------------------------------
(* CrossRepoIssueCoordinator::open of one fingerprint: a duplicate that is *)
(* not done or closed is returned, unless the user forces a new issue.     *)
OpenIssues == {k \in Keys : Exists(k) /\ issues[k].status \notin Terminal}

(* Wrong on purpose: the lock is taken when there is no duplicate.         *)
ListDuplicatesFirst(c) ==
  /\ cmd[c].at = "started" /\ cmd[c].op \in {"open", "force"}
  /\ IF cmd[c].op = "open" /\ OpenIssues # {}
     THEN Leaves(c)
     ELSE cmd' = [cmd EXCEPT ![c].at = "opening",
                             ![c].closed = {k \in Keys : Exists(k)} \ OpenIssues]
  /\ UNCHANGED <<issues, World, Locks>>

ListDuplicates(c) ==
  /\ cmd[c].at = "started" /\ cmd[c].op \in {"open", "force"} /\ openLock = None
  /\ IF cmd[c].op = "open" /\ OpenIssues # {}
     THEN Leaves(c) /\ UNCHANGED openLock
     ELSE /\ openLock' = c
          /\ cmd' = [cmd EXCEPT ![c].at = "opening",
                                ![c].closed = {k \in Keys : Exists(k)} \ OpenIssues]
  /\ UNCHANGED <<issues, World, claimLock>>

New(c) == With([status |-> "open", claim |-> None, history |-> {}], c, "opened")

(* The key is new.                                                         *)
Create(c) ==
  /\ cmd[c].at = "opening"
  /\ \E k \in Keys :
       /\ ~Exists(k) /\ \A other \in 1 .. k - 1 : Exists(other)
       /\ issues' = [issues EXCEPT ![k] = New(c)]
  /\ openLock' = None /\ Leaves(c)
  /\ UNCHANGED <<World, claimLock>>

-----------------------------------------------------------------------------

(* A command dies, and with it what it locked.                             *)
Crash(c) ==
  /\ Alive(c)
  /\ Cardinality({d \in Commands : cmd[d].at = "dead"}) < Crashes
  /\ cmd' = [cmd EXCEPT ![c] = Idle("dead")]
  /\ claimLock' = IF claimLock = c THEN None ELSE claimLock
  /\ openLock' = IF openLock = c THEN None ELSE openLock
  /\ UNCHANGED <<issues, World>>

(* OrchestratorStore: register; and the end of the session's process, or   *)
(* unregister.  Dead and unknown sessions are alike to is_active.          *)
Register(s) ==
  /\ s \notin live /\ live' = live \cup {s}
  /\ UNCHANGED <<issues, now, cmd, Locks>>
Exit(s) ==
  /\ s \in live /\ live' = live \ {s}
  /\ UNCHANGED <<issues, now, cmd, Locks>>

Tick ==
  /\ now < MaxTime /\ now' = now + 1
  /\ UNCHANGED <<issues, live, cmd, Locks>>

(* No issue yet, or one that is open.                                      *)
Init ==
  /\ \E c \in Commands :
       issues \in {[k \in Keys |-> None], [k \in Keys |-> IF k = 1 THEN New(c) ELSE None]}
  /\ live \in SUBSET Sessions /\ now = 0
  /\ cmd = [c \in Commands |-> Idle("unused")]
  /\ claimLock = None /\ openLock = None

Step(c) ==
  \/ LoadToClaim(c) \/ RefuseClaim(c) \/ CheckRelease(c) \/ LoadToRelease(c) \/ Save(c)
  \/ SetStatus(c) \/ Comment(c) \/ Close(c) \/ Link(c) \/ SetFixing(c)
  \/ ListDuplicates(c) \/ Create(c)

Next ==
  \/ \E c \in Commands : BeginOne(c) \/ BeginOpen(c) \/ BeginNext(c) \/ Step(c) \/ Crash(c)
  \/ \E s \in Sessions : Register(s) \/ Exit(s)
  \/ Tick

Spec == Init /\ [][Next]_vars

-----------------------------------------------------------------------------
Saves(c, k) == cmd[c].at = "saving" /\ cmd'[c].at \notin {"saving", "dead"} /\ Key(c) = k

(* A claim is replaced only by one whose command finds it void, when it    *)
(* writes as when it looked; of commands that see each other's sessions    *)
(* live, one has the issue (IssueStore::claim).  Nothing but a release     *)
(* takes a claim away.                                                     *)
ClaimHolds ==
  [][\A k \in Keys :
       (Exists(k) /\ issues[k].claim # None /\ issues'[k].claim # issues[k].claim) =>
         \E c \in Commands :
           /\ Saves(c, k)
           /\ cmd[c].op \in {"release", "any"} \/ ~Held(c, issues[k].claim)]_vars

(* Claims and releases, and what was done before them, are never lost: a   *)
(* save drops at most updates that came between its load and itself, and   *)
(* as long as it drops none the status takes an allowed step.              *)
Dropped(k) == issues[k].history \ issues'[k].history
OnlyUpdatesLost ==
  [][\A k \in Keys :
       Exists(k) =>
         /\ issues'[k] # None
         /\ \A e \in Dropped(k) : e.what \notin {"opened", "claimed", "released"}
         /\ Dropped(k) = {} => CanTransition(issues[k].status, issues'[k].status)]_vars

(* A fingerprint gets a second open issue only if the user forces it, or   *)
(* if one that was done or closed when open looked has been opened again.  *)
OpenedOnce ==
  [][\A c \in Commands :
       (cmd[c].at = "opening" /\ cmd[c].op = "open" /\ cmd'[c].at = "gone") =>
         OpenIssues \subseteq cmd[c].closed]_vars

-----------------------------------------------------------------------------
(* The code does not keep the following in every setting, and no           *)
(* configuration checks it: README, "Known disagreements".                 *)

(* Without --any nobody releases what another live session has claimed.    *)
ReleaseNeedsAny ==
  [][\A k \in Keys, c \in Commands :
       (Saves(c, k) /\ cmd[c].op = "release" /\ issues[k].claim # None) =>
         LET claim == issues[k].claim
         IN  \/ claim.session \in {None, SessionOf[c]} \/ claim.session \notin live
             \/ now - claim.ts > Ttl]_vars
=============================================================================
