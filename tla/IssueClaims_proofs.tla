------------------------- MODULE IssueClaims_proofs -------------------------
(***************************************************************************)
(* The types of the issue registry, that a claim is taken over only while  *)
(* the command that takes it finds it void, that open opens no second      *)
(* issue, and that what a claim or a release overwrites is at most an      *)
(* update of the issue made in between.                                    *)
(***************************************************************************)
EXTENDS IssueClaims, FiniteSetTheorems, TLAPS

Claims(c) == cmd[c].op \in {"claim", "next", "batch"}

(* A command is about issues that exist.                                   *)
Knows(c) ==
  /\ \A i \in DOMAIN cmd[c].keys : Exists(cmd[c].keys[i])
  /\ cmd[c].at \in {"saving", "checked", "linked"} => cmd[c].keys # <<>>
  /\ cmd[c].at = "started" /\ cmd[c].op \notin {"open", "force"} => cmd[c].keys # <<>>
  /\ cmd[c].at = "saving" => cmd[c].copy # None

(* What a command found void under .claim.lock stays void, and what open   *)
(* found under .open.lock stays all there is.                              *)
Relies(c) ==
  /\ cmd[c].at = "checked" => cmd[c].op \in {"release", "any"}
  /\ cmd[c].at = "saving" =>
       \/ cmd[c].op \in {"release", "any"} /\ cmd[c].copy.claim = None
       \/ /\ Claims(c) /\ cmd[c].copy.claim = OwnClaim(c)
          /\ ~Held(c, issues[Key(c)].claim)
  /\ cmd[c].at = "opening" /\ cmd[c].op = "open" =>
       \A k \in Keys : Exists(k) => k \in cmd[c].closed

(* A claim names a command that has begun: a dead one stays dead.          *)
Named ==
  \A k \in Keys : Exists(k) /\ issues[k].claim # None => cmd[issues[k].claim.pid].at # "unused"

IInv == TypeOK /\ Named /\ \A c \in Commands : Knows(c) /\ Relies(c)

-----------------------------------------------------------------------------
(* What the operations make of an issue.                                   *)
LEMMA IssueLemma ==
  ASSUME NEW issue \in Issue, NEW c \in Commands, NEW what \in Changes
  PROVE  /\ With(issue, c, what) \in Issue
         /\ With(issue, c, what).claim = issue.claim
BY DEF Issue, With, Event

LEMMA ClaimLemma ==
  ASSUME TypeOK, NEW issue \in Issue, NEW c \in Commands
  PROVE  /\ Claimed(issue, c) \in Issue /\ Claimed(issue, c).claim = OwnClaim(c)
         /\ Released(issue, c) \in Issue /\ Released(issue, c).claim = None
<1>1. OwnClaim(c) \in Claim
  BY IssueAssumption DEF OwnClaim, Claim, TypeOK, Command
<1> DEFINE claimed == [issue EXCEPT !.claim = OwnClaim(c),
                                    !.status = IF @ = "open" THEN "claimed" ELSE @]
           released == [issue EXCEPT !.claim = None,
                                     !.status = IF @ \in {"claimed", "fixing"} THEN "open" ELSE @]
<1>2. claimed \in Issue /\ claimed.claim = OwnClaim(c)
  BY <1>1 DEF Issue, Status
<1>3. released \in Issue /\ released.claim = None
  BY DEF Issue, Status
<1>4. Claimed(issue, c) = With(claimed, c, "claimed") /\ Released(issue, c) = With(released, c, "released")
  BY DEF Claimed, Released
<1> HIDE DEF claimed, released
<1>5. "claimed" \in Changes /\ "released" \in Changes
  BY DEF Changes
<1> QED BY <1>2, <1>3, <1>4, <1>5, IssueLemma

(* An ended command.                                                       *)
LEMMA IdleLemma ==
  ASSUME NEW at \in {"unused", "started", "opening", "gone", "dead"}
  PROVE  Idle(at) \in Command /\ Idle(at).at = at /\ Idle(at).keys = <<>>
<1>1. 0 \in Time /\ <<>> \in Seq(Keys)
  BY IssueAssumption DEF Time
<1> QED BY <1>1 DEF Idle, Command

(* The issue a command is about.                                           *)
LEMMA KeyLemma ==
  ASSUME IInv, NEW c \in Commands, cmd[c].keys # <<>>
  PROVE  Key(c) \in Keys /\ issues[Key(c)] \in Issue
<1>1. cmd[c].keys \in Seq(Keys) /\ Len(cmd[c].keys) > 0
  BY DEF IInv, TypeOK, Command
<1>2. 1 \in DOMAIN cmd[c].keys /\ Key(c) = cmd[c].keys[1] /\ Key(c) \in Keys
  BY <1>1 DEF Key
<1>3. issues[Key(c)] # None
  BY <1>2 DEF IInv, Knows, Exists
<1> QED BY <1>2, <1>3 DEF IInv, TypeOK

(* A step of one command keeps the invariant if it changes claims only     *)
(* under .claim.lock, and adds issues only under .open.lock.               *)
LEMMA StepLemma ==
  ASSUME IInv, NEW c \in Commands, NEW r \in Command,
         cmd[c].at \notin {"gone", "dead"},
         cmd' = [cmd EXCEPT ![c] = r], r.at # "unused",
         issues' \in [Keys -> Issue \cup {None}], live' = live, now' = now,
         \A k \in Keys : Exists(k) =>
           /\ issues'[k] # None
           /\ issues'[k].claim # issues[k].claim =>
                claimLock = c /\ (issues'[k].claim = None \/ issues'[k].claim.pid = c),
         \A k \in Keys : ~Exists(k) /\ issues'[k] # None =>
           openLock = c /\ issues'[k].claim = None,
         claimLock' \in Commands \cup {None}, openLock' \in Commands \cup {None},
         (claimLock' = c) <=> (r.at = "saving"), (openLock' = c) <=> (r.at = "opening"),
         \A d \in Commands \ {c} : (claimLock' = d) <=> (claimLock = d),
         \A d \in Commands \ {c} : (openLock' = d) <=> (openLock = d),
         Knows(c)', Relies(c)'
  PROVE  IInv'
<1>1. cmd \in [Commands -> Command] /\ cmd' \in [Commands -> Command]
  BY DEF IInv, TypeOK
<1>2. cmd'[c] = r /\ \A d \in Commands \ {c} : cmd'[d] = cmd[d]
  BY <1>1
<1>3. TypeOK'
  BY <1>1, <1>2 DEF IInv, TypeOK
<1>4. Named'
  <2> SUFFICES ASSUME NEW k \in Keys, issues'[k] # None, issues'[k].claim # None
               PROVE  cmd'[issues'[k].claim.pid].at # "unused"
    BY DEF Named, Exists
  <2>1. CASE issues'[k].claim.pid = c
    BY <2>1, <1>2
  <2>2. CASE issues'[k].claim.pid # c
    <3>1. Exists(k) /\ issues'[k].claim = issues[k].claim
      BY <2>2
    <3>2. cmd[issues[k].claim.pid].at # "unused"
      BY <3>1 DEF IInv, Named
    <3>3. issues[k].claim.pid \in Commands
      BY <3>1 DEF IInv, TypeOK, Issue, Claim, Exists
    <3> QED BY <3>1, <3>2, <3>3, <2>2, <1>2
  <2> QED BY <2>1, <2>2
<1>5. ASSUME NEW d \in Commands PROVE Knows(d)'
  <2>1. CASE d = c
    BY <2>1
  <2>2. CASE d # c
    <3>1. cmd'[d] = cmd[d] /\ Knows(d) /\ cmd[d].keys \in Seq(Keys)
      BY <2>2, <1>1, <1>2 DEF IInv, Command
    <3>2. ASSUME NEW i \in DOMAIN cmd[d].keys PROVE issues'[cmd[d].keys[i]] # None
      BY <3>1 DEF Knows, Exists
    <3> QED BY <3>1, <3>2 DEF Knows, Exists
  <2> QED BY <2>1, <2>2
<1>6. ASSUME NEW d \in Commands PROVE Relies(d)'
  <2>1. CASE d = c
    BY <2>1
  <2>2. CASE d # c
    <3>1. cmd'[d] = cmd[d] /\ Relies(d) /\ Knows(d) /\ OwnClaim(d)' = OwnClaim(d)
      BY <2>2, <1>2 DEF IInv, OwnClaim
    <3>2. ASSUME cmd[d].at = "saving", Claims(d), ~Held(d, issues[Key(d)].claim)
          PROVE  ~Held(d, issues[Key(d)].claim)'
      <4>1. Key(d) \in Keys /\ Exists(Key(d)) /\ issues[Key(d)] \in Issue
        BY <3>1, <3>2, KeyLemma, NoIssueAssumption DEF Knows, Exists
      <4>2. issues'[Key(d)].claim = issues[Key(d)].claim /\ Key(d)' = Key(d)
        BY <4>1, <3>1, <3>2, <2>2 DEF IInv, TypeOK, Key
      <4> DEFINE claim == issues[Key(d)].claim
      <4>3. CASE claim = None
        BY <4>2, <4>3 DEF Held
      <4>4. CASE claim # None
        <5>1. claim \in Claim /\ cmd[claim.pid].at # "unused"
          BY <4>1, <4>4 DEF IInv, Named, Issue
        <5>2. claim.pid \in Commands
          BY <5>1 DEF Claim
        <5>3. Alive(claim.pid)' => Alive(claim.pid)
          <6>1. CASE claim.pid # c
            BY <6>1, <5>2, <4>2, <1>2 DEF Alive
          <6>2. CASE claim.pid = c
            BY <6>2, <5>1, <4>2 DEF Alive
          <6> QED BY <6>1, <6>2
        <5> QED BY <5>1, <5>3, <4>2, <3>1, <3>2 DEF Held, SameOwner, IsActive
      <4> QED BY <4>3, <4>4
    <3>3. ASSUME cmd[d].at = "opening", cmd[d].op = "open", NEW k \in Keys, Exists(k)'
          PROVE  k \in cmd[d].closed
      BY <3>1, <3>3, <2>2 DEF Relies, Exists, IInv, TypeOK
    <3> QED BY <3>1, <3>2, <3>3 DEF Relies, Claims
  <2> QED BY <2>1, <2>2
<1> QED BY <1>3, <1>4, <1>5, <1>6 DEF IInv

(* A step of one command that leaves the issues alone.                     *)
LEMMA QuietLemma ==
  ASSUME IInv, NEW c \in Commands, NEW r \in Command,
         cmd[c].at \notin {"gone", "dead"},
         cmd' = [cmd EXCEPT ![c] = r], r.at # "unused",
         issues' = issues, live' = live, now' = now,
         claimLock' \in Commands \cup {None}, openLock' \in Commands \cup {None},
         (claimLock' = c) <=> (r.at = "saving"), (openLock' = c) <=> (r.at = "opening"),
         \A d \in Commands \ {c} : (claimLock' = d) <=> (claimLock = d),
         \A d \in Commands \ {c} : (openLock' = d) <=> (openLock = d),
         Knows(c)', Relies(c)'
  PROVE  IInv'
<1>1. issues' \in [Keys -> Issue \cup {None}]
  BY DEF IInv, TypeOK
<1>2. \A k \in Keys : Exists(k) =>
        /\ issues'[k] # None
        /\ issues'[k].claim # issues[k].claim =>
             claimLock = c /\ (issues'[k].claim = None \/ issues'[k].claim.pid = c)
  BY DEF Exists
<1>3. \A k \in Keys : ~Exists(k) /\ issues'[k] # None => openLock = c /\ issues'[k].claim = None
  BY DEF Exists
<1> QED BY <1>1, <1>2, <1>3, StepLemma

(* A command that leaves, or dies, and gives back what it locked.          *)
LEMMA LeaveLemma ==
  ASSUME IInv, NEW c \in Commands, NEW at \in {"gone", "dead"},
         cmd[c].at \notin {"gone", "dead"}, cmd' = [cmd EXCEPT ![c] = Idle(at)],
         issues' = issues, live' = live, now' = now,
         claimLock' = IF claimLock = c THEN None ELSE claimLock,
         openLock' = IF openLock = c THEN None ELSE openLock
  PROVE  IInv'
<1>1. Idle(at) \in Command /\ Idle(at).at = at /\ Idle(at).keys = <<>>
  BY IdleLemma
<1>2. cmd'[c] = Idle(at)
  BY DEF IInv, TypeOK
<1>3. Knows(c)' /\ Relies(c)'
  BY <1>1, <1>2 DEF Knows, Relies
<1>4. None \notin Commands
  BY IssueAssumption
<1>5. /\ claimLock' \in Commands \cup {None} /\ openLock' \in Commands \cup {None}
      /\ claimLock' # c /\ openLock' # c
      /\ \A d \in Commands \ {c} : (claimLock' = d) <=> (claimLock = d)
      /\ \A d \in Commands \ {c} : (openLock' = d) <=> (openLock = d)
  BY <1>4 DEF IInv, TypeOK
<1> QED BY <1>1, <1>3, <1>5, QuietLemma

(* A command begins.                                                       *)
LEMMA BeginLemma ==
  ASSUME IInv, NEW c \in Commands, NEW keys \in Seq(Keys),
         NEW op \in {"claim", "next", "batch", "release", "any", "set", "link", "comment", "close",
                     "open", "force"},
         \A i \in DOMAIN keys : Exists(keys[i]), op \notin {"open", "force"} => keys # <<>>,
         Begin(c, op, keys)
  PROVE  IInv'
<1> DEFINE r == IF op \in {"claim", "next", "batch", "release"}
                THEN [Idle("started") EXCEPT !.op = op, !.keys = keys, !.clock = now, !.seen = live]
                ELSE [Idle("started") EXCEPT !.op = op, !.keys = keys]
<1>1. r \in Command /\ r.at = "started" /\ r.op = op /\ r.keys = keys
  <2> DEFINE idle == Idle("started")
  <2>1. idle \in Command /\ idle.at = "started"
    BY IdleLemma
  <2>2. live \in SUBSET Sessions /\ now \in Time
    BY DEF IInv, TypeOK
  <2> HIDE DEF idle
  <2>3. [idle EXCEPT !.op = op, !.keys = keys] \in Command
    BY <2>1 DEF Command
  <2>4. [idle EXCEPT !.op = op, !.keys = keys, !.clock = now, !.seen = live] \in Command
    BY <2>1, <2>2 DEF Command
  <2>5. r = IF op \in {"claim", "next", "batch", "release"}
            THEN [idle EXCEPT !.op = op, !.keys = keys, !.clock = now, !.seen = live]
            ELSE [idle EXCEPT !.op = op, !.keys = keys]
    BY DEF idle
  <2> HIDE DEF r
  <2> QED BY <2>1, <2>3, <2>4, <2>5 DEF Command
<1>2. cmd' = [cmd EXCEPT ![c] = r] /\ cmd[c].at = "unused"
  BY DEF Begin
<1> HIDE DEF r
<1>3. cmd'[c] = r /\ issues' = issues
  BY <1>2 DEF IInv, TypeOK, Begin
<1>4. Knows(c)' /\ Relies(c)'
  BY <1>1, <1>3 DEF Knows, Relies, Exists
<1>5. claimLock # c /\ openLock # c
  BY <1>2 DEF IInv, TypeOK
<1> QED BY <1>1, <1>2, <1>3, <1>4, <1>5, QuietLemma DEF Begin, World, Locks, IInv, TypeOK

LEMMA BeginsLemma ==
  ASSUME IInv, NEW c \in Commands, BeginOne(c) \/ BeginOpen(c) \/ BeginNext(c)
  PROVE  IInv'
<1>1. CASE BeginOne(c)
  <2>1. PICK k \in Keys, op \in {"claim", "release", "any", "set", "link", "comment", "close"} :
          Exists(k) /\ Begin(c, op, <<k>>)
    BY <1>1 DEF BeginOne
  <2>2. <<k>> \in Seq(Keys) /\ <<k>> # <<>> /\ \A i \in DOMAIN <<k>> : Exists(<<k>>[i])
    BY <2>1
  <2> QED BY <2>1, <2>2, BeginLemma
<1>2. CASE BeginOpen(c)
  <2>1. PICK op \in {"open", "force"} : Begin(c, op, <<>>)
    BY <1>2 DEF BeginOpen
  <2>2. <<>> \in Seq(Keys) /\ DOMAIN <<>> = {}
    OBVIOUS
  <2> QED BY <2>1, <2>2, BeginLemma
<1>3. CASE BeginNext(c)
  <2> DEFINE wanted == {k \in Keys : Exists(k) /\ issues[k].status \in {"open", "claimed", "fixing"}}
  <2>1. PICK keys \in [1 .. Cardinality(wanted) -> wanted], op \in {"next", "batch"} :
          keys # <<>> /\ Begin(c, op, keys)
    BY <1>3 DEF BeginNext
  <2>2. Cardinality(wanted) \in Nat
    <3>1. IsFiniteSet(Keys)
      BY FS_Interval, IssueAssumption DEF Keys
    <3> QED BY <3>1, FS_Subset, FS_CardinalityType
  <2>3. wanted \subseteq Keys /\ \A k \in wanted : Exists(k)
    OBVIOUS
  <2> HIDE DEF wanted
  <2>4. keys \in Seq(Keys) /\ \A i \in DOMAIN keys : Exists(keys[i])
    BY <2>2, <2>3
  <2> QED BY <2>1, <2>4, BeginLemma
<1> QED BY <1>1, <1>2, <1>3

-----------------------------------------------------------------------------
(* What is left of a batch.                                                *)
LEMMA ProceedsLemma ==
  ASSUME IInv, NEW c \in Commands, NEW got \in BOOLEAN, cmd[c].keys # <<>>,
         cmd[c].op \notin {"open", "force"}, Proceeds(c, got)
  PROVE  \E r \in Command :
           /\ cmd' = [cmd EXCEPT ![c] = r] /\ cmd'[c] = r
           /\ r.at = "gone" \/ (r.at = "started" /\ r.keys # <<>> /\ r.op = cmd[c].op)
           /\ \A i \in DOMAIN r.keys : Exists(r.keys[i])
<1> DEFINE rest == IF got /\ cmd[c].op # "batch" THEN <<>> ELSE Tail(cmd[c].keys)
<1>1. cmd[c] \in Command /\ cmd[c].keys \in Seq(Keys) /\ \A i \in DOMAIN cmd[c].keys : Exists(cmd[c].keys[i])
  BY DEF IInv, TypeOK, Command, Knows
<1>2. rest \in Seq(Keys) /\ \A i \in DOMAIN rest : Exists(rest[i])
  BY <1>1
<1>3. /\ rest = <<>> => Leaves(c)
      /\ rest # <<>> => cmd' = [cmd EXCEPT ![c].at = "started", ![c].keys = rest, ![c].copy = None]
  BY DEF Proceeds
<1> HIDE DEF rest
<1>4. CASE rest = <<>>
  <2>1. Idle("gone") \in Command /\ Idle("gone").at = "gone" /\ Idle("gone").keys = <<>>
    BY IdleLemma
  <2>2. cmd' = [cmd EXCEPT ![c] = Idle("gone")] /\ cmd'[c] = Idle("gone")
    BY <1>3, <1>4 DEF Leaves, IInv, TypeOK
  <2>3. \A i \in DOMAIN Idle("gone").keys : Exists(Idle("gone").keys[i])
    BY <2>1
  <2> QED BY <2>1, <2>2, <2>3
<1>5. CASE rest # <<>>
  <2> DEFINE r == [cmd[c] EXCEPT !.at = "started", !.keys = rest, !.copy = None]
  <2>1. r \in Command /\ r.at = "started" /\ r.keys = rest /\ r.op = cmd[c].op
    BY <1>1, <1>2 DEF Command
  <2>2. cmd' = [cmd EXCEPT ![c] = r] /\ cmd'[c] = r
    BY <1>3, <1>5 DEF IInv, TypeOK
  <2> HIDE DEF r
  <2>3. r.keys # <<>> /\ \A i \in DOMAIN r.keys : Exists(r.keys[i])
    BY <2>1, <1>2, <1>5
  <2> QED BY <2>1, <2>2, <2>3
<1> QED BY <1>4, <1>5

LEMMA ClaimsLemma ==
  ASSUME IInv, NEW c \in Commands,
         LoadToClaim(c) \/ RefuseClaim(c) \/ CheckRelease(c) \/ LoadToRelease(c)
  PROVE  IInv'
<1>1. cmd[c] \in Command /\ Knows(c) /\ Relies(c)
  BY DEF IInv, TypeOK
<1>2. cmd[c].at \in {"started", "checked"} /\ cmd[c].op \notin {"open", "force"} /\ cmd[c].keys # <<>>
  BY <1>1 DEF LoadToClaim, RefuseClaim, CheckRelease, LoadToRelease, ClaimBegins, Knows, Relies, IInv
<1>3. Key(c) \in Keys /\ issues[Key(c)] \in Issue /\ cmd[c] \in Command /\ Knows(c) /\ Relies(c)
  BY <1>2, KeyLemma DEF IInv, TypeOK
<1>4. claimLock # c /\ openLock # c /\ None \notin Commands
  BY <1>2, IssueAssumption DEF IInv, TypeOK
<1>5. CASE LoadToClaim(c) \/ LoadToRelease(c)
  <2> DEFINE issue == IF LoadToClaim(c) THEN Claimed(issues[Key(c)], c) ELSE Released(issues[Key(c)], c)
             r == [cmd[c] EXCEPT !.at = "saving", !.copy = issue]
  <2>1. /\ issue \in Issue
        /\ issue.claim = IF LoadToClaim(c) THEN OwnClaim(c) ELSE None
    BY <1>3, ClaimLemma DEF IInv
  <2>2. cmd' = [cmd EXCEPT ![c] = r] /\ claimLock' = c /\ claimLock = None /\ issues' = issues
    BY <1>5 DEF LoadToClaim, LoadToRelease, ClaimBegins, IInv, TypeOK
  <2> HIDE DEF issue
  <2>3. r \in Command /\ r.at = "saving" /\ r.copy = issue /\ r.keys = cmd[c].keys
        /\ r.op = cmd[c].op /\ r.clock = cmd[c].clock /\ r.seen = cmd[c].seen
    BY <1>3, <2>1 DEF Command
  <2> HIDE DEF r
  <2>4. cmd'[c] = r /\ \A d \in Commands \ {c} : cmd'[d] = cmd[d]
    BY <2>2 DEF IInv, TypeOK
  <2>5. Knows(c)'
    BY <1>2, <1>3, <2>1, <2>2, <2>3, <2>4, NoIssueAssumption DEF Knows, Exists
  <2>6. Relies(c)'
    <3>1. CASE LoadToClaim(c)
      <4>1. Claims(c) /\ ~Held(c, issues[Key(c)].claim)
        BY <3>1 DEF LoadToClaim, ClaimBegins, Claims
      <4>2. OwnClaim(c)' = OwnClaim(c) /\ Key(c)' = Key(c) /\ Claims(c)'
        BY <2>3, <2>4, <4>1 DEF OwnClaim, Key, Claims
      <4> DEFINE claim == issues[Key(c)].claim
      <4>3. claim' = claim /\ claim \in Claim \cup {None}
        BY <4>2, <2>2, <1>3 DEF Issue
      <4>4. CASE claim = None
        BY <4>1, <4>2, <4>3, <4>4, <3>1, <2>1, <2>3, <2>4 DEF Relies, Held
      <4>5. CASE claim # None
        <5>1. claim.pid \in Commands /\ (Alive(claim.pid)' <=> Alive(claim.pid))
          BY <4>3, <4>5, <2>2, <2>3, <2>4, <1>2 DEF Claim, Alive
        <5>2. ~Held(c, claim)'
          BY <5>1, <4>1, <4>3, <2>3, <2>4 DEF Held, SameOwner, IsActive
        <5> QED BY <5>2, <4>1, <4>2, <4>3, <3>1, <2>1, <2>3, <2>4 DEF Relies
      <4> QED BY <4>4, <4>5
    <3>2. CASE ~LoadToClaim(c)
      <4>1. cmd[c].op \in {"release", "any"}
        BY <3>2, <1>5, <1>3 DEF LoadToRelease, Relies
      <4> QED BY <3>2, <4>1, <2>1, <2>3, <2>4 DEF Relies
    <3> QED BY <3>1, <3>2
  <2>7. UNCHANGED <<live, now, openLock>>
    BY <1>5 DEF LoadToClaim, LoadToRelease, World
  <2> QED BY <1>2, <1>4, <2>2, <2>3, <2>5, <2>6, <2>7, QuietLemma DEF IInv, TypeOK
<1>6. CASE RefuseClaim(c)
  <2>1. Proceeds(c, FALSE) /\ UNCHANGED <<issues, live, now, claimLock, openLock>>
    BY <1>6 DEF RefuseClaim, World, Locks
  <2>2. PICK r \in Command :
          /\ cmd' = [cmd EXCEPT ![c] = r] /\ cmd'[c] = r
          /\ r.at = "gone" \/ (r.at = "started" /\ r.keys # <<>> /\ r.op = cmd[c].op)
          /\ \A i \in DOMAIN r.keys : Exists(r.keys[i])
    BY <1>2, <2>1, ProceedsLemma
  <2>3. Knows(c)' /\ Relies(c)'
    BY <2>1, <2>2 DEF Knows, Relies, Exists
  <2> QED BY <1>2, <1>4, <2>1, <2>2, <2>3, QuietLemma DEF IInv, TypeOK
<1>7. CASE CheckRelease(c)
  <2>1. UNCHANGED <<issues, live, now, claimLock, openLock>> /\ cmd[c].op \in {"release", "any"}
    BY <1>7 DEF CheckRelease, World, Locks
  <2>2. CASE Leaves(c)
    BY <1>2, <1>4, <2>1, <2>2, LeaveLemma DEF Leaves
  <2>3. CASE ~Leaves(c)
    <3> DEFINE r == [cmd[c] EXCEPT !.at = "checked"]
    <3>1. cmd' = [cmd EXCEPT ![c] = r]
      BY <1>7, <2>3 DEF CheckRelease, IInv, TypeOK
    <3>2. r \in Command /\ r.at = "checked" /\ r.keys = cmd[c].keys /\ r.op = cmd[c].op
      BY <1>3 DEF Command
    <3> HIDE DEF r
    <3>3. cmd'[c] = r
      BY <3>1 DEF IInv, TypeOK
    <3>4. Knows(c)' /\ Relies(c)'
      BY <1>2, <1>3, <2>1, <3>2, <3>3 DEF Knows, Relies, Exists
    <3> QED BY <1>2, <1>4, <2>1, <3>1, <3>2, <3>4, QuietLemma DEF IInv, TypeOK
  <2> QED BY <2>2, <2>3
<1> QED BY <1>5, <1>6, <1>7

(* The copy replaces the file: the only step that changes a claim.         *)
LEMMA SaveLemma ==
  ASSUME IInv, NEW c \in Commands, Save(c)
  PROVE  IInv' /\ cmd'[c].at \in {"started", "gone"} /\ Key(c) \in Keys
<1>1. cmd[c] \in Command /\ Knows(c) /\ Relies(c) /\ cmd[c].at = "saving" /\ claimLock = c /\ openLock # c
  BY DEF Save, IInv, TypeOK
<1>2. /\ cmd[c].keys # <<>> /\ cmd[c].copy \in Issue
      /\ Claims(c) \/ cmd[c].op \in {"release", "any"}
      /\ cmd[c].copy.claim = None \/ cmd[c].copy.claim = OwnClaim(c)
  BY <1>1 DEF Command, Knows, Relies
<1>3. Key(c) \in Keys /\ issues[Key(c)] \in Issue /\ OwnClaim(c).pid = c
  BY <1>2, KeyLemma DEF OwnClaim
<1>4. PICK r \in Command :
        /\ cmd' = [cmd EXCEPT ![c] = r] /\ cmd'[c] = r
        /\ r.at = "gone" \/ (r.at = "started" /\ r.keys # <<>> /\ r.op = cmd[c].op)
        /\ \A i \in DOMAIN r.keys : Exists(r.keys[i])
  BY <1>2, ProceedsLemma DEF Save, Claims
<1>5. /\ issues' = [issues EXCEPT ![Key(c)] = cmd[c].copy]
      /\ claimLock' = None /\ UNCHANGED <<live, now, openLock>>
  BY DEF Save, World
<1>6. /\ issues' \in [Keys -> Issue \cup {None}]
      /\ issues'[Key(c)] = cmd[c].copy /\ cmd[c].copy # None
      /\ \A k \in Keys \ {Key(c)} : issues'[k] = issues[k]
  BY <1>2, <1>3, <1>5, NoIssueAssumption DEF IInv, TypeOK
<1>7. \A k \in Keys : Exists(k) =>
        /\ issues'[k] # None
        /\ issues'[k].claim # issues[k].claim =>
             claimLock = c /\ (issues'[k].claim = None \/ issues'[k].claim.pid = c)
  BY <1>1, <1>2, <1>3, <1>6 DEF Exists
<1>8. \A k \in Keys : ~Exists(k) /\ issues'[k] # None => openLock = c /\ issues'[k].claim = None
  BY <1>3, <1>6, NoIssueAssumption DEF Exists
<1>9. Knows(c)' /\ Relies(c)'
  <2>1. \A i \in DOMAIN r.keys : r.keys[i] \in Keys
    BY DEF Command
  <2> QED BY <1>4, <1>7, <2>1 DEF Knows, Relies, Exists
<1>10. /\ claimLock' \in Commands \cup {None} /\ openLock' \in Commands \cup {None} /\ claimLock' # c
       /\ \A d \in Commands \ {c} : (claimLock' = d) <=> (claimLock = d)
  BY <1>1, <1>5, IssueAssumption DEF IInv, TypeOK
<1>11. IInv'
  BY <1>1, <1>4, <1>5, <1>6, <1>7, <1>8, <1>9, <1>10, StepLemma
<1> QED BY <1>3, <1>4, <1>11

-----------------------------------------------------------------------------
(* An update keeps the claim, and a command that made it leaves or goes on *)
(* to the next one.                                                        *)
LEMMA UpdateLemma ==
  ASSUME IInv, NEW c \in Commands, cmd[c].at \in {"started", "linked"},
         cmd[c].keys # <<>>, NEW issue \in Issue,
         issue.claim = issues[Key(c)].claim, Update(c, issue),
         Leaves(c) \/ cmd' = [cmd EXCEPT ![c].at = "linked"]
  PROVE  IInv' /\ \A k \in Keys : Exists(k) => issues'[k].claim = issues[k].claim
<1>1. cmd[c] \in Command /\ Knows(c) /\ claimLock # c /\ openLock # c /\ cmd[c].keys # <<>>
  BY DEF IInv, TypeOK, Knows
<1>2. Key(c) \in Keys /\ issues[Key(c)] \in Issue
  BY <1>1, KeyLemma
<1>3. issues' = [issues EXCEPT ![Key(c)] = issue] /\ UNCHANGED <<live, now, claimLock, openLock>>
  BY DEF Update, World, Locks
<1>4. /\ issues' \in [Keys -> Issue \cup {None}]
      /\ \A k \in Keys : (issues'[k] # None <=> Exists(k)) /\ issues'[k].claim = issues[k].claim
  BY <1>2, <1>3, NoIssueAssumption DEF IInv, TypeOK, Exists
<1>5. PICK r \in Command :
        /\ cmd' = [cmd EXCEPT ![c] = r] /\ cmd'[c] = r
        /\ r.at \in {"gone", "linked"}
        /\ r.at = "linked" => r.keys # <<>>
        /\ \A i \in DOMAIN r.keys : Exists(r.keys[i])
  <2>1. CASE Leaves(c)
    <3>1. Idle("gone") \in Command /\ Idle("gone").at = "gone" /\ Idle("gone").keys = <<>>
      BY IdleLemma
    <3>2. cmd' = [cmd EXCEPT ![c] = Idle("gone")] /\ cmd'[c] = Idle("gone")
      BY <2>1 DEF Leaves, IInv, TypeOK
    <3>3. \A i \in DOMAIN Idle("gone").keys : Exists(Idle("gone").keys[i])
      BY <3>1
    <3> QED BY <3>1, <3>2, <3>3
  <2>2. CASE cmd' = [cmd EXCEPT ![c].at = "linked"]
    <3> DEFINE r == [cmd[c] EXCEPT !.at = "linked"]
    <3>1. r \in Command /\ r.at = "linked" /\ r.keys = cmd[c].keys
      BY <1>1 DEF Command
    <3>2. cmd' = [cmd EXCEPT ![c] = r] /\ cmd'[c] = r
      BY <2>2 DEF IInv, TypeOK
    <3> HIDE DEF r
    <3> QED BY <3>1, <3>2, <1>1 DEF Knows
  <2> QED BY <2>1, <2>2
<1>6. Knows(c)' /\ Relies(c)'
  <2>1. \A i \in DOMAIN r.keys : r.keys[i] \in Keys
    BY DEF Command
  <2> QED BY <1>4, <1>5, <2>1 DEF Knows, Relies, Exists
<1>7. IInv'
  BY <1>1, <1>3, <1>4, <1>5, <1>6, StepLemma DEF IInv, TypeOK
<1> QED BY <1>4, <1>7

LEMMA UpdatesLemma ==
  ASSUME IInv, NEW c \in Commands,
         SetStatus(c) \/ Comment(c) \/ Close(c) \/ Link(c) \/ SetFixing(c)
  PROVE  IInv' /\ \A k \in Keys : Exists(k) => issues'[k].claim = issues[k].claim
<1> DEFINE issue == issues[Key(c)]
<1>1. cmd[c] \in Command /\ Knows(c) /\ Relies(c)
  BY DEF IInv, TypeOK
<1>2. /\ cmd[c].at \in {"started", "linked"} /\ cmd[c].keys # <<>>
      /\ cmd[c].at = "started" => cmd[c].op \notin {"open", "force"}
  BY <1>1 DEF SetStatus, Comment, Close, Link, SetFixing, Knows
<1>3. issue \in Issue
  BY <1>2, KeyLemma
<1>4. {"status", "commented", "closed", "linked"} \subseteq Changes
  BY DEF Changes
<1>5. ASSUME NEW status \in Status
      PROVE  [issue EXCEPT !.status = status] \in Issue
             /\ [issue EXCEPT !.status = status].claim = issue.claim
  BY <1>3 DEF Issue
<1>6. CASE SetStatus(c)
  <2>1. PICK status \in Status : Update(c, With([issue EXCEPT !.status = status], c, "status"))
    BY <1>6 DEF SetStatus
  <2>2. With([issue EXCEPT !.status = status], c, "status") \in Issue
        /\ With([issue EXCEPT !.status = status], c, "status").claim = issue.claim
    BY <1>4, <1>5, IssueLemma
  <2> QED BY <1>2, <1>6, <2>1, <2>2, UpdateLemma DEF SetStatus
<1>7. CASE Comment(c)
  <2>1. With(issue, c, "commented") \in Issue /\ With(issue, c, "commented").claim = issue.claim
    BY <1>3, <1>4, IssueLemma
  <2> QED BY <1>2, <1>7, <2>1, UpdateLemma DEF Comment
<1>8. CASE Close(c)
  <2>1. "done" \in Status
    BY DEF Status
  <2>2. With([issue EXCEPT !.status = "done"], c, "closed") \in Issue
        /\ With([issue EXCEPT !.status = "done"], c, "closed").claim = issue.claim
    BY <1>4, <1>5, <2>1, IssueLemma
  <2> QED BY <1>2, <1>8, <2>2, UpdateLemma DEF Close
<1>9. CASE Link(c)
  <2>1. With(issue, c, "linked") \in Issue /\ With(issue, c, "linked").claim = issue.claim
    BY <1>3, <1>4, IssueLemma
  <2> QED BY <1>2, <1>9, <2>1, UpdateLemma DEF Link
<1>10. CASE SetFixing(c)
  <2>1. CASE CanTransition(issue.status, "fixing")
    <3>1. "fixing" \in Status
      BY DEF Status
    <3>2. With([issue EXCEPT !.status = "fixing"], c, "status") \in Issue
          /\ With([issue EXCEPT !.status = "fixing"], c, "status").claim = issue.claim
      BY <1>4, <1>5, <3>1, IssueLemma
    <3> QED BY <1>2, <1>10, <2>1, <3>2, UpdateLemma DEF SetFixing
  <2>2. CASE ~CanTransition(issue.status, "fixing")
    <3>1. UNCHANGED <<issues, live, now, claimLock, openLock>> /\ Leaves(c)
      BY <1>10, <2>2 DEF SetFixing, World, Locks
    <3>2. claimLock # c /\ openLock # c
      BY <1>2 DEF IInv, TypeOK
    <3>3. cmd' = [cmd EXCEPT ![c] = Idle("gone")]
      BY <3>1 DEF Leaves
    <3> QED BY <1>2, <3>1, <3>2, <3>3, LeaveLemma
  <2> QED BY <2>1, <2>2
<1> QED BY <1>6, <1>7, <1>8, <1>9, <1>10

(* open finds a duplicate, or takes the lock and creates an issue.         *)
LEMMA OpenLemma ==
  ASSUME IInv, NEW c \in Commands, ListDuplicates(c) \/ Create(c)
  PROVE  IInv' /\ \A k \in Keys : Exists(k) => issues'[k].claim = issues[k].claim
<1>1. cmd[c] \in Command /\ Knows(c) /\ Relies(c) /\ None \notin Commands
  BY IssueAssumption DEF IInv, TypeOK
<1>2. CASE ListDuplicates(c)
  <2>1. UNCHANGED <<issues, live, now, claimLock>> /\ claimLock # c
    BY <1>2 DEF ListDuplicates, World, IInv, TypeOK
  <2>2. CASE Leaves(c)
    <3>1. openLock' = openLock /\ openLock = None
      <4>1. cmd'[c] = Idle("gone") /\ Idle("gone").at = "gone"
        BY <2>2, IdleLemma DEF Leaves, IInv, TypeOK
      <4> QED BY <1>1, <1>2, <4>1 DEF ListDuplicates, IInv, TypeOK, Command
    <3> QED BY <1>1, <1>2, <2>1, <2>2, <3>1, LeaveLemma DEF ListDuplicates, Leaves
  <2>3. CASE ~Leaves(c)
    <3> DEFINE closed == {k \in Keys : Exists(k)} \ OpenIssues
               r == [cmd[c] EXCEPT !.at = "opening", !.closed = closed]
    <3>1. /\ cmd' = [cmd EXCEPT ![c] = r] /\ openLock' = c /\ openLock = None
          /\ cmd[c].op \in {"open", "force"}
          /\ cmd[c].op = "open" => OpenIssues = {}
      BY <1>2, <2>3 DEF ListDuplicates, IInv, TypeOK
    <3>2. closed \in SUBSET Keys /\ (OpenIssues = {} => closed = {k \in Keys : Exists(k)})
      OBVIOUS
    <3> HIDE DEF closed
    <3>3. r \in Command /\ r.at = "opening" /\ r.keys = cmd[c].keys /\ r.op = cmd[c].op /\ r.closed = closed
      BY <1>1, <3>2 DEF Command
    <3> HIDE DEF r
    <3>4. cmd'[c] = r
      BY <3>1 DEF IInv, TypeOK
    <3>5. Knows(c)' /\ Relies(c)'
      BY <1>1, <2>1, <3>1, <3>2, <3>3, <3>4 DEF Knows, Relies, Exists
    <3>6. cmd[c].at = "started"
      BY <1>2 DEF ListDuplicates
    <3>7. IInv'
      BY <1>1, <2>1, <3>1, <3>3, <3>5, <3>6, QuietLemma DEF IInv, TypeOK
    <3> QED BY <2>1, <3>7
  <2> QED BY <2>1, <2>2, <2>3
<1>3. CASE Create(c)
  <2>1. /\ cmd[c].at = "opening" /\ openLock = c /\ claimLock # c /\ openLock' = None
        /\ UNCHANGED <<live, now, claimLock>> /\ cmd' = [cmd EXCEPT ![c] = Idle("gone")]
    BY <1>3 DEF Create, World, Leaves, IInv, TypeOK
  <2>2. PICK k \in Keys : ~Exists(k) /\ issues' = [issues EXCEPT ![k] = New(c)]
    BY <1>3 DEF Create
  <2>3. New(c) \in Issue /\ New(c).claim = None
    <3> DEFINE new == [status |-> "open", claim |-> None, history |-> {}]
    <3>1. new \in Issue /\ new.claim = None /\ "opened" \in Changes
      BY DEF Issue, Status, Changes
    <3> HIDE DEF new
    <3>2. With(new, c, "opened") \in Issue /\ With(new, c, "opened").claim = None
      BY <3>1, IssueLemma
    <3> QED BY <3>2 DEF New, new
  <2>4. /\ issues' \in [Keys -> Issue \cup {None}]
        /\ issues'[k] = New(c) /\ \A j \in Keys \ {k} : issues'[j] = issues[j]
    BY <2>2, <2>3 DEF IInv, TypeOK
  <2>5. Idle("gone") \in Command /\ Idle("gone").at = "gone" /\ Idle("gone").keys = <<>>
    BY IdleLemma
  <2>6. cmd'[c] = Idle("gone")
    BY <2>1 DEF IInv, TypeOK
  <2>7. Knows(c)' /\ Relies(c)'
    BY <2>5, <2>6 DEF Knows, Relies
  <2>8. \A j \in Keys : Exists(j) => issues'[j] = issues[j]
    BY <2>2, <2>4
  <2>9. \A j \in Keys : Exists(j) =>
          /\ issues'[j] # None
          /\ issues'[j].claim # issues[j].claim =>
               claimLock = c /\ (issues'[j].claim = None \/ issues'[j].claim.pid = c)
    BY <2>8 DEF Exists
  <2>10. \A j \in Keys : ~Exists(j) /\ issues'[j] # None => openLock = c /\ issues'[j].claim = None
    BY <2>1, <2>3, <2>4 DEF Exists
  <2>11. /\ openLock' \in Commands \cup {None} /\ openLock' # c /\ claimLock' \in Commands \cup {None}
         /\ \A d \in Commands \ {c} : (openLock' = d) <=> (openLock = d)
    BY <1>1, <2>1 DEF IInv, TypeOK
  <2>12. IInv'
    BY <2>1, <2>4, <2>5, <2>7, <2>9, <2>10, <2>11, StepLemma
  <2> QED BY <2>8, <2>12
<1> QED BY <1>2, <1>3

-----------------------------------------------------------------------------
(* Sessions come and go, and time passes: commands judge by what they saw. *)
LEMMA WorldLemma ==
  ASSUME IInv, UNCHANGED <<issues, cmd, claimLock, openLock>>,
         live' \in SUBSET Sessions, now' \in Time
  PROVE  IInv'
<1>1. TypeOK'
  BY DEF IInv, TypeOK
<1>2. Named'
  BY DEF IInv, Named, Exists
<1>3. ASSUME NEW c \in Commands PROVE Knows(c)' /\ Relies(c)'
  <2>1. Knows(c) /\ Relies(c)
    BY DEF IInv
  <2>2. Knows(c)'
    BY <2>1 DEF Knows, Exists
  <2>3. Relies(c)'
    BY <2>1 DEF Relies, Exists, Claims, OwnClaim, Held, SameOwner, IsActive, Alive, Key
  <2> QED BY <2>2, <2>3
<1> QED BY <1>1, <1>2, <1>3 DEF IInv

LEMMA InitLemma == Init => IInv
<1> SUFFICES ASSUME Init PROVE IInv
  OBVIOUS
<1>1. \A c \in Commands : New(c) \in Issue /\ New(c).claim = None
  <2> DEFINE new == [status |-> "open", claim |-> None, history |-> {}]
  <2>1. new \in Issue /\ new.claim = None /\ "opened" \in Changes
    BY DEF Issue, Status, Changes
  <2> HIDE DEF new
  <2>2. \A c \in Commands : With(new, c, "opened") \in Issue /\ With(new, c, "opened").claim = None
    BY <2>1, IssueLemma
  <2> QED BY <2>2 DEF New, new
<1>2. /\ issues \in [Keys -> Issue \cup {None}]
      /\ \A k \in Keys : issues[k] # None => issues[k].claim = None
  BY <1>1 DEF Init
<1>3. Idle("unused") \in Command /\ Idle("unused").at = "unused" /\ Idle("unused").keys = <<>>
  BY IdleLemma
<1>4. cmd \in [Commands -> Command] /\ \A c \in Commands : cmd[c] = Idle("unused")
  BY <1>3 DEF Init
<1>5. TypeOK
  BY <1>2, <1>3, <1>4, IssueAssumption DEF Init, TypeOK, Time
<1>6. Named
  BY <1>2 DEF Named, Exists
<1>7. \A c \in Commands : Knows(c) /\ Relies(c)
  BY <1>3, <1>4 DEF Knows, Relies
<1> QED BY <1>5, <1>6, <1>7 DEF IInv

(* Every step keeps the invariant, and only a save changes a claim.        *)
LEMMA NextLemma ==
  ASSUME IInv, [Next]_vars
  PROVE  /\ IInv'
         /\ \A k \in Keys : Exists(k) /\ issues'[k].claim # issues[k].claim =>
              \E c \in Commands : Save(c) /\ Key(c) = k
<1>1. CASE UNCHANGED vars
  <2>1. live' \in SUBSET Sessions /\ now' \in Time
    BY <1>1 DEF vars, IInv, TypeOK
  <2> QED BY <1>1, <2>1, WorldLemma DEF vars
<1>2. ASSUME NEW c \in Commands, BeginOne(c) \/ BeginOpen(c) \/ BeginNext(c)
      PROVE  IInv' /\ issues' = issues
  BY <1>2, BeginsLemma DEF BeginOne, BeginOpen, BeginNext, Begin
<1>3. ASSUME NEW c \in Commands,
             LoadToClaim(c) \/ RefuseClaim(c) \/ CheckRelease(c) \/ LoadToRelease(c)
      PROVE  IInv' /\ issues' = issues
  BY <1>3, ClaimsLemma DEF LoadToClaim, RefuseClaim, CheckRelease, LoadToRelease
<1>4. ASSUME NEW c \in Commands, Save(c)
      PROVE  IInv' /\ \A k \in Keys : issues'[k].claim # issues[k].claim => Key(c) = k
  BY <1>4, SaveLemma DEF Save, IInv, TypeOK
<1>5. ASSUME NEW c \in Commands,
             SetStatus(c) \/ Comment(c) \/ Close(c) \/ Link(c) \/ SetFixing(c)
             \/ ListDuplicates(c) \/ Create(c)
      PROVE  IInv' /\ \A k \in Keys : Exists(k) => issues'[k].claim = issues[k].claim
  BY <1>5, UpdatesLemma, OpenLemma
<1>6. ASSUME NEW c \in Commands, Crash(c) PROVE IInv' /\ issues' = issues
  <2>1. /\ cmd[c].at \notin {"gone", "dead"} /\ cmd' = [cmd EXCEPT ![c] = Idle("dead")]
        /\ UNCHANGED <<issues, live, now>>
        /\ claimLock' = IF claimLock = c THEN None ELSE claimLock
        /\ openLock' = IF openLock = c THEN None ELSE openLock
    BY <1>6 DEF Crash, Alive, World
  <2> QED BY <2>1, LeaveLemma
<1>7. ASSUME NEW s \in Sessions, Register(s) \/ Exit(s) PROVE IInv' /\ issues' = issues
  <2>1. live' \in SUBSET Sessions /\ now' \in Time /\ UNCHANGED <<issues, cmd, claimLock, openLock>>
    BY <1>7 DEF Register, Exit, Locks, IInv, TypeOK
  <2> QED BY <2>1, WorldLemma
<1>8. CASE Tick
  <2>1. live' \in SUBSET Sessions /\ now' \in Time /\ UNCHANGED <<issues, cmd, claimLock, openLock>>
    BY <1>8, IssueAssumption DEF Tick, Locks, IInv, TypeOK, Time
  <2> QED BY <2>1, WorldLemma
<1> QED BY <1>1, <1>2, <1>3, <1>4, <1>5, <1>6, <1>7, <1>8 DEF Next, Step

-----------------------------------------------------------------------------
(* The events in the files and in the copies that commands are to save.    *)
Seen(e) ==
  \/ \E k \in Keys : Exists(k) /\ e \in issues[k].history
  \/ \E c \in Commands : cmd[c].copy # None /\ e \in cmd[c].copy.history

(* A command that changed an issue outside of .claim.lock does so no more: *)
(* none of its events is anywhere before it happens.                       *)
Happened(e) ==
  /\ e.what \in {"status", "commented", "closed"} => cmd[e.by].at \in {"gone", "dead"}
  /\ e.what = "linked" => cmd[e.by].at \in {"linked", "gone", "dead"}

Lost(old, new) ==
  /\ \A e \in old.history \ new.history : e.what \notin {"opened", "claimed", "released"}
  /\ old.history \subseteq new.history => CanTransition(old.status, new.status)

(* What a save is about to lose are updates that came after its load.      *)
HistoryInv ==
  /\ \A e \in Event : Seen(e) => Happened(e)
  /\ \A c \in Commands : cmd[c].at = "saving" => Lost(issues[Key(c)], cmd[c].copy)

(* A step of command c that adds at most one event.                        *)
LEMMA HistoryLemma ==
  ASSUME IInv, HistoryInv, NEW c \in Commands, NEW what \in Changes,
         \A d \in Commands \ {c} : cmd'[d] = cmd[d],
         cmd[c].at \notin {"gone", "dead"},
         cmd[c].at = "linked" => cmd'[c].at \in {"gone", "dead"},
         \A e \in Event : Seen(e)' => Seen(e) \/ e = [by |-> c, what |-> what],
         Happened([by |-> c, what |-> what])',
         cmd'[c].at = "saving" => Lost(issues[Key(c)], cmd[c].copy)',
         \A d \in Commands \ {c} : cmd[d].at = "saving" =>
           \/ issues'[Key(d)] = issues[Key(d)]
           \/ /\ what \notin {"opened", "claimed", "released"}
              /\ ~Seen([by |-> c, what |-> what])
              /\ issues'[Key(d)].history = issues[Key(d)].history \cup {[by |-> c, what |-> what]}
  PROVE  HistoryInv'
<1> DEFINE new == [by |-> c, what |-> what]
<1>1. ASSUME NEW e \in Event, Seen(e)' PROVE Happened(e)'
  <2>1. CASE e = new
    BY <2>1
  <2>2. CASE e # new
    <3>1. Happened(e) /\ e.by \in Commands
      BY <1>1, <2>2 DEF HistoryInv, Event
    <3>2. CASE e.by # c
      BY <3>1, <3>2 DEF Happened
    <3>3. CASE e.by = c
      BY <3>1, <3>3 DEF Happened
    <3> QED BY <3>2, <3>3
  <2> QED BY <2>1, <2>2
<1>2. ASSUME NEW d \in Commands, cmd'[d].at = "saving" PROVE Lost(issues[Key(d)], cmd[d].copy)'
  <2>1. CASE d = c
    BY <1>2, <2>1
  <2>2. CASE d # c
    <3>1. /\ cmd'[d] = cmd[d] /\ cmd[d].at = "saving" /\ Key(d)' = Key(d)
          /\ Lost(issues[Key(d)], cmd[d].copy)
      BY <1>2, <2>2 DEF Key, HistoryInv
    <3>2. CASE issues'[Key(d)] = issues[Key(d)]
      BY <3>1, <3>2 DEF Lost, CanTransition
    <3>3. CASE /\ what \notin {"opened", "claimed", "released"} /\ ~Seen(new)
               /\ issues'[Key(d)].history = issues[Key(d)].history \cup {new}
      <4>1. cmd[d].copy # None
        BY <3>1 DEF IInv, Knows
      <4>2. new \notin cmd[d].copy.history
        BY <3>3, <4>1 DEF Seen
      <4> QED BY <3>1, <3>3, <4>2 DEF Lost
    <3> QED BY <2>2, <3>1, <3>2, <3>3
  <2> QED BY <2>1, <2>2
<1> QED BY <1>1, <1>2 DEF HistoryInv

(* A step of command c that changes no issue and copies none.              *)
LEMMA QuietHistory ==
  ASSUME IInv, HistoryInv, NEW c \in Commands,
         \A d \in Commands \ {c} : cmd'[d] = cmd[d], issues' = issues,
         cmd[c].at \notin {"gone", "dead"},
         cmd[c].at = "linked" => cmd'[c].at \in {"gone", "dead"},
         cmd'[c].copy \in {None, cmd[c].copy}, cmd'[c].at # "saving"
  PROVE  HistoryInv'
<1>1. \A e \in Event : Seen(e)' => Seen(e)
  BY DEF Seen, Exists
<1>2. "opened" \in Changes /\ Happened([by |-> c, what |-> "opened"])'
  BY DEF Changes, Happened
<1> QED BY <1>1, <1>2, HistoryLemma

(* The copy that a claim or a release is to save.                          *)
LEMMA LoadHistory ==
  ASSUME IInv, HistoryInv, NEW c \in Commands, LoadToClaim(c) \/ LoadToRelease(c)
  PROVE  HistoryInv'
<1>1. cmd[c] \in Command /\ Knows(c) /\ Relies(c)
  BY DEF IInv, TypeOK
<1>2. cmd[c].at \in {"started", "checked"} /\ cmd[c].keys # <<>>
  BY <1>1 DEF LoadToClaim, LoadToRelease, ClaimBegins, Knows
<1>3. Key(c) \in Keys /\ issues[Key(c)] \in Issue
  BY <1>2, KeyLemma
<1>4. /\ issues' = issues /\ \A d \in Commands \ {c} : cmd'[d] = cmd[d]
      /\ LoadToClaim(c) => cmd'[c] = [cmd[c] EXCEPT !.at = "saving", !.copy = Claimed(issues[Key(c)], c)]
      /\ ~LoadToClaim(c) => cmd'[c] = [cmd[c] EXCEPT !.at = "saving", !.copy = Released(issues[Key(c)], c)]
  BY DEF LoadToClaim, LoadToRelease, ClaimBegins, IInv, TypeOK
<1>5. PICK what \in {"claimed", "released"} : \E issue :
        /\ cmd'[c] = [cmd[c] EXCEPT !.at = "saving", !.copy = issue]
        /\ issue.history = issues[Key(c)].history \cup {[by |-> c, what |-> what]}
        /\ issue.status = issues[Key(c)].status \/ issues[Key(c)].status \notin Terminal
  <2>1. CASE LoadToClaim(c)
    <3> DEFINE issue == Claimed(issues[Key(c)], c)
    <3>1. /\ issue.history = issues[Key(c)].history \cup {[by |-> c, what |-> "claimed"]}
          /\ issue.status = issues[Key(c)].status \/ issues[Key(c)].status \notin Terminal
      BY <1>3 DEF Issue, Claimed, With, Terminal
    <3> HIDE DEF issue
    <3>2. cmd'[c] = [cmd[c] EXCEPT !.at = "saving", !.copy = issue]
      BY <1>4, <2>1 DEF issue
    <3> QED BY <3>1, <3>2
  <2>2. CASE ~LoadToClaim(c)
    <3> DEFINE issue == Released(issues[Key(c)], c)
    <3>1. /\ issue.history = issues[Key(c)].history \cup {[by |-> c, what |-> "released"]}
          /\ issue.status = issues[Key(c)].status \/ issues[Key(c)].status \notin Terminal
      BY <1>3 DEF Issue, Released, With, Terminal
    <3> HIDE DEF issue
    <3>2. cmd'[c] = [cmd[c] EXCEPT !.at = "saving", !.copy = issue]
      BY <1>4, <2>2 DEF issue
    <3> QED BY <3>1, <3>2
  <2> QED BY <2>1, <2>2
<1>6. PICK issue :
        /\ cmd'[c] = [cmd[c] EXCEPT !.at = "saving", !.copy = issue]
        /\ issue.history = issues[Key(c)].history \cup {[by |-> c, what |-> what]}
        /\ issue.status = issues[Key(c)].status \/ issues[Key(c)].status \notin Terminal
  BY <1>5
<1>7. /\ cmd'[c].at = "saving" /\ cmd'[c].copy = issue /\ Key(c)' = Key(c)
      /\ what \in Changes /\ Happened([by |-> c, what |-> what])'
  BY <1>1, <1>6 DEF Command, Key, Changes, Happened
<1>8. Lost(issues[Key(c)], cmd[c].copy)'
  BY <1>4, <1>6, <1>7 DEF Lost, CanTransition
<1>9. ASSUME NEW e \in Event, Seen(e)' PROVE Seen(e) \/ e = [by |-> c, what |-> what]
  <2>1. CASE \E k \in Keys : Exists(k)' /\ e \in issues'[k].history
    BY <1>4, <2>1 DEF Seen, Exists
  <2>2. CASE \E d \in Commands : cmd'[d].copy # None /\ e \in cmd'[d].copy.history
    <3>1. PICK d \in Commands : cmd'[d].copy # None /\ e \in cmd'[d].copy.history
      BY <2>2
    <3>2. CASE d = c
      <4>1. Exists(Key(c))
        BY <1>3, NoIssueAssumption DEF Exists
      <4> QED BY <1>3, <1>6, <1>7, <3>1, <3>2, <4>1 DEF Seen
    <3>3. CASE d # c
      BY <1>4, <3>1, <3>3 DEF Seen
    <3> QED BY <3>2, <3>3
  <2> QED BY <1>9, <2>1, <2>2 DEF Seen
<1> QED BY <1>2, <1>4, <1>7, <1>8, <1>9, HistoryLemma

(* What a step makes of the issue k.                                       *)
Keeps(k) == issues'[k] # None /\ Lost(issues[k], issues'[k])

(* A step that leaves an issue alone loses nothing of it.                  *)
LEMMA SameKept == ASSUME NEW k \in Keys, Exists(k), issues'[k] = issues[k] PROVE Keeps(k)
BY DEF Keeps, Lost, CanTransition, Exists

LEMMA SaveHistory ==
  ASSUME IInv, HistoryInv, NEW c \in Commands, Save(c)
  PROVE  HistoryInv' /\ \A k \in Keys : Exists(k) => Keeps(k)
<1>1. cmd[c] \in Command /\ Knows(c) /\ Relies(c) /\ cmd[c].at = "saving" /\ claimLock = c
  BY DEF Save, IInv, TypeOK
<1>2. /\ cmd[c].keys # <<>> /\ cmd[c].copy # None
      /\ cmd[c].op \in {"release", "any"} \/ Claims(c)
  BY <1>1 DEF Knows, Relies
<1>3. Key(c) \in Keys /\ issues[Key(c)] \in Issue
  BY <1>2, KeyLemma
<1>4. PICK r \in Command :
        /\ cmd' = [cmd EXCEPT ![c] = r] /\ cmd'[c] = r
        /\ r.at = "gone" \/ (r.at = "started" /\ r.keys # <<>> /\ r.op = cmd[c].op)
        /\ \A i \in DOMAIN r.keys : Exists(r.keys[i])
  BY <1>2, ProceedsLemma DEF Save, Claims
<1>5. /\ \A k \in Keys : issues'[k] = IF k = Key(c) THEN cmd[c].copy ELSE issues[k]
      /\ \A d \in Commands \ {c} : cmd'[d] = cmd[d] /\ cmd[d].at # "saving"
  BY <1>1, <1>3, <1>4 DEF Save, IInv, TypeOK
<1>6. cmd'[c].copy = None
  <2>1. Leaves(c) \/ \E rest : cmd' = [cmd EXCEPT ![c].at = "started", ![c].keys = rest, ![c].copy = None]
    BY DEF Save, Proceeds
  <2>2. CASE Leaves(c)
    BY <2>2 DEF Leaves, Idle, IInv, TypeOK
  <2>3. CASE \E rest : cmd' = [cmd EXCEPT ![c].at = "started", ![c].keys = rest, ![c].copy = None]
    <3>1. PICK rest : cmd' = [cmd EXCEPT ![c].at = "started", ![c].keys = rest, ![c].copy = None]
      BY <2>3
    <3>2. cmd'[c] = [cmd[c] EXCEPT !.at = "started", !.keys = rest, !.copy = None]
      BY <3>1 DEF IInv, TypeOK
    <3> QED BY <1>1, <3>2 DEF Command
  <2> QED BY <2>1, <2>2, <2>3
<1>7. \A e \in Event : Seen(e)' => Seen(e)
  BY <1>2, <1>3, <1>5, <1>6 DEF Seen, Exists
<1>8. "opened" \in Changes /\ Happened([by |-> c, what |-> "opened"])'
  BY DEF Changes, Happened
<1>9. HistoryInv'
  BY <1>1, <1>4, <1>5, <1>7, <1>8, HistoryLemma
<1>10. Lost(issues[Key(c)], cmd[c].copy)
  BY <1>1 DEF HistoryInv
<1>11. \A k \in Keys : Exists(k) => Keeps(k)
  BY <1>2, <1>5, <1>10, SameKept DEF Keeps
<1> QED BY <1>9, <1>11

(* An update adds an event that no copy has yet.                           *)
LEMMA UpdateHistory ==
  ASSUME IInv, HistoryInv, NEW c \in Commands, cmd[c].at \in {"started", "linked"},
         cmd[c].keys # <<>>, NEW what \in {"status", "commented", "closed", "linked"},
         NEW issue \in Issue, issue.history = issues[Key(c)].history,
         CanTransition(issues[Key(c)].status, issue.status),
         Update(c, With(issue, c, what)),
         \/ Leaves(c)
         \/ what = "linked" /\ cmd' = [cmd EXCEPT ![c].at = "linked"],
         what = "linked" => cmd[c].at = "started"
  PROVE  HistoryInv' /\ \A k \in Keys : Exists(k) => Keeps(k)
<1> DEFINE new == [by |-> c, what |-> what]  saved == With(issue, c, what)
<1>1. Key(c) \in Keys /\ issues[Key(c)] \in Issue /\ cmd[c] \in Command
  BY KeyLemma DEF IInv, TypeOK
<1>2. /\ saved \in Issue /\ saved # None
      /\ saved.history = issues[Key(c)].history \cup {new} /\ saved.status = issue.status
  <2>1. what \in Changes
    BY DEF Changes
  <2> QED BY <2>1, IssueLemma, NoIssueAssumption DEF With, Issue
<1>3. \A k \in Keys : issues'[k] = IF k = Key(c) THEN saved ELSE issues[k]
  BY <1>1 DEF Update, IInv, TypeOK
<1> HIDE DEF saved
<1>4. /\ \A d \in Commands \ {c} : cmd'[d] = cmd[d]
      /\ cmd'[c].at = "gone" \/ (what = "linked" /\ cmd'[c].at = "linked")
      /\ cmd'[c].copy \in {None, cmd[c].copy}
  <2>1. CASE Leaves(c)
    BY <2>1 DEF Leaves, Idle, IInv, TypeOK
  <2>2. CASE what = "linked" /\ cmd' = [cmd EXCEPT ![c].at = "linked"]
    <3>1. cmd'[c] = [cmd[c] EXCEPT !.at = "linked"]
      BY <2>2 DEF IInv, TypeOK
    <3> QED BY <1>1, <2>2, <3>1 DEF Command, IInv, TypeOK
  <2> QED BY <2>1, <2>2
<1>5. what \in Changes /\ new \in Event /\ what \notin {"opened", "claimed", "released"}
  BY DEF Changes, Event
<1>6. ~Seen(new)
  BY <1>5 DEF HistoryInv, Happened
<1>7. Happened(new)'
  BY <1>4 DEF Happened
<1>8. \A e \in Event : Seen(e)' => Seen(e) \/ e = new
  <2>1. Exists(Key(c))
    BY <1>1, NoIssueAssumption DEF Exists
  <2> QED BY <1>1, <1>2, <1>3, <1>4, <2>1 DEF Seen, Exists
<1>9. \A d \in Commands \ {c} : cmd[d].at = "saving" =>
        \/ issues'[Key(d)] = issues[Key(d)]
        \/ /\ what \notin {"opened", "claimed", "released"} /\ ~Seen(new)
           /\ issues'[Key(d)].history = issues[Key(d)].history \cup {new}
  <2> SUFFICES ASSUME NEW d \in Commands, cmd[d].at = "saving"
               PROVE  \/ issues'[Key(d)] = issues[Key(d)]
                      \/ issues'[Key(d)].history = issues[Key(d)].history \cup {new}
    BY <1>5, <1>6
  <2>1. Key(d) \in Keys
    BY KeyLemma DEF IInv, Knows
  <2> QED BY <1>2, <1>3, <2>1
<1>10. HistoryInv'
  BY <1>4, <1>5, <1>7, <1>8, <1>9, HistoryLemma
<1>11. ASSUME NEW k \in Keys, Exists(k) PROVE Keeps(k)
  <2>1. CASE k = Key(c)
    BY <1>2, <1>3, <2>1 DEF Keeps, Lost
  <2>2. CASE k # Key(c)
    BY <1>3, <1>11, <2>2, SameKept
  <2> QED BY <2>1, <2>2
<1> QED BY <1>10, <1>11

LEMMA UpdatesHistory ==
  ASSUME IInv, HistoryInv, NEW c \in Commands,
         SetStatus(c) \/ Comment(c) \/ Close(c) \/ Link(c) \/ SetFixing(c)
  PROVE  HistoryInv' /\ \A k \in Keys : Exists(k) => Keeps(k)
<1> DEFINE issue == issues[Key(c)]
<1>1. cmd[c] \in Command /\ Knows(c)
  BY DEF IInv, TypeOK
<1>2. /\ cmd[c].at \in {"started", "linked"} /\ cmd[c].keys # <<>>
  BY <1>1 DEF SetStatus, Comment, Close, Link, SetFixing, Knows
<1>3. issue \in Issue
  BY <1>2, KeyLemma
<1>4. ASSUME NEW status \in Status
      PROVE  /\ [issue EXCEPT !.status = status] \in Issue
             /\ [issue EXCEPT !.status = status].history = issue.history
             /\ [issue EXCEPT !.status = status].status = status
  BY <1>3 DEF Issue
<1>5. CanTransition(issue.status, issue.status) /\ CanTransition(issue.status, "done")
  BY DEF CanTransition, Terminal
<1>6. "done" \in Status /\ "fixing" \in Status
  BY DEF Status
<1>7. CASE SetStatus(c)
  <2>1. PICK status \in Status :
          /\ CanTransition(issue.status, status)
          /\ Update(c, With([issue EXCEPT !.status = status], c, "status"))
    BY <1>7 DEF SetStatus
  <2> QED BY <1>2, <1>4, <1>7, <2>1, UpdateHistory DEF SetStatus
<1>8. CASE Comment(c)
  BY <1>2, <1>3, <1>5, <1>8, UpdateHistory DEF Comment
<1>9. CASE Close(c)
  BY <1>2, <1>4, <1>5, <1>6, <1>9, UpdateHistory DEF Close
<1>10. CASE Link(c)
  BY <1>2, <1>3, <1>5, <1>10, UpdateHistory DEF Link
<1>11. CASE SetFixing(c) /\ CanTransition(issue.status, "fixing")
  BY <1>2, <1>4, <1>6, <1>11, UpdateHistory DEF SetFixing
<1>12. CASE SetFixing(c) /\ ~CanTransition(issue.status, "fixing")
  <2>1. issues' = issues /\ cmd' = [cmd EXCEPT ![c] = Idle("gone")]
    BY <1>12 DEF SetFixing, Leaves
  <2>2. /\ \A d \in Commands \ {c} : cmd'[d] = cmd[d]
        /\ cmd'[c].at = "gone" /\ cmd'[c].copy = None
    BY <2>1 DEF Idle, IInv, TypeOK
  <2>3. HistoryInv'
    BY <1>2, <2>1, <2>2, QuietHistory
  <2> QED BY <2>1, <2>3, SameKept
<1> QED BY <1>7, <1>8, <1>9, <1>10, <1>11, <1>12

LEMMA CreateHistory ==
  ASSUME IInv, HistoryInv, NEW c \in Commands, Create(c)
  PROVE  HistoryInv' /\ \A k \in Keys : Exists(k) => issues'[k] = issues[k]
<1>1. PICK k \in Keys : ~Exists(k) /\ issues' = [issues EXCEPT ![k] = New(c)]
  BY DEF Create
<1>2. /\ cmd[c].at = "opening" /\ \A d \in Commands \ {c} : cmd'[d] = cmd[d]
      /\ cmd'[c].at = "gone" /\ cmd'[c].copy = None
  BY DEF Create, Leaves, Idle, IInv, TypeOK
<1>3. New(c).history = {[by |-> c, what |-> "opened"]}
  BY DEF New, With
<1>4. \A j \in Keys : issues'[j] = IF j = k THEN New(c) ELSE issues[j]
  BY <1>1 DEF IInv, TypeOK
<1>5. \A e \in Event : Seen(e)' => Seen(e) \/ e = [by |-> c, what |-> "opened"]
  BY <1>2, <1>3, <1>4 DEF Seen, Exists
<1>6. "opened" \in Changes /\ Happened([by |-> c, what |-> "opened"])'
  BY DEF Changes, Happened
<1>7. ASSUME NEW d \in Commands, cmd[d].at = "saving" PROVE issues'[Key(d)] = issues[Key(d)]
  <2>1. Key(d) \in Keys /\ Exists(Key(d))
    BY <1>7, KeyLemma, NoIssueAssumption DEF IInv, Knows, Exists
  <2> QED BY <1>1, <1>4, <2>1
<1>8. HistoryInv'
  BY <1>2, <1>5, <1>6, <1>7, HistoryLemma
<1> QED BY <1>1, <1>4, <1>8

(* The steps of a command that change no issue.                            *)
LEMMA OthersHistory ==
  ASSUME IInv, HistoryInv, NEW c \in Commands,
         \/ BeginOne(c) \/ BeginOpen(c) \/ BeginNext(c)
         \/ RefuseClaim(c) \/ CheckRelease(c) \/ ListDuplicates(c) \/ Crash(c)
  PROVE  HistoryInv' /\ issues' = issues
<1>1. cmd \in [Commands -> Command] /\ cmd[c] \in Command
  BY DEF IInv, TypeOK
<1>2. issues' = issues
  BY DEF BeginOne, BeginOpen, BeginNext, Begin, RefuseClaim, CheckRelease, ListDuplicates, Crash
<1> SUFFICES HistoryInv'
  BY <1>2
<1>3. ASSUME NEW r, cmd' = [cmd EXCEPT ![c] = r], r.copy \in {None, cmd[c].copy},
             cmd[c].at \notin {"gone", "dead"}, r.at # "saving",
             cmd[c].at = "linked" => r.at \in {"gone", "dead"}
      PROVE  HistoryInv'
  <2>1. cmd'[c] = r /\ \A d \in Commands \ {c} : cmd'[d] = cmd[d]
    BY <1>1, <1>3
  <2> QED BY <1>2, <1>3, <2>1, QuietHistory
<1>4. ASSUME NEW op, NEW keys, Begin(c, op, keys) PROVE HistoryInv'
  <2> DEFINE r == IF op \in {"claim", "next", "batch", "release"}
                  THEN [Idle("started") EXCEPT !.op = op, !.keys = keys, !.clock = now, !.seen = live]
                  ELSE [Idle("started") EXCEPT !.op = op, !.keys = keys]
  <2>1. cmd' = [cmd EXCEPT ![c] = r] /\ cmd[c].at = "unused"
    BY <1>4 DEF Begin
  <2>2. r.copy = None /\ r.at = "started"
    BY DEF Idle
  <2> HIDE DEF r
  <2> QED BY <1>3, <2>1, <2>2
<1>5. ASSUME NEW at \in {"gone", "dead"}, cmd' = [cmd EXCEPT ![c] = Idle(at)],
             cmd[c].at \notin {"gone", "dead"}
      PROVE  HistoryInv'
  <2>1. Idle(at).copy = None /\ Idle(at).at = at
    BY DEF Idle
  <2> QED BY <1>3, <1>5, <2>1
<1>6. CASE BeginOne(c) \/ BeginOpen(c) \/ BeginNext(c)
  BY <1>4, <1>6 DEF BeginOne, BeginOpen, BeginNext
<1>7. CASE Crash(c)
  BY <1>5, <1>7 DEF Crash, Alive
<1>8. CASE RefuseClaim(c)
  <2>1. Leaves(c) \/ \E rest : cmd' = [cmd EXCEPT ![c].at = "started", ![c].keys = rest, ![c].copy = None]
    BY <1>8 DEF RefuseClaim, Proceeds
  <2>2. cmd[c].at = "started"
    BY <1>8 DEF RefuseClaim, ClaimBegins
  <2>3. CASE Leaves(c)
    BY <1>5, <2>2, <2>3 DEF Leaves
  <2>4. CASE \E rest : cmd' = [cmd EXCEPT ![c].at = "started", ![c].keys = rest, ![c].copy = None]
    <3>1. PICK rest : cmd' = [cmd EXCEPT ![c].at = "started", ![c].keys = rest, ![c].copy = None]
      BY <2>4
    <3> DEFINE r == [cmd[c] EXCEPT !.at = "started", !.keys = rest, !.copy = None]
    <3>2. cmd' = [cmd EXCEPT ![c] = r]
      BY <1>1, <3>1
    <3>3. r.at = "started" /\ r.copy = None
      BY <1>1 DEF Command
    <3> HIDE DEF r
    <3> QED BY <1>3, <2>2, <3>2, <3>3
  <2> QED BY <2>1, <2>3, <2>4
<1>9. CASE CheckRelease(c)
  <2>1. cmd[c].at = "started"
    BY <1>9 DEF CheckRelease
  <2>2. CASE Leaves(c)
    BY <1>5, <2>1, <2>2 DEF Leaves
  <2>3. CASE ~Leaves(c)
    <3> DEFINE r == [cmd[c] EXCEPT !.at = "checked"]
    <3>1. cmd' = [cmd EXCEPT ![c] = r]
      BY <1>1, <1>9, <2>3 DEF CheckRelease
    <3>2. r.at = "checked" /\ r.copy = cmd[c].copy
      BY <1>1 DEF Command
    <3> HIDE DEF r
    <3> QED BY <1>3, <2>1, <3>1, <3>2
  <2> QED BY <2>2, <2>3
<1>10. CASE ListDuplicates(c)
  <2>1. cmd[c].at = "started"
    BY <1>10 DEF ListDuplicates
  <2>2. CASE Leaves(c)
    BY <1>5, <2>1, <2>2 DEF Leaves
  <2>3. CASE ~Leaves(c)
    <3> DEFINE closed == {k \in Keys : Exists(k)} \ OpenIssues
               r == [cmd[c] EXCEPT !.at = "opening", !.closed = closed]
    <3>1. cmd' = [cmd EXCEPT ![c] = r]
      BY <1>1, <1>10, <2>3 DEF ListDuplicates
    <3> HIDE DEF closed
    <3>2. r.at = "opening" /\ r.copy = cmd[c].copy
      BY <1>1 DEF Command
    <3> HIDE DEF r
    <3> QED BY <1>3, <2>1, <3>1, <3>2
  <2> QED BY <2>2, <2>3
<1> QED BY <1>6, <1>7, <1>8, <1>9, <1>10

LEMMA HistoryInit == Init => HistoryInv
<1> SUFFICES ASSUME Init PROVE HistoryInv
  OBVIOUS
<1>1. \A c \in Commands : cmd[c].at = "unused" /\ cmd[c].copy = None
  BY DEF Init, Idle
<1>2. \A c \in Commands : New(c).history = {[by |-> c, what |-> "opened"]}
  BY DEF New, With
<1>3. \A k \in Keys : Exists(k) => \E c \in Commands : issues[k] = New(c)
  BY DEF Init, Exists
<1>4. ASSUME NEW e \in Event, Seen(e) PROVE Happened(e)
  <2>1. e.what = "opened"
    BY <1>1, <1>2, <1>3, <1>4 DEF Seen
  <2> QED BY <2>1 DEF Happened
<1> QED BY <1>1, <1>4 DEF HistoryInv

LEMMA HistoryStep ==
  ASSUME IInv, HistoryInv, [Next]_vars
  PROVE  HistoryInv' /\ \A k \in Keys : Exists(k) => Keeps(k)
<1>1. ASSUME UNCHANGED <<issues, cmd>> PROVE HistoryInv' /\ \A k \in Keys : Exists(k) => Keeps(k)
  <2>1. HistoryInv'
    BY <1>1 DEF HistoryInv, Seen, Happened, Exists, Lost, CanTransition, Key
  <2> QED BY <1>1, <2>1, SameKept
<1>2. ASSUME NEW c \in Commands, LoadToClaim(c) \/ LoadToRelease(c)
      PROVE  HistoryInv' /\ \A k \in Keys : Exists(k) => Keeps(k)
  <2>1. issues' = issues
    BY <1>2 DEF LoadToClaim, LoadToRelease
  <2> QED BY <1>2, <2>1, LoadHistory, SameKept
<1>3. ASSUME NEW c \in Commands,
             \/ BeginOne(c) \/ BeginOpen(c) \/ BeginNext(c)
             \/ RefuseClaim(c) \/ CheckRelease(c) \/ ListDuplicates(c) \/ Crash(c)
      PROVE  HistoryInv' /\ \A k \in Keys : Exists(k) => Keeps(k)
  BY <1>3, OthersHistory, SameKept
<1>4. ASSUME NEW c \in Commands, Create(c)
      PROVE  HistoryInv' /\ \A k \in Keys : Exists(k) => Keeps(k)
  BY <1>4, CreateHistory, SameKept
<1>5. ASSUME NEW s \in Sessions, Register(s) \/ Exit(s) PROVE UNCHANGED <<issues, cmd>>
  BY <1>5 DEF Register, Exit
<1>6. ASSUME Tick \/ UNCHANGED vars PROVE UNCHANGED <<issues, cmd>>
  BY <1>6 DEF Tick, vars
<1> QED BY <1>1, <1>2, <1>3, <1>4, <1>5, <1>6, SaveHistory, UpdatesHistory DEF Next, Step

-----------------------------------------------------------------------------
LEMMA Invariance == Spec => []IInv
<1>1. IInv /\ [Next]_vars => IInv'
  BY NextLemma
<1> QED BY InitLemma, <1>1, PTL DEF Spec

(* The types, and that a lock is held exactly by the command between load  *)
(* and save, also when commands die.                                       *)
THEOREM TypeCorrect == Spec => []TypeOK
<1>1. IInv => TypeOK
  BY DEF IInv
<1> QED BY Invariance, <1>1, PTL

(* A claim is replaced only by a command that finds it void at the moment  *)
(* it writes, and taken away only by a release (IssueStore::claim).        *)
THEOREM ClaimsHold == Spec => ClaimHolds
<1>1. ASSUME IInv, [Next]_vars, NEW k \in Keys,
             Exists(k), issues[k].claim # None, issues'[k].claim # issues[k].claim
      PROVE  \E c \in Commands :
               Saves(c, k) /\ (cmd[c].op \in {"release", "any"} \/ ~Held(c, issues[k].claim))
  <2>1. PICK c \in Commands : Save(c) /\ Key(c) = k
    BY <1>1, NextLemma
  <2>2. cmd[c].at = "saving" /\ cmd'[c].at \in {"started", "gone"}
    BY <1>1, <2>1, SaveLemma DEF Save
  <2>3. cmd[c].op \in {"release", "any"} \/ ~Held(c, issues[Key(c)].claim)
    BY <1>1, <2>2 DEF IInv, Relies
  <2> QED BY <2>1, <2>2, <2>3 DEF Saves
<1>2. IInv /\ [Next]_vars =>
        [\A k \in Keys :
           (Exists(k) /\ issues[k].claim # None /\ issues'[k].claim # issues[k].claim) =>
             \E c \in Commands :
               /\ Saves(c, k)
               /\ cmd[c].op \in {"release", "any"} \/ ~Held(c, issues[k].claim)]_vars
  BY <1>1
<1> QED BY Invariance, <1>2, PTL DEF Spec, ClaimHolds

(* open creates no issue beside an open one of its fingerprint that it did *)
(* not find closed (CrossRepoIssueCoordinator::open).                      *)
THEOREM OpensOnce == Spec => OpenedOnce
<1>1. IInv /\ [Next]_vars =>
        [\A c \in Commands :
           (cmd[c].at = "opening" /\ cmd[c].op = "open" /\ cmd'[c].at = "gone") =>
             OpenIssues \subseteq cmd[c].closed]_vars
  BY DEF IInv, Relies, OpenIssues
<1> QED BY Invariance, <1>1, PTL DEF Spec, OpenedOnce

(* A save that races with updates of its issue (update_at and              *)
(* append_event_at take another lock) loses none but those that came after *)
(* it loaded the issue, never a claim, a release or the opening; and the   *)
(* status steps as the code allows it as long as nothing is lost.          *)
THEOREM LosesOnlyUpdates == Spec => OnlyUpdatesLost
<1>1. IInv /\ HistoryInv /\ [Next]_vars => IInv' /\ HistoryInv'
  BY NextLemma, HistoryStep
<1>2. ASSUME IInv, HistoryInv, [Next]_vars, NEW k \in Keys, Exists(k)
      PROVE  /\ issues'[k] # None
             /\ \A e \in Dropped(k) : e.what \notin {"opened", "claimed", "released"}
             /\ Dropped(k) = {} => CanTransition(issues[k].status, issues'[k].status)
  <2>1. issues'[k] # None /\ Lost(issues[k], issues'[k])
    BY <1>2, HistoryStep DEF Keeps
  <2> QED BY <2>1 DEF Lost, Dropped
<1>3. IInv /\ HistoryInv /\ [Next]_vars =>
        [\A k \in Keys :
           Exists(k) =>
             /\ issues'[k] # None
             /\ \A e \in Dropped(k) : e.what \notin {"opened", "claimed", "released"}
             /\ Dropped(k) = {} => CanTransition(issues[k].status, issues'[k].status)]_vars
  BY <1>2
<1> QED BY InitLemma, HistoryInit, <1>1, <1>3, PTL DEF Spec, OnlyUpdatesLost
=============================================================================
