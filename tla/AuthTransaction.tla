--------------------------- MODULE AuthTransaction ---------------------------
(***************************************************************************)
(* A credential transaction (orchestration/auth): copy, swap and restore   *)
(* write the credential files of profiles one after the other, after a     *)
(* private backup of each profile they change, and undo what they wrote    *)
(* when a write fails.  One lock admits one transaction at a time, so one  *)
(* variable describes the one under way; a crash leaves the lock free and  *)
(* the files as they are.                                                  *)
(*                                                                         *)
(* A file is the account it belongs to.  A Claude profile has a credential *)
(* and an identity file, a Codex profile only the former.                  *)
(***************************************************************************)
EXTENDS Naturals, Sequences, FiniteSets

CONSTANTS
  Profiles,
  Own,         \* the account a profile is logged in to at first
  Parts,       \* the files of a profile, in the order they are written
  MaxTime,     \* bound of the model: seconds; backups are named by them
  Rotations,   \* bound of the model: transactions
  Failures,    \* bound of the model: writes that fail
  Crashes,     \* bound of the model: crashes
  UndoFails    \* may a write fail while writes are undone?

VARIABLES
  file,      \* file[p][k]: whose k-th file the profile has
  backups,   \* the backups, [profile, kind, time, files]
  op,        \* the transaction under way
  log,       \* the rotation journal
  past,      \* the logins a profile has had between transactions
  now,
  count      \* how many transactions, failures and crashes there were

vars == <<file, backups, op, log, past, now, count>>

ASSUME AuthAssumption ==
  /\ IsFiniteSet(Profiles) /\ Cardinality(Profiles) > 1
  /\ DOMAIN Own = Profiles /\ \A p, q \in Profiles : p # q => Own[p] # Own[q]
  /\ Parts \in {<<"credential">>, <<"credential", "identity">>}
  /\ {MaxTime, Rotations, Failures, Crashes} \subseteq Nat /\ UndoFails \in BOOLEAN

Accounts == {Own[p] : p \in Profiles}
Files == [DOMAIN Parts -> Accounts]
Kinds == {"copy", "swap", "restore"}
Backup == [profile : Profiles, kind : {"rotation", "safety"}, time : 0 .. MaxTime, files : Files]
Write == [profile : Profiles, part : DOMAIN Parts, account : Accounts]

(* A transaction writes each file of at most two profiles once and is in   *)
(* the journal at most once.                                               *)
TypeOK ==
  /\ file \in [Profiles -> Files]
  /\ backups \subseteq Backup
  /\ op \in [at : {"idle", "saving", "applying", "logging", "undoing"}, kind : Kinds,
             time : 0 .. MaxTime, save : Seq(Profiles), plan : Seq(Write),
             undo : Seq(Write), before : [Profiles -> Files]]
  /\ op.time <= now
  /\ Len(op.plan) <= 2 * Len(Parts) /\ Len(op.undo) <= 2 * Len(Parts)
  /\ log \in Seq(Kinds) /\ Len(log) <= count.rotations
  /\ past \in [Profiles -> SUBSET Accounts]
  /\ now \in 0 .. MaxTime
  /\ count \in [rotations : 0 .. Rotations, failures : 0 .. Failures, crashes : 0 .. Crashes]

-----------------------------------------------------------------------------
(* The writes that give each of the profiles ps the files it has in to,    *)
(* all first files before all second files, or profile after profile.      *)
ByPart(ps, to) ==
  [i \in 1 .. Len(Parts) * Len(ps) |->
     LET part == (i - 1) \div Len(ps) + 1
         p    == ps[((i - 1) % Len(ps)) + 1]
     IN  [profile |-> p, part |-> part, account |-> to[p][part]]]
LastFirst(ps, to) ==
  [i \in 1 .. Len(Parts) * Len(ps) |->
     LET j    == Len(Parts) * Len(ps) - i
         part == (j % Len(Parts)) + 1
         p    == ps[j \div Len(Parts) + 1]
     IN  [profile |-> p, part |-> part, account |-> to[p][part]]]

(* reject_same_profile and, where there are identities, reject_same_account. *)
Distinct(p, q) ==
  p # q /\ (Len(Parts) = 2 => file[p][2] # file[q][2])

(* Under the lock the files are read, and everything is planned; the time  *)
(* of the transaction is that of the command, which may have waited.       *)
Begin(kind, ps, to) ==
  /\ op.at = "idle" /\ count.rotations < Rotations
  /\ \E t \in 0 .. now :
       op' = [at |-> "saving", kind |-> kind, time |-> t, save |-> ps, plan |-> ByPart(ps, to),
              undo |-> LastFirst(ps, file), before |-> file]
  /\ count' = [count EXCEPT !.rotations = @ + 1]
  /\ UNCHANGED <<file, backups, log, past, now>>

BeginCopy(p, q) ==
  Distinct(p, q) /\ Begin("copy", <<p>>, [file EXCEPT ![p] = file[q]])
BeginSwap(p, q) ==
  /\ Distinct(p, q)
  /\ Begin("swap", <<p, q>>, [file EXCEPT ![p] = file[q], ![q] = file[p]])

(* Wrong on purpose: a backup of any profile is taken.                     *)
LatestOfAny(p) ==
  LET mine == {b \in backups : b.kind = "rotation"}
  IN  {b \in mine : \A c \in mine : c.time <= b.time}

(* BackupStore::latest: the newest of the profile's rotation backups; their *)
(* names order those of one second at random.                              *)
Latest(p) ==
  LET mine == {b \in backups : b.profile = p /\ b.kind = "rotation"}
  IN  {b \in mine : \A c \in mine : c.time <= b.time}
BeginRestore(p) ==
  \E b \in Latest(p) : Begin("restore", <<p>>, [file EXCEPT ![p] = b.files])

May(what, bound) == count[what] < bound /\ count' = [count EXCEPT ![what] = @ + 1]

(* The login of a profile between transactions.                            *)
Settle ==
  /\ op' = [op EXCEPT !.at = "idle", !.save = <<>>, !.plan = <<>>, !.undo = <<>>]
  /\ past' = [p \in Profiles |-> past[p] \cup {file'[p][1]}]

Saved(p) ==
  [profile |-> p, time |-> op.time, files |-> file[p],
   kind |-> IF op.kind = "restore" THEN "safety" ELSE "rotation"]

(* Wrong on purpose: only the profile named last is backed up.             *)
SaveLast ==
  /\ op.at = "saving" /\ UNCHANGED <<file, log, now>>
  /\ backups' = backups \cup {Saved(op.save[Len(op.save)])}
  /\ op' = [op EXCEPT !.save = <<>>, !.at = "applying"]
  /\ UNCHANGED <<past, count>>

(* BackupStore::save of the next profile that the transaction changes; like *)
(* any write it may fail before or after it took effect.                   *)
Save ==
  /\ op.at = "saving" /\ UNCHANGED <<file, log, now>>
  /\ \/ /\ backups' = backups \cup {Saved(Head(op.save))}
        /\ op' = [op EXCEPT !.save = Tail(@), !.at = IF Len(op.save) > 1 THEN @ ELSE "applying"]
        /\ UNCHANGED <<past, count>>
     \/ /\ May("failures", Failures)
        /\ backups' \in {backups, backups \cup {Saved(Head(op.save))}}
        /\ Settle

Put(w) == [file EXCEPT ![w.profile][w.part] = w.account]

(* apply_with_rollback.                                                    *)
Apply ==
  /\ op.at = "applying" /\ UNCHANGED <<backups, log, past, now>>
  /\ \/ /\ file' = Put(Head(op.plan))
        /\ op' = [op EXCEPT !.plan = Tail(@), !.at = IF Len(op.plan) > 1 THEN @ ELSE "logging"]
        /\ UNCHANGED count
     \/ /\ May("failures", Failures)
        /\ file' \in {file, Put(Head(op.plan))}
        /\ op' = [op EXCEPT !.at = "undoing"]

(* rollback_after_failure: the first write that fails ends it.             *)
Undo ==
  /\ op.at = "undoing" /\ UNCHANGED <<backups, log, now>>
  /\ \/ /\ file' = Put(Head(op.undo))
        /\ IF Len(op.undo) > 1 THEN op' = [op EXCEPT !.undo = Tail(@)] /\ UNCHANGED past ELSE Settle
        /\ UNCHANGED count
     \/ /\ UndoFails /\ May("failures", Failures)
        /\ file' \in {file, Put(Head(op.undo))}
        /\ Settle

(* The entry in the journal ends the transaction; only a swap is undone    *)
(* when it cannot be written.                                              *)
Log ==
  /\ op.at = "logging" /\ UNCHANGED <<file, backups, now>>
  /\ \/ log' = Append(log, op.kind) /\ Settle /\ UNCHANGED count
     \/ /\ May("failures", Failures) /\ UNCHANGED log
        /\ IF op.kind = "swap" THEN op' = [op EXCEPT !.at = "undoing"] /\ UNCHANGED past ELSE Settle

Crash ==
  /\ op.at # "idle" /\ May("crashes", Crashes)
  /\ UNCHANGED <<file, backups, log, now>>
  /\ Settle

Tick == now < MaxTime /\ now' = now + 1 /\ UNCHANGED <<file, backups, op, log, past, count>>

Init ==
  /\ file = [p \in Profiles |-> [k \in DOMAIN Parts |-> Own[p]]]
  /\ backups = {} /\ log = <<>> /\ now = 0
  /\ op = [at |-> "idle", kind |-> "copy", time |-> 0, save |-> <<>>, plan |-> <<>>, undo |-> <<>>,
           before |-> file]
  /\ past = [p \in Profiles |-> {Own[p]}]
  /\ count = [rotations |-> 0, failures |-> 0, crashes |-> 0]

Next ==
  \/ \E p, q \in Profiles : BeginCopy(p, q) \/ BeginSwap(p, q)
  \/ \E p \in Profiles : BeginRestore(p)
  \/ Save \/ Apply \/ Undo \/ Log \/ Crash \/ Tick

Spec == Init /\ [][Next]_vars

-----------------------------------------------------------------------------
(* Whatever fails, and wherever a crash hits, the login of every account   *)
(* is in a profile or in a backup: a user never has to log in again        *)
(* because of a rotation.                                                  *)
NothingLost ==
  \A a \in Accounts :
    \/ \E p \in Profiles : file[p][1] = a
    \/ \E b \in backups : b.files[1] = a

(* A transaction happens, when it ends, altogether or not at all; one that *)
(* a crash or a second failure ends may have done half a swap, which is a  *)
(* copy.                                                                   *)
Store == INSTANCE CredentialStore WITH
  holds <- [p \in Profiles |-> IF op.at = "idle" THEN file[p][1] ELSE op.before[p][1]]
ImplementsStore == Store!Spec

-----------------------------------------------------------------------------
(* The code does not keep the following in every setting, and no           *)
(* configuration checks it: README, "Known disagreements".                 *)

(* Every change of a profile is in the journal.                            *)
Audited ==
  [][op.at # "idle" /\ op'.at = "idle" /\ file' # op.before => Len(log') > Len(log)]_vars
=============================================================================
