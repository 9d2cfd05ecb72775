---------------------------- MODULE Installation ----------------------------
(***************************************************************************)
(* `neomax install`, `uninstall` and the seeding of a profile              *)
(* (installation): files replaced or removed one after the other, each     *)
(* with a backup, undone in reverse when a step fails.  Commands exclude   *)
(* each other by a lock; the user, and Claude Code with its settings, do   *)
(* not ask for it.                                                         *)
(*                                                                         *)
(* One file stands for the files of the package, one for the workflows of  *)
(* a profile.  A rename to another device fails, and then the file is      *)
(* copied.  A version names the content of the files it installs.          *)
(***************************************************************************)
EXTENDS Integers, FiniteSets

CONSTANTS
  Commands,    \* processes, each of one command
  Versions,    \* versions of the package
  Device,      \* the device a file is on
  Share, Home, \* the devices of the install root and of the profiles
  None,
  Mine,        \* what the user makes of a file
  Derived,     \* a workflow rendered from a source that the user has edited
  MaxFailures, MaxCrashes, MaxEdits \* bounds of the model

VARIABLES
  disk,     \* the content of every file, None if there is none
  kept,     \* what the backup directory of the running command holds
  stray,    \* the settings in backup directories that dead commands left
  source,   \* share/workflows is a directory
  inside,   \* the command that has the lock
  cmd,
  failures,
  written,  \* how often the user has changed the settings
  edits,    \* how often the user has changed another file
  touched   \* the files the user has changed since `inside` last looked at them

mine == <<source, written, edits, touched>>
installVars == <<disk, kept, stray, source, inside, cmd, failures, written, edits, touched>>

(* Targets in the order in which a command replaces them: files of the     *)
(* package, the install manifest, a workflow of a profile, the settings of *)
(* Claude Code in it, the workflow manifest.                               *)
Targets == {"package", "record", "workflow", "settings", "owned"}
Rank == [package |-> 1, record |-> 2, workflow |-> 3, settings |-> 4, owned |-> 5]

Workflow == Versions \cup {Mine, Derived, None}
Settings == [written : 0 .. MaxEdits, hooks : BOOLEAN]
Owned == [workflow : Versions \cup {Derived, None}, hooks : BOOLEAN]
Content(f) ==
  CASE f = "package" -> Versions \cup {Mine, None}
    [] f = "record" -> Versions \cup {None}
    [] f = "workflow" -> Workflow
    [] f = "settings" -> Settings \cup {None}
    [] f = "owned" -> Owned \cup {None}

Stuff == UNION {Content(f) : f \in Targets}

Places == {"new", "replacing", "activating", "undoing", "looking", "removing", "reading",
           "unhooking", "unrecording", "gone", "dead"}
FileBackup == [backup : {"none", "moved", "copied"}, activated : BOOLEAN]
IsCommand(x) ==
  /\ x \in [at : Places, op : {"install", "ensure", "uninstall", None}, force : BOOLEAN,
            plan : [DOMAIN x.plan -> Stuff], todo : SUBSET DOMAIN x.plan,
            moved : [DOMAIN x.moved -> FileBackup], owned : Owned \cup {None},
            before : [DOMAIN x.before -> Stuff], result : {"ok", "failed", "broken", None}]
  /\ DOMAIN x.moved \subseteq DOMAIN x.plan /\ DOMAIN x.plan \subseteq Targets
  /\ \A f \in DOMAIN x.plan : x.plan[f] \in Content(f)

ASSUME InstallAssumption ==
  /\ IsFiniteSet(Commands) /\ None \notin Commands
  /\ {MaxFailures, MaxCrashes, MaxEdits} \subseteq Nat
  /\ DOMAIN Device = Targets /\ None \notin Versions
  /\ Mine \notin Versions \cup {None, Derived} /\ Derived # None
  /\ None \notin Settings \cup Owned \cup {"ok", "failed", "broken", "uninstall"}

InstallTypeOK ==
  /\ {disk, kept} \subseteq [Targets -> Stuff]
  /\ \A f \in Targets : disk[f] \in Content(f) /\ kept[f] \in Content(f)
  /\ stray \subseteq 0 .. MaxEdits /\ source \in BOOLEAN
  /\ {failures, written, edits} \subseteq Nat /\ written <= MaxEdits
  /\ inside \in Commands \cup {None} /\ touched \subseteq {"package", "workflow", "settings"}
  /\ cmd = [c \in Commands |-> cmd[c]]
  /\ \A c \in Commands : IsCommand(cmd[c]) /\ (inside = c <=> cmd[c].at \notin {"new", "gone", "dead"})
  /\ inside = None => kept = [f \in Targets |-> None] /\ touched = {}

-----------------------------------------------------------------------------
First(S) == CHOOSE f \in S : \A g \in S : Rank[f] <= Rank[g]
Last(S) == CHOOSE f \in S : \A g \in S : Rank[g] <= Rank[f]
Without(m, f) == [g \in DOMAIN m \ {f} |-> m[g]]
With(m, f, x) == [g \in DOMAIN m \cup {f} |-> IF g = f THEN x ELSE m[g]]
NoBackups == [f \in Targets |-> None]
Nothing == [f \in {} |-> None]

(* The backups lie beside the install root, or beside the home.            *)
Far(c, f) == Device[f] # (IF cmd[c].op = "ensure" THEN Home ELSE Share)

Idle == [at |-> "new", op |-> None, force |-> FALSE, plan |-> Nothing, todo |-> {},
         moved |-> Nothing, owned |-> None, before |-> Nothing, result |-> None]

(* NEOMAX is installed or it is not; the profile has settings or has not.  *)
InstallInit ==
  /\ \E s \in {None, [written |-> 0, hooks |-> FALSE]}, v \in Versions \cup {None} :
       /\ disk = [package |-> v, record |-> v, workflow |-> v,
                  settings |-> IF v = None THEN s ELSE [written |-> 0, hooks |-> TRUE],
                  owned |-> IF v = None THEN None ELSE [workflow |-> v, hooks |-> TRUE]]
       /\ source = (v # None)
  /\ kept = NoBackups /\ stray = {} /\ inside = None
  /\ cmd = [c \in Commands |-> Idle]
  /\ failures = 0 /\ written = 0 /\ edits = 0 /\ touched = {}

-----------------------------------------------------------------------------
(* Wrong on purpose: the settings are written anew.                        *)
HookedAnew == [written |-> 0, hooks |-> TRUE]

(* The settings with the hooks of NEOMAX (merge_hooks).                    *)
Hooked ==
  IF disk["settings"] = None THEN [written |-> 0, hooks |-> TRUE]
                             ELSE [disk["settings"] EXCEPT !.hooks = TRUE]

(* preflight_existing and preflight_workflow_target: a file is replaced if *)
(* it is the one that was installed, a workflow also if it stays the same. *)
PackageIsOurs == disk["package"] \in {None, disk["record"]}
Recorded == IF disk["owned"] = None THEN None ELSE disk["owned"].workflow
WorkflowIsOurs == disk["workflow"] \in {None, Recorded}
Replaceable(v) == PackageIsOurs /\ (WorkflowIsOurs \/ disk["workflow"] = v)

InstallPlan(v) ==
  [package |-> v, record |-> v, workflow |-> v, settings |-> Hooked,
   owned |-> [workflow |-> v, hooks |-> TRUE]]

(* Seeding renders the installed sources, keeps a workflow that is there,  *)
(* and adds to what is recorded.                                           *)
Rendered == IF disk["package"] = Mine THEN Derived ELSE disk["package"]
Seeds == disk["workflow"] = None /\ disk["package"] # None
(* Wrong on purpose: what was recorded before is forgotten.                *)
EnsurePlanForgets ==
  LET owned == [workflow |-> IF Seeds THEN Rendered ELSE None, hooks |-> TRUE]
  IN  [f \in {"settings", "owned"} \cup (IF Seeds THEN {"workflow"} ELSE {}) |->
         CASE f = "workflow" -> Rendered [] f = "settings" -> Hooked [] f = "owned" -> owned]
EnsurePlan ==
  LET owned == [workflow |-> IF Seeds THEN Rendered ELSE Recorded, hooks |-> TRUE]
  IN  [f \in {"settings", "owned"} \cup (IF Seeds THEN {"workflow"} ELSE {}) |->
         CASE f = "workflow" -> Rendered [] f = "settings" -> Hooked [] f = "owned" -> owned]

(* uninstall: verify_owned and preflight_uninstall, which looks at what    *)
(* the workflow manifest records.                                          *)
UnrecordedOrOurs == Recorded = None \/ WorkflowIsOurs
Removable == PackageIsOurs /\ UnrecordedOrOurs
RemovePlan ==
  [f \in {g \in {"package", "record"} : disk[g] # None} |-> None]

(* A command gets the lock, reads the manifests and the settings, looks at *)
(* the files it is going to replace, and stages what it will write.  What  *)
(* it has looked at before (is there a manifest, is share/workflows a      *)
(* directory) it sees again, or it stays so.  A command that refuses to go *)
(* on changes nothing.                                                     *)
Stage(c, op, force, plan) ==
  /\ cmd[c].at = "new" /\ inside = None /\ inside' = c
  /\ cmd' = [cmd EXCEPT ![c] = [Idle EXCEPT !.at = "replacing", !.op = op, !.force = force,
                                 !.plan = plan, !.todo = DOMAIN plan,
                                 !.owned = disk["owned"], !.before = disk]]
  /\ UNCHANGED <<disk, kept, stray, failures, written, edits, touched>>

StageInstall(c) ==
  /\ \E force \in BOOLEAN, v \in Versions :
       /\ force \/ Replaceable(v)
       /\ Stage(c, "install", force, InstallPlan(v))
  /\ source' = TRUE

StageEnsure(c) ==
  /\ source
  /\ Stage(c, "ensure", FALSE, EnsurePlan)
  /\ UNCHANGED source

StageUninstall(c) ==
  /\ disk["record"] # None
  /\ \E force \in BOOLEAN :
       /\ force \/ Removable
       /\ Stage(c, "uninstall", force, RemovePlan)
  /\ UNCHANGED source

-----------------------------------------------------------------------------
(* replace_all and remove_all: stage_backup of the next file, which is     *)
(* then gone unless the backup is a copy.                                  *)
StageBackup(c) ==
  /\ cmd[c].at = "replacing" /\ cmd[c].todo # {}
  /\ LET f == First(cmd[c].todo)
         removal == cmd[c].plan[f] = None
         backup == IF disk[f] = None THEN "none" ELSE IF Far(c, f) THEN "copied" ELSE "moved"
         over == removal /\ backup # "copied"
     IN  /\ kept' = [kept EXCEPT ![f] = disk[f]]
         /\ disk' = IF backup = "moved" THEN [disk EXCEPT ![f] = None] ELSE disk
         /\ cmd' = [cmd EXCEPT
              ![c].moved = IF removal /\ backup = "none" THEN @
                           ELSE With(@, f, [backup |-> backup, activated |-> over]),
              ![c].todo = IF over THEN @ \ {f} ELSE @,
              ![c].at = IF over THEN "replacing" ELSE "activating"]
  /\ UNCHANGED <<stray, inside, failures, mine>>

(* move_with_fallback of the staged file, or remove_file after a copy.     *)
Activate(c) ==
  /\ cmd[c].at = "activating"
  /\ LET f == First(cmd[c].todo)
     IN  /\ disk' = [disk EXCEPT ![f] = cmd[c].plan[f]]
         /\ cmd' = [cmd EXCEPT ![c].moved[f].activated = TRUE, ![c].todo = @ \ {f},
                               ![c].at = "replacing"]
  /\ UNCHANGED <<kept, stray, inside, failures, mine>>

(* A backup, an activation, or the sync of a directory after either fails. *)
Fail(c) ==
  /\ cmd[c].at \in {"replacing", "activating"}
  /\ failures < MaxFailures /\ failures' = failures + 1
  /\ cmd' = [cmd EXCEPT ![c].at = "undoing", ![c].result = "failed"]
  /\ UNCHANGED <<disk, kept, stray, inside, mine>>

(* The entry that rollback has come to, and what it does with it.          *)
Undone(c) == Last(DOMAIN cmd[c].moved)
(* Wrong on purpose: only what was replaced is restored, not what was only *)
(* moved away.                                                             *)
RestoresActivated(m) == m.backup # "none" /\ m.activated
Restores(m) == m.backup = "moved" \/ (m.backup = "copied" /\ m.activated)
UndoFile(c) ==
  /\ cmd[c].at = "undoing" /\ DOMAIN cmd[c].moved # {}
  /\ LET f == Undone(c)
         m == cmd[c].moved[f]
     IN  /\ disk' = CASE Restores(m) -> [disk EXCEPT ![f] = kept[f]]
                      [] m.backup = "none" /\ m.activated -> [disk EXCEPT ![f] = None]
                      [] OTHER -> disk
         /\ cmd' = [cmd EXCEPT ![c].moved = Without(@, f)]
  /\ UNCHANGED <<kept, stray, inside, failures, mine>>

(* The removal, the restore, both, or the sync after one of them fails:    *)
(* rollback goes on with the other files.                                  *)
UndoFileFails(c) ==
  /\ cmd[c].at = "undoing" /\ DOMAIN cmd[c].moved # {}
  /\ failures < MaxFailures /\ failures' = failures + 1
  /\ LET f == Undone(c)
         m == cmd[c].moved[f]
     IN  /\ m.activated \/ Restores(m)
         /\ \E x \in {disk[f]} \cup (IF m.activated THEN {None} ELSE {})
                              \cup (IF Restores(m) THEN {kept[f]} ELSE {}) :
              disk' = [disk EXCEPT ![f] = x]
         /\ cmd' = [cmd EXCEPT ![c].moved = Without(@, f), ![c].result = "broken"]
  /\ UNCHANGED <<kept, stray, inside, mine>>

(* The command ends, and with it its lock and its backup directory.        *)
Ends(c, result) ==
  /\ cmd' = [cmd EXCEPT ![c] = [Idle EXCEPT !.at = "gone", !.result = result]]
  /\ kept' = NoBackups /\ inside' = None /\ touched' = {}
  /\ UNCHANGED <<stray, source, written, edits>>

UndoEnds(c) ==
  /\ cmd[c].at = "undoing" /\ DOMAIN cmd[c].moved = {}
  /\ Ends(c, cmd[c].result)
  /\ UNCHANGED <<disk, failures>>

Commit(c) ==
  /\ cmd[c].at = "replacing" /\ cmd[c].todo = {}
  /\ ~(cmd[c].op = "uninstall" /\ cmd[c].owned # None)
  /\ Ends(c, "ok")
  /\ UNCHANGED <<disk, failures>>

-----------------------------------------------------------------------------
(* uninstall goes on with what the workflow manifest names, which nothing  *)
(* undoes: it looks again whether the user has changed a workflow.         *)
CommitRemoval(c) ==
  /\ cmd[c].at = "replacing" /\ cmd[c].todo = {}
  /\ cmd[c].op = "uninstall" /\ cmd[c].owned # None
  /\ kept' = NoBackups
  /\ cmd' = [cmd EXCEPT ![c].at = "looking", ![c].moved = Nothing]
  /\ UNCHANGED <<disk, stray, inside, failures, mine>>

(* Wrong on purpose: uninstall does not look again before it removes.      *)
MayRemoveAtOnce(c) == cmd[c].op = "uninstall"
MayRemove(c) == cmd[c].force \/ disk["workflow"] \in {None, cmd[c].owned.workflow}

LookAgain(c) ==
  /\ cmd[c].at = "looking" /\ (cmd[c].owned.workflow # None => MayRemove(c))
  /\ touched' = touched \ {"workflow"}
  /\ cmd' = [cmd EXCEPT ![c].at = "removing"]
  /\ UNCHANGED <<disk, kept, stray, source, inside, failures, written, edits>>

RemoveWorkflow(c) ==
  /\ cmd[c].at = "removing"
  /\ disk' = IF cmd[c].owned.workflow = None THEN disk ELSE [disk EXCEPT !["workflow"] = None]
  /\ cmd' = [cmd EXCEPT ![c].at = "reading"]
  /\ UNCHANGED <<kept, stray, inside, failures, mine>>

(* The settings are read, and written without the hooks that are recorded. *)
ReadSettings(c) ==
  /\ cmd[c].at = "reading"
  /\ touched' = touched \ {"settings"}
  /\ cmd' = [cmd EXCEPT ![c].before["settings"] = disk["settings"],
                        ![c].at = IF cmd[c].owned.hooks /\ disk["settings"] # None
                                  THEN "unhooking" ELSE "unrecording"]
  /\ UNCHANGED <<disk, kept, stray, source, inside, failures, written, edits>>

Unhook(c) ==
  /\ cmd[c].at = "unhooking"
  /\ disk' = [disk EXCEPT !["settings"] = [cmd[c].before["settings"] EXCEPT !.hooks = FALSE]]
  /\ cmd' = [cmd EXCEPT ![c].at = "unrecording"]
  /\ UNCHANGED <<kept, stray, inside, failures, mine>>

Unrecord(c) ==
  /\ cmd[c].at = "unrecording"
  /\ disk' = [disk EXCEPT !["owned"] = None]
  /\ Ends(c, "ok")
  /\ UNCHANGED failures

Stop(c) ==
  /\ cmd[c].at \in {"looking", "removing", "reading", "unhooking", "unrecording"}
  /\ \/ /\ cmd[c].at = "looking" /\ cmd[c].owned.workflow # None /\ ~MayRemove(c)
        /\ UNCHANGED failures
     \/ failures < MaxFailures /\ failures' = failures + 1
  /\ Ends(c, "failed")
  /\ UNCHANGED disk

-----------------------------------------------------------------------------
(* A command dies: its lock is free, its backup directory stays behind.    *)
CommandDies(c) ==
  /\ inside = c
  /\ Cardinality({d \in Commands : cmd[d].at = "dead"}) < MaxCrashes
  /\ stray' = IF kept["settings"] = None THEN stray ELSE stray \cup {kept["settings"].written}
  /\ kept' = NoBackups /\ inside' = None /\ touched' = {}
  /\ cmd' = [cmd EXCEPT ![c] = [Idle EXCEPT !.at = "dead", !.op = cmd[c].op]]
  /\ UNCHANGED <<disk, source, failures, written, edits>>

(* The user, or Claude Code, changes the settings.                         *)
WriteSettings ==
  /\ written + edits < MaxEdits /\ written' = written + 1
  /\ disk' = [disk EXCEPT !["settings"] =
       [written |-> written + 1, hooks |-> disk["settings"] # None /\ disk["settings"].hooks]]
  /\ touched' = IF inside = None THEN {} ELSE touched \cup {"settings"}
  /\ UNCHANGED <<kept, stray, source, inside, cmd, failures, edits>>

Edit(f) ==
  /\ written + edits < MaxEdits /\ edits' = edits + 1
  /\ \E x \in {Mine, None} : disk[f] # x /\ disk' = [disk EXCEPT ![f] = x]
  /\ touched' = IF inside = None THEN {} ELSE touched \cup {f}
  /\ UNCHANGED <<kept, stray, source, inside, cmd, failures, written>>

Step(c) ==
  \/ StageInstall(c) \/ StageEnsure(c) \/ StageUninstall(c)
  \/ StageBackup(c) \/ Activate(c) \/ Fail(c)
  \/ UndoFile(c) \/ UndoFileFails(c) \/ UndoEnds(c) \/ Commit(c)
  \/ CommitRemoval(c) \/ LookAgain(c) \/ RemoveWorkflow(c) \/ ReadSettings(c) \/ Unhook(c)
  \/ Unrecord(c) \/ Stop(c)

InstallNext ==
  \/ \E c \in Commands : Step(c) \/ CommandDies(c)
  \/ WriteSettings
  \/ \E f \in {"package", "workflow"} : Edit(f)

InstallSpec == InstallInit /\ [][InstallNext]_installVars

-----------------------------------------------------------------------------
Broken == \E c \in Commands : cmd[c].result = "broken"
Died == \E c \in Commands : cmd[c].at = "dead" /\ cmd[c].op # "uninstall"

(* A command that reports success has replaced every file of its plan; one *)
(* that was undone has left every file as it was, if no step of the        *)
(* undoing failed.  Targets the user changed meanwhile are excepted.       *)
AllOrNothing ==
  [][\A c \in Commands :
       \A f \in Targets \ touched :
         /\ (Commit(c) \/ CommitRemoval(c)) =>
              disk[f] = IF f \in DOMAIN cmd[c].plan THEN cmd[c].plan[f] ELSE cmd[c].before[f]
         /\ (UndoEnds(c) /\ cmd[c].result = "failed") => disk[f] = cmd[c].before[f]]_installVars

(* Without --force no file of the user is replaced or removed, but one     *)
(* that was changed after the command had last looked: an uninstall looks  *)
(* a second time before it removes workflows.                              *)
KeepsMine ==
  [][\A f \in {"package", "workflow"} :
       (disk[f] = Mine /\ disk'[f] # Mine) =>
         \/ cmd' = cmd
         \/ f \in touched
         \/ \E c \in Commands : inside = c /\ cmd[c].force]_installVars

(* What the user last wrote into the settings is in them, or in a backup,  *)
(* unless a command had read them before it was written, or could not undo *)
(* its steps.                                                              *)
EditsSaved ==
  \/ disk["settings"] # None /\ disk["settings"].written = written
  \/ kept["settings"] # None /\ kept["settings"].written = written
  \/ written \in stray
EditsKept == [][(written > 0 /\ EditsSaved /\ ~EditsSaved') => "settings" \in touched \/ Broken]_installVars

(* After an uninstall nothing of NEOMAX is left, whatever installs, failed *)
(* upgrades and seedings came before it: what is in a profile is recorded. *)
(* A command that died in between, or could not undo its steps, may have   *)
(* left files that nothing records.                                        *)
CleanRemoval ==
  [][\A c \in Commands :
       (cmd[c].op = "uninstall" /\ inside = c /\ cmd'[c].result = "ok" /\ ~Broken /\ ~Died) =>
         /\ \A f \in Targets \ {"settings"} : disk'[f] \in {None, Mine}
         /\ disk'["settings"] # None => ~disk'["settings"].hooks]_installVars
=============================================================================
