----------------------------- MODULE Runs_proofs -----------------------------
(***************************************************************************)
(* One run, and the repairs of runs: the supervisors and commands of       *)
(* RunLifecycle, and then the invocations of SelfHeal.                     *)
(***************************************************************************)
EXTENDS RunLifecycle, SelfHeal, FiniteSetTheorems, TLAPS

(***************************************************************************)
(* RunLifecycle: the types of a run, and that it has one worker at a time, *)
(* that a kill stands, and that a recorded result does.                    *)
(***************************************************************************)

(* The kill that goes on has somebody to signal.                           *)
TypeInv == TypeOK /\ (kill.at # "idle" => kill.pid \in Procs)

-----------------------------------------------------------------------------
(* A record with one field written anew.                                   *)
Status == {"running"} \cup Terminal

LEMMA FieldLemma ==
  ASSUME NEW r \in Record
  PROVE  /\ r.attempt \in Nat \ {0} /\ r.status \in Status /\ r.ack \in {"unset", "no", "yes"}
         /\ r.killed \in BOOLEAN /\ r.ended \in BOOLEAN /\ r.resumed \in BOOLEAN
         /\ \A n \in Nat \ {0} : [r EXCEPT !.attempt = n] \in Record
         /\ \A s \in Status : [r EXCEPT !.status = s] \in Record
         /\ \A b \in BOOLEAN : /\ [r EXCEPT !.killed = b] \in Record
                               /\ [r EXCEPT !.ended = b] \in Record
                               /\ [r EXCEPT !.resumed = b] \in Record
         /\ \A a \in {"unset", "no", "yes"} : [r EXCEPT !.ack = a] \in Record
         /\ \A p \in Procs \cup {None} : /\ [r EXCEPT !.sup = p] \in Record
                                         /\ [r EXCEPT !.worker = p] \in Record
BY DEF Record, Status

(* What a supervisor's copy makes of a record that is not of a later       *)
(* attempt.                                                                *)
LEMMA SavedLemma ==
  ASSUME rec \in Record, NEW own \in Record
  PROVE  /\ Saved(own) \in Record
         /\ rec.attempt <= own.attempt =>
              /\ Saved(own).attempt = own.attempt /\ Saved(own).ended = own.ended
              /\ Saved(own).worker = own.worker
              /\ Saved(own).killed = (own.killed \/ rec.killed)
              /\ Saved(own).status = IF rec.status = "aborted" THEN "aborted" ELSE own.status
<1>1. PICK k \in BOOLEAN : k = (own.killed \/ rec.killed)
  BY FieldLemma
<1>2. PICK s \in Status : s = IF rec.status = "aborted" THEN "aborted" ELSE own.status
  BY FieldLemma
<1> DEFINE saved == [own EXCEPT !.killed = k, !.status = s]
<1>3. Saved(own) = IF rec.attempt > own.attempt THEN rec ELSE saved
  BY <1>1, <1>2 DEF Saved, Record
<1>4. /\ saved \in Record /\ saved.attempt = own.attempt /\ saved.ended = own.ended
      /\ saved.worker = own.worker /\ saved.killed = k /\ saved.status = s
  <2>1. [own EXCEPT !.killed = k] \in Record
    BY FieldLemma
  <2>2. saved \in Record
    BY <2>1, FieldLemma
  <2> QED
    BY <2>2 DEF Record
<1> HIDE DEF saved
<1>5. rec.attempt \in Nat /\ own.attempt \in Nat
  BY FieldLemma
<1> QED
  BY <1>1, <1>2, <1>3, <1>4, <1>5

(* A supervisor's copy after a look at a record that says that the run is  *)
(* to end.                                                                 *)
LEMMA MarkedLemma ==
  ASSUME rec \in Record, NEW own \in Record
  PROVE  /\ Marked(own) \in Record /\ Marked(own).attempt = own.attempt
         /\ Marked(own).killed = (own.killed \/ rec.killed)
<1>1. PICK k \in BOOLEAN : k = (own.killed \/ rec.killed)
  BY FieldLemma
<1> DEFINE marked == [own EXCEPT !.killed = k]
<1>2. /\ marked \in Record /\ marked.attempt = own.attempt /\ marked.killed = k
      /\ marked.ended = own.ended /\ marked.ack = own.ack
  BY FieldLemma DEF Record
<1>3. PICK e \in BOOLEAN : e = (own.ended \/ rec.ended)
  BY FieldLemma
<1>4. PICK a \in {"unset", "no", "yes"} : a = IF rec.ack = "unset" THEN own.ack ELSE rec.ack
  BY FieldLemma
<1> DEFINE ended == [marked EXCEPT !.status = "aborted", !.ended = e, !.ack = a]
<1>5. Marked(own) = IF rec.status # "aborted" THEN marked ELSE ended
  <2>1. rec.status = "aborted" => Marked(own) = ended
    BY <1>1, <1>2, <1>3, <1>4 DEF Marked, Record
  <2> QED
    BY <1>1, <2>1 DEF Marked
<1>6. ended \in Record /\ ended.attempt = marked.attempt /\ ended.killed = marked.killed
  <2> HIDE DEF marked
  <2>1. "aborted" \in Status
    BY DEF Status, Terminal
  <2>2. [marked EXCEPT !.status = "aborted"] \in Record
    BY <1>2, <2>1, FieldLemma
  <2>3. [[marked EXCEPT !.status = "aborted"] EXCEPT !.ended = e] \in Record
    BY <2>2, FieldLemma
  <2>4. [[[marked EXCEPT !.status = "aborted"] EXCEPT !.ended = e] EXCEPT !.ack = a] \in Record
    BY <2>3, FieldLemma
  <2>5. ended = [[[marked EXCEPT !.status = "aborted"] EXCEPT !.ended = e] EXCEPT !.ack = a]
    BY <1>2 DEF Record
  <2> QED
    BY <1>2, <2>4, <2>5 DEF Record
<1> HIDE DEF marked, ended
<1> QED
  BY <1>1, <1>2, <1>5, <1>6

(* What the end of a run makes of the record.                              *)
LEMMA FinalLemma ==
  ASSUME rec \in Record, NEW own \in Record, NEW status \in Status
  PROVE  /\ Final(own, status) \in Record /\ Final(own, status).attempt = own.attempt
         /\ Final(own, status).killed = (own.killed \/ rec.killed)
         /\ Final(own, status).status = IF rec.status = "aborted" THEN "aborted" ELSE status
         /\ Final(own, status).worker = own.worker
<1>1. PICK k \in BOOLEAN : k = (own.killed \/ rec.killed)
  BY FieldLemma
<1> DEFINE mine == [own EXCEPT !.status = status, !.ended = TRUE, !.ack = "no", !.killed = k]
<1>2. /\ mine \in Record /\ mine.attempt = own.attempt /\ mine.killed = k
      /\ mine.status = status /\ mine.ack = "no" /\ mine.worker = own.worker
  <2>1. [own EXCEPT !.status = status] \in Record
    BY FieldLemma
  <2>2. [[own EXCEPT !.status = status] EXCEPT !.ended = TRUE] \in Record
    BY <2>1, FieldLemma
  <2>3. [[[own EXCEPT !.status = status] EXCEPT !.ended = TRUE] EXCEPT !.ack = "no"] \in Record
    BY <2>2, FieldLemma
  <2>4. mine \in Record
    BY <2>3, FieldLemma
  <2> QED
    BY <2>4 DEF Record
<1>3. PICK a \in {"unset", "no", "yes"} : a = IF rec.ack = "unset" THEN "no" ELSE rec.ack
  BY FieldLemma
<1> DEFINE aborted == [mine EXCEPT !.status = "aborted", !.ack = a]
<1>4. Final(own, status) = IF rec.status = "aborted" /\ status # "aborted" THEN aborted ELSE mine
  <2>1. rec.status = "aborted" /\ status # "aborted" => Final(own, status) = aborted
    BY <1>1, <1>2, <1>3 DEF Final, Record
  <2> QED
    BY <1>1, <2>1 DEF Final, Record
<1>5. /\ aborted \in Record /\ aborted.attempt = mine.attempt /\ aborted.killed = mine.killed
      /\ aborted.status = "aborted" /\ aborted.worker = mine.worker
  <2> HIDE DEF mine
  <2>1. "aborted" \in Status
    BY DEF Status, Terminal
  <2>2. [mine EXCEPT !.status = "aborted"] \in Record
    BY <1>2, <2>1, FieldLemma
  <2>3. aborted \in Record
    BY <2>2, FieldLemma
  <2> QED
    BY <1>2, <2>3 DEF Record
<1> HIDE DEF mine, aborted
<1> QED
  BY <1>1, <1>2, <1>4, <1>5

(* What a supervisor that gives up makes of the record.                    *)
LEMMA FailedLemma ==
  ASSUME NEW own \in Record, NEW p \in Procs
  PROVE  /\ Failed(own, p) \in Record /\ Failed(own, p).attempt = own.attempt
         /\ Failed(own, p).killed = own.killed
         /\ Failed(own, p).status = IF p = Launcher /\ Interrupted(own) THEN "aborted" ELSE "error"
         /\ Failed(own, p).worker \in {own.worker, None}
<1>1. {"error", "aborted"} \subseteq Status
  BY DEF Status, Terminal
<1>2. CASE p # Launcher
  <2>1. [own EXCEPT !.status = "error"] \in Record
    BY <1>1, FieldLemma
  <2>2. [[own EXCEPT !.status = "error"] EXCEPT !.ended = TRUE] \in Record
    BY <2>1, FieldLemma
  <2>3. [[[[own EXCEPT !.status = "error"] EXCEPT !.ended = TRUE] EXCEPT !.worker = None]
           EXCEPT !.sup = None] \in Record
    <3>1. [[[own EXCEPT !.status = "error"] EXCEPT !.ended = TRUE] EXCEPT !.worker = None] \in Record
      BY <2>2, FieldLemma
    <3> QED
      BY <3>1, FieldLemma
  <2>4. Failed(own, p) = [[[[own EXCEPT !.status = "error"] EXCEPT !.ended = TRUE]
                             EXCEPT !.worker = None] EXCEPT !.sup = None]
    BY <1>2 DEF Failed
  <2> QED
    BY <1>2, <2>3, <2>4 DEF Record
<1>3. CASE p = Launcher /\ Interrupted(own)
  <2>1. PICK e \in BOOLEAN : e = (own.ended \/ own.status # "aborted")
    BY FieldLemma
  <2>2. [own EXCEPT !.status = "aborted"] \in Record
    BY <1>1, FieldLemma
  <2>3. Failed(own, p) = [[own EXCEPT !.status = "aborted"] EXCEPT !.ended = e]
    BY <1>3, <2>1 DEF Failed, Record
  <2>4. Failed(own, p) \in Record
    BY <2>2, <2>3, FieldLemma
  <2> QED
    BY <1>3, <2>3, <2>4 DEF Record
<1>4. CASE p = Launcher /\ ~Interrupted(own)
  <2>1. [own EXCEPT !.status = "error"] \in Record
    BY <1>1, FieldLemma
  <2>2. [[own EXCEPT !.status = "error"] EXCEPT !.ended = TRUE] \in Record
    BY <2>1, FieldLemma
  <2>3. [[[own EXCEPT !.status = "error"] EXCEPT !.ended = TRUE] EXCEPT !.worker = None] \in Record
    BY <2>2, FieldLemma
  <2>4. Failed(own, p) = [[[own EXCEPT !.status = "error"] EXCEPT !.ended = TRUE]
                            EXCEPT !.worker = None]
    BY <1>4 DEF Failed
  <2> QED
    BY <1>4, <2>3, <2>4 DEF Record
<1> QED
  BY <1>2, <1>3, <1>4

(* What a supervisor may be.                                               *)
Supervisor == [at : Stages, run : Record, status : Status, signal : BOOLEAN]

(* A step of one supervisor: it has the worker or has none any more, and a *)
(* worker that was there still belongs to it.                              *)
Typed(p) ==
  /\ sup[p].at \in Stages /\ sup'[p] \in Supervisor /\ \A q \in Procs \ {p} : sup'[q] = sup[q]
  /\ sup' \in [Procs -> Supervisor]
  /\ worker' \in {worker, worker \cup {p}, worker \ {p}}
  /\ p \in worker' => sup'[p].at \in {"spawned", "running", "dead"}

(* It ends up at the stage at, with the copy run and the result status.    *)
Sets(p, at, own, status) ==
  Typed(p) /\ sup'[p].at = at /\ sup'[p].run = own /\ sup'[p].status = status

LEMMA SetsLemma ==
  ASSUME TypeInv, NEW p \in Procs, NEW s \in Supervisor, sup' = [sup EXCEPT ![p] = s],
         worker' \in {worker, worker \cup {p}, worker \ {p}},
         p \in worker' => s.at \in {"spawned", "running", "dead"}
  PROVE  Sets(p, s.at, s.run, s.status)
<1>1. sup'[p] = s /\ sup[p].at \in Stages
  BY DEF TypeInv, TypeOK
<1>2. sup' \in [Procs -> Supervisor] /\ \A q \in Procs \ {p} : sup'[q] = sup[q]
  BY DEF TypeInv, TypeOK, Supervisor, Status
<1> QED
  BY <1>1, <1>2 DEF Sets, Typed

(* The supervisors in TypeInv.                                             *)
LEMMA SupLemma ==
  ASSUME TypeInv
  PROVE  /\ sup \in [Procs -> Supervisor]
         /\ \A p \in Procs : /\ sup[p] \in Supervisor /\ sup[p].at \in Stages
                             /\ sup[p].run \in Record /\ sup[p].status \in Status
                             /\ sup[p].signal \in BOOLEAN
         /\ worker \subseteq Procs /\ (rec # Gone => rec \in Record)
         /\ \A p \in worker : sup[p].at \in {"spawned", "running", "dead"}
BY DEF TypeInv, TypeOK, Supervisor, Status

LEMMA GoSets ==
  ASSUME TypeInv, NEW p \in Procs, NEW at \in Stages, Go(p, at), worker' = worker,
         p \in worker => at \in {"spawned", "running", "dead"}
  PROVE  Sets(p, at, sup[p].run, sup[p].status)
<1> DEFINE s == [sup[p] EXCEPT !.at = at]
<1>1. s \in Supervisor /\ s.at = at /\ s.run = sup[p].run /\ s.status = sup[p].status
  BY SupLemma DEF Supervisor
<1>2. sup' = [sup EXCEPT ![p] = s]
  BY DEF Go
<1> HIDE DEF s
<1>3. Sets(p, s.at, s.run, s.status)
  BY <1>1, <1>2, SetsLemma
<1> QED
  BY <1>1, <1>3

LEMMA KeepSets ==
  ASSUME TypeInv, NEW p \in Procs, NEW at \in Stages, NEW own \in Record, Keep(p, at, own),
         worker' = worker, p \in worker => at \in {"spawned", "running", "dead"}
  PROVE  Sets(p, at, own, sup[p].status)
<1> DEFINE s == [sup[p] EXCEPT !.at = at, !.run = own]
<1>1. s \in Supervisor /\ s.at = at /\ s.run = own /\ s.status = sup[p].status
  BY SupLemma DEF Supervisor
<1>2. sup' = [sup EXCEPT ![p] = s]
  BY DEF Keep
<1> HIDE DEF s
<1>3. Sets(p, s.at, s.run, s.status)
  BY <1>1, <1>2, SetsLemma
<1> QED
  BY <1>1, <1>3

(* A look at the record.                                                   *)
LEMMA ChecksEffect ==
  ASSUME TypeInv, NEW p \in Procs, NEW next \in Stages, Checks(p, next), p \notin worker
  PROVE  /\ rec \in Record /\ rec' = rec /\ worker' = worker
         /\ \/ Interrupted(rec) /\ Sets(p, "closing", Marked(sup[p].run), "aborted")
            \/ ~Interrupted(rec) /\ Sets(p, next, sup[p].run, sup[p].status)
<1>1. rec \in Record /\ rec' = rec /\ worker' = worker
  BY SupLemma DEF Checks
<1>2. CASE Interrupted(rec) /\ sup' = [sup EXCEPT ![p].at = "closing", ![p].run = Marked(@),
                                                  ![p].status = "aborted"]
  <2>1. PICK own \in Record : own = Marked(sup[p].run)
    BY <1>1, MarkedLemma, SupLemma
  <2> DEFINE s == [sup[p] EXCEPT !.at = "closing", !.run = own, !.status = "aborted"]
  <2>2. "closing" \in Stages /\ "aborted" \in Status
    BY DEF Stages, Status, Terminal
  <2>3. s \in Supervisor /\ s.at = "closing" /\ s.run = own /\ s.status = "aborted"
    BY <2>2, SupLemma DEF Supervisor
  <2>4. sup' = [sup EXCEPT ![p] = s]
    BY <1>2, <2>1, SupLemma DEF Supervisor
  <2> HIDE DEF s
  <2>5. Sets(p, s.at, s.run, s.status)
    BY <1>1, <2>3, <2>4, SetsLemma
  <2> QED
    BY <1>1, <1>2, <2>1, <2>3, <2>5
<1>3. CASE ~Interrupted(rec) /\ Go(p, next)
  BY <1>1, <1>3, GoSets
<1> QED
  BY <1>1, <1>2, <1>3 DEF Checks

(* The end of an attempt.                                                  *)
LEMMA EndEffect ==
  ASSUME TypeInv, NEW p \in Procs, NEW status \in Status, EndAttempt(p, status)
  PROVE  /\ rec' = rec /\ worker' = worker \ {p}
         /\ \E own \in Record : /\ Sets(p, "ended", own, status)
                                /\ own.attempt = sup[p].run.attempt
                                /\ own.killed = sup[p].run.killed
                                /\ own.ended = sup[p].run.ended
<1>1. PICK own \in Record : own = [sup[p].run EXCEPT !.status = status]
  BY SupLemma, FieldLemma
<1>2. /\ own.attempt = sup[p].run.attempt /\ own.killed = sup[p].run.killed
      /\ own.ended = sup[p].run.ended
  BY <1>1, SupLemma DEF Record
<1> DEFINE s == [sup[p] EXCEPT !.at = "ended", !.run = own, !.status = status]
<1>3. "ended" \in Stages /\ p \notin worker' /\ worker' = worker \ {p} /\ rec' = rec
  BY DEF Stages, EndAttempt
<1>4. s \in Supervisor /\ s.at = "ended" /\ s.run = own /\ s.status = status
  BY <1>3, SupLemma DEF Supervisor
<1>5. sup' = [sup EXCEPT ![p] = s]
  BY <1>1, SupLemma DEF EndAttempt, Supervisor
<1> HIDE DEF s
<1>6. Sets(p, s.at, s.run, s.status)
  BY <1>3, <1>4, <1>5, SetsLemma
<1> QED
  BY <1>2, <1>3, <1>4, <1>6

(* mark_attempt_started.                                                   *)
LEMMA StartEffect ==
  ASSUME TypeInv, NEW p \in Procs, Start(p)
  PROVE  /\ rec \in Record /\ rec' \in Record /\ worker' = worker
         /\ Sets(p, "started", rec', sup[p].status)
         /\ \E r \in Record : /\ rec' = Saved(r) /\ r.status = "running" /\ ~r.ended
                              /\ r.attempt = sup[p].run.attempt
                              /\ r.killed = sup[p].run.killed /\ r.worker = None
<1>1. rec \in Record /\ worker' = worker /\ p \notin worker /\ "started" \in Stages
  BY SupLemma DEF Start, Stages
<1>2. PICK r : r = [[[[sup[p].run EXCEPT !.status = "running"] EXCEPT !.sup = p]
                       EXCEPT !.worker = None] EXCEPT !.ended = FALSE]
  OBVIOUS
<1>3. r \in Record
  <2>1. [sup[p].run EXCEPT !.status = "running"] \in Record
    BY SupLemma, FieldLemma DEF Status
  <2>2. [[sup[p].run EXCEPT !.status = "running"] EXCEPT !.sup = p] \in Record
    BY <2>1, FieldLemma
  <2>3. [[[sup[p].run EXCEPT !.status = "running"] EXCEPT !.sup = p] EXCEPT !.worker = None]
           \in Record
    BY <2>2, FieldLemma
  <2> QED
    BY <1>2, <2>3, FieldLemma
<1>4. /\ r.status = "running" /\ ~r.ended /\ r.attempt = sup[p].run.attempt
      /\ r.killed = sup[p].run.killed /\ r.worker = None
  BY <1>2, <1>3, SupLemma DEF Record
<1>5. rec' = Saved(r)
  BY <1>2 DEF Start
<1>6. rec' \in Record
  BY <1>1, <1>3, <1>5, SavedLemma
<1>7. Sets(p, "started", rec', sup[p].status)
  BY <1>1, <1>6, KeepSets DEF Start
<1> QED
  BY <1>1, <1>3, <1>4, <1>5, <1>6, <1>7

(* run_monitored, before and after the record knows of the worker.         *)
LEMMA SpawnEffect ==
  ASSUME TypeInv, NEW p \in Procs, Spawn(p)
  PROVE  /\ rec' = rec /\ worker' = worker \cup {p}
         /\ \E own \in Record : /\ Sets(p, "spawned", own, sup[p].status)
                                /\ own.attempt = sup[p].run.attempt
                                /\ own.status = sup[p].run.status
                                /\ own.killed = sup[p].run.killed
                                /\ own.ended = sup[p].run.ended /\ own.worker = p
<1>1. PICK own \in Record : own = [sup[p].run EXCEPT !.worker = p]
  BY SupLemma, FieldLemma
<1>2. /\ own.attempt = sup[p].run.attempt /\ own.killed = sup[p].run.killed
      /\ own.status = sup[p].run.status /\ own.ended = sup[p].run.ended /\ own.worker = p
  BY <1>1, SupLemma DEF Record
<1> DEFINE s == [sup[p] EXCEPT !.at = "spawned", !.run = own, !.signal = FALSE]
<1>3. "spawned" \in Stages /\ worker' = worker \cup {p} /\ rec' = rec
  BY DEF Stages, Spawn
<1>4. s \in Supervisor /\ s.at = "spawned" /\ s.run = own /\ s.status = sup[p].status
  BY <1>3, SupLemma DEF Supervisor
<1>5. sup' = [sup EXCEPT ![p] = s]
  BY <1>1, SupLemma DEF Spawn, Supervisor
<1> HIDE DEF s
<1>6. Sets(p, s.at, s.run, s.status)
  BY <1>3, <1>4, <1>5, SetsLemma
<1> QED
  BY <1>2, <1>3, <1>4, <1>6

LEMMA RecordSpawnEffect ==
  ASSUME TypeInv, NEW p \in Procs, RecordSpawn(p)
  PROVE  /\ rec \in Record /\ rec' \in Record /\ rec' = Saved(sup[p].run) /\ worker' = worker
         /\ Sets(p, "running", sup[p].run, sup[p].status)
<1>1. rec \in Record /\ worker' = worker /\ "running" \in Stages /\ rec' = Saved(sup[p].run)
  BY SupLemma DEF RecordSpawn, Stages
<1> QED
  BY <1>1, SavedLemma, SupLemma, GoSets DEF RecordSpawn

(* The end of an attempt is saved.                                         *)
LEMMA SaveEndEffect ==
  ASSUME TypeInv, NEW p \in Procs, SaveEnd(p)
  PROVE  /\ rec \in Record /\ rec' \in Record /\ rec' = Saved(sup[p].run) /\ worker' = worker
         /\ \/ /\ rec'.attempt > sup[p].run.attempt
               /\ Sets(p, IF p = Launcher THEN "left" ELSE "reporting", rec', rec'.status)
            \/ /\ ~(rec'.attempt > sup[p].run.attempt)
               /\ Sets(p, "checked", rec', sup[p].status)
<1>1. /\ rec \in Record /\ worker' = worker /\ p \notin worker /\ rec' = Saved(sup[p].run)
      /\ {"left", "reporting", "checked"} \subseteq Stages
  BY SupLemma DEF SaveEnd, Stages
<1>2. PICK r \in Record : r = rec'
  BY <1>1, SavedLemma, SupLemma
<1>3. CASE r.attempt > sup[p].run.attempt
  <2> DEFINE at == IF p = Launcher THEN "left" ELSE "reporting"
             s == [sup[p] EXCEPT !.at = at, !.run = r, !.status = r.status]
  <2>1. at \in Stages /\ r.status \in Status
    BY <1>1, FieldLemma
  <2>2. sup' = [sup EXCEPT ![p] = s]
    BY <1>2, <1>3 DEF SaveEnd
  <2> HIDE DEF at
  <2>3. s \in Supervisor /\ s.at = at /\ s.run = r /\ s.status = r.status
    BY <2>1, SupLemma DEF Supervisor
  <2> HIDE DEF s
  <2>4. Sets(p, s.at, s.run, s.status)
    BY <1>1, <2>2, <2>3, SetsLemma
  <2> QED
    BY <1>1, <1>2, <1>3, <2>3, <2>4 DEF at
<1>4. CASE ~(r.attempt > sup[p].run.attempt)
  <2>1. Keep(p, "checked", r)
    BY <1>2, <1>4 DEF SaveEnd
  <2> QED
    BY <1>1, <1>2, <1>4, <2>1, KeepSets
<1> QED
  BY <1>3, <1>4

(* apply_failover.                                                         *)
LEMMA MoveEffect ==
  ASSUME TypeInv, NEW p \in Procs, Move(p)
  PROVE  /\ rec \in Record /\ rec' \in Record /\ worker' = worker
         /\ Sets(p, "top", rec', sup[p].status)
         /\ \E r \in Record : /\ rec' = Saved(r) /\ r.status = "running" /\ ~r.ended
                              /\ r.attempt = sup[p].run.attempt + 1
                              /\ r.killed = sup[p].run.killed /\ r.worker = None
<1>1. rec \in Record /\ worker' = worker /\ p \notin worker /\ "top" \in Stages
  BY SupLemma DEF Move, Stages
<1>2. PICK r : r = [[[[sup[p].run EXCEPT !.attempt = sup[p].run.attempt + 1]
                       EXCEPT !.status = "running"] EXCEPT !.ended = FALSE] EXCEPT !.worker = None]
  OBVIOUS
<1>3. r \in Record
  <2>1. sup[p].run.attempt + 1 \in Nat \ {0}
    <3>1. sup[p].run.attempt \in Nat \ {0}
      BY SupLemma, FieldLemma
    <3> QED
      BY <3>1
  <2>2. [sup[p].run EXCEPT !.attempt = sup[p].run.attempt + 1] \in Record
    BY <2>1, SupLemma, FieldLemma
  <2>3. [[sup[p].run EXCEPT !.attempt = sup[p].run.attempt + 1] EXCEPT !.status = "running"]
           \in Record
    BY <2>2, FieldLemma DEF Status
  <2>4. [[[sup[p].run EXCEPT !.attempt = sup[p].run.attempt + 1] EXCEPT !.status = "running"]
           EXCEPT !.ended = FALSE] \in Record
    BY <2>3, FieldLemma
  <2> QED
    BY <1>2, <2>4, FieldLemma
<1>4. /\ r.status = "running" /\ ~r.ended /\ r.attempt = sup[p].run.attempt + 1
      /\ r.killed = sup[p].run.killed /\ r.worker = None
  BY <1>2, <1>3, SupLemma DEF Record
<1>5. rec' = Saved(r)
  BY <1>2 DEF Move
<1>6. rec' \in Record
  BY <1>1, <1>3, <1>5, SavedLemma
<1>7. Sets(p, "top", rec', sup[p].status)
  BY <1>1, <1>6, KeepSets DEF Move
<1> QED
  BY <1>1, <1>3, <1>4, <1>5, <1>6, <1>7

(* RunFinalizer::finish.                                                   *)
LEMMA FinishEffect ==
  ASSUME TypeInv, NEW p \in Procs, Finish(p)
  PROVE  /\ rec \in Record /\ rec' \in Record /\ rec' = Final(sup[p].run, sup[p].status)
         /\ worker' = worker
         /\ Sets(p, IF p = Launcher THEN "left" ELSE "reporting", rec', rec'.status)
<1>1. /\ rec \in Record /\ worker' = worker /\ p \notin worker
      /\ rec' = Final(sup[p].run, sup[p].status) /\ {"left", "reporting"} \subseteq Stages
  BY SupLemma DEF Finish, Stages
<1>2. PICK r \in Record : r = rec'
  BY <1>1, FinalLemma, SupLemma
<1> DEFINE at == IF p = Launcher THEN "left" ELSE "reporting"
           s == [sup[p] EXCEPT !.at = at, !.run = r, !.status = r.status]
<1>3. at \in Stages /\ r.status \in Status
  BY <1>1, FieldLemma
<1>4. sup' = [sup EXCEPT ![p] = s]
  BY <1>2 DEF Finish
<1> HIDE DEF at
<1>5. s \in Supervisor /\ s.at = at /\ s.run = r /\ s.status = r.status
  BY <1>3, SupLemma DEF Supervisor
<1> HIDE DEF s
<1>6. Sets(p, s.at, s.run, s.status)
  BY <1>1, <1>4, <1>5, SetsLemma
<1> QED
  BY <1>1, <1>2, <1>5, <1>6 DEF at

(* The end of resume and retry.                                            *)
LEMMA ReportEffect ==
  ASSUME TypeInv, NEW p \in Procs, Report(p)
  PROVE  /\ rec \in Record /\ rec' \in Record /\ worker' = worker
         /\ Sets(p, "left", sup[p].run, sup[p].status)
         /\ \E r \in Record : /\ rec' = Saved(r) /\ r.status = sup[p].status
                              /\ r.attempt = sup[p].run.attempt
                              /\ r.killed = sup[p].run.killed
<1>1. rec \in Record /\ worker' = worker /\ p \notin worker /\ "left" \in Stages
  BY SupLemma DEF Report, Stages
<1>2. PICK r : r = [[[[sup[p].run EXCEPT !.status = sup[p].status] EXCEPT !.ended = TRUE]
                       EXCEPT !.worker = None] EXCEPT !.sup = None]
  OBVIOUS
<1>3. r \in Record
  <2>1. [sup[p].run EXCEPT !.status = sup[p].status] \in Record
    BY SupLemma, FieldLemma
  <2>2. [[sup[p].run EXCEPT !.status = sup[p].status] EXCEPT !.ended = TRUE] \in Record
    BY <2>1, FieldLemma
  <2>3. [[[sup[p].run EXCEPT !.status = sup[p].status] EXCEPT !.ended = TRUE]
           EXCEPT !.worker = None] \in Record
    BY <2>2, FieldLemma
  <2> QED
    BY <1>2, <2>3, FieldLemma
<1>4. /\ r.status = sup[p].status /\ r.attempt = sup[p].run.attempt
      /\ r.killed = sup[p].run.killed
  BY <1>2, <1>3, SupLemma DEF Record
<1>5. rec' = Saved(r)
  BY <1>2 DEF Report
<1>6. rec' \in Record
  BY <1>1, <1>3, <1>5, SavedLemma
<1>7. Sets(p, "left", sup[p].run, sup[p].status)
  BY <1>1, GoSets DEF Report
<1> QED
  BY <1>1, <1>3, <1>4, <1>5, <1>6, <1>7

(* A supervisor that cannot go on, and what is written of that.            *)
LEMMA StoreFailsEffect ==
  ASSUME TypeInv, NEW p \in Procs, StoreFails(p)
  PROVE  /\ rec' = rec /\ worker' = worker /\ p \notin worker
         /\ Sets(p, "failed", sup[p].run, sup[p].status)
<1>1. rec' = rec /\ worker' = worker /\ p \notin worker /\ "failed" \in Stages
  BY SupLemma DEF StoreFails, Stages
<1> QED
  BY <1>1, GoSets DEF StoreFails

LEMMA GiveUpEffect ==
  ASSUME TypeInv, NEW p \in Procs, GiveUp(p)
  PROVE  /\ worker' = worker /\ p \notin worker
         /\ Sets(p, "left", sup[p].run, sup[p].status)
         /\ \/ rec \in Record /\ rec' \in Record /\ rec' = Failed(rec, p)
            \/ rec' = rec
<1>1. worker' = worker /\ p \notin worker /\ "left" \in Stages
  BY SupLemma DEF GiveUp, Stages
<1>2. \/ rec \in Record /\ rec' \in Record /\ rec' = Failed(rec, p)
      \/ rec' = rec
  BY SupLemma, FailedLemma DEF GiveUp
<1> QED
  BY <1>1, <1>2, GoSets DEF GiveUp

(* The end of an attempt, whatever ended it: its supervisor had begun to   *)
(* start the worker.                                                       *)
LEMMA AttemptEnds ==
  ASSUME TypeInv, NEW p \in Procs, CannotStart(p) \/ Watch(p) \/ Expire(p)
  PROVE  /\ sup[p].at \in {"launching", "spawned", "running"}
         /\ rec' = rec /\ worker' = worker \ {p}
         /\ \E own \in Record, status \in Terminal :
              /\ Sets(p, "ended", own, status)
              /\ own.attempt = sup[p].run.attempt /\ own.killed = sup[p].run.killed
              /\ own.ended = sup[p].run.ended
<1>1. sup[p].at \in {"launching", "spawned", "running"}
  BY DEF CannotStart, Watch, Expire
<1>2. PICK status \in Terminal : EndAttempt(p, status)
  BY DEF CannotStart, Watch, Expire, Terminal
<1>3. status \in Status
  BY DEF Status
<1> QED
  BY <1>1, <1>2, <1>3, EndEffect

-----------------------------------------------------------------------------
(* Who has anything to do with the run has it alone: a supervisor that     *)
(* lives is the only one, and while it lives nothing is removed or         *)
(* acknowledged and its copy is of the attempt that the record is of.      *)
OrderInv ==
  /\ \A p, q \in Procs : Alive(p) /\ Alive(q) => p = q
  /\ \A p \in Procs : Alive(p) =>
       janitor = "idle" /\ rec # Gone /\ sup[p].run.attempt = rec.attempt

LEMMA AliveLemma ==
  ASSUME NEW p \in Procs
  PROVE  /\ Alive(p) <=> sup[p].at \notin {"unused", "left", "dead"}
         /\ Alive(p)' <=> sup'[p].at \notin {"unused", "left", "dead"}
BY RunAssumption DEF Alive

(* A step of a supervisor.                                                 *)
Steps(p) == Supervise(p) \/ StoreFails(p) \/ Expire(p)

LEMMA Supervised ==
  ASSUME TypeInv, NEW p \in Procs, Steps(p)
  PROVE  /\ Typed(p) /\ Alive(p) /\ UNCHANGED <<kill, janitor, crashed>>
         /\ rec' \in Record \cup {Gone}
         /\ OrderInv => /\ rec \in Record /\ rec' \in Record /\ rec'.attempt >= rec.attempt
                        /\ Alive(p)' => sup'[p].run.attempt = rec'.attempt
<1>1. UNCHANGED <<kill, janitor, crashed>>
  BY DEF Steps, Supervise, Top, Start, Started, Spawn, CannotStart, RecordSpawn, Watch, Expire,
         SaveEnd, Checked, Plan, Continue, Move, Finish, Report, GiveUp, StoreFails, Checks,
         EndAttempt, Others
<1>2. Alive(p)
  BY AliveLemma DEF Steps, Supervise, Top, Start, Started, Spawn, CannotStart, RecordSpawn, Watch,
         Expire, SaveEnd, Checked, Plan, Continue, Move, Finish, Report, GiveUp, StoreFails
<1>3. /\ rec \in Record \cup {Gone} /\ sup[p].run \in Record /\ sup[p].status \in Status
      /\ sup[p].run.attempt \in Nat
  BY SupLemma, FieldLemma
<1>4. OrderInv => rec \in Record /\ sup[p].run.attempt = rec.attempt /\ rec.attempt \in Nat
  BY <1>2, <1>3 DEF OrderInv
<1> DEFINE Goal == /\ Typed(p) /\ rec' \in Record \cup {Gone}
                   /\ OrderInv => /\ rec' \in Record /\ rec'.attempt >= rec.attempt
                                  /\ Alive(p)' => sup'[p].run.attempt = rec'.attempt
<1> SUFFICES Goal
  BY <1>1, <1>2, <1>4
<1>5. ASSUME NEW next \in Stages, Checks(p, next), p \notin worker PROVE Goal
  BY <1>3, <1>4, <1>5, ChecksEffect, MarkedLemma DEF Sets
<1>6. CASE Top(p) \/ Started(p) \/ Checked(p) \/ Plan(p)
  <2>1. p \notin worker
    BY <1>6, SupLemma DEF Top, Started, Checked, Plan
  <2>2. PICK next \in Stages : Checks(p, next)
    BY <1>6 DEF Top, Started, Checked, Plan, Stages
  <2> QED
    BY <1>5, <2>1, <2>2
<1>7. CASE Continue(p)
  <2>1. p \notin worker /\ {"moving", "closing"} \subseteq Stages
    BY <1>7, SupLemma DEF Continue, Stages
  <2>2. CASE Go(p, "closing") /\ UNCHANGED <<rec, worker>>
    BY <1>3, <1>4, <2>1, <2>2, GoSets DEF Sets
  <2> QED
    BY <1>5, <1>7, <2>1, <2>2 DEF Continue
<1>8. CASE Start(p)
  BY <1>3, <1>4, <1>8, StartEffect, SavedLemma DEF Sets
<1>9. CASE Spawn(p)
  BY <1>3, <1>4, <1>9, SpawnEffect DEF Sets
<1>10. CASE RecordSpawn(p)
  BY <1>3, <1>4, <1>10, RecordSpawnEffect, SavedLemma DEF Sets
<1>11. CASE CannotStart(p) \/ Watch(p) \/ Expire(p)
  BY <1>3, <1>4, <1>11, AttemptEnds DEF Sets
<1>12. CASE SaveEnd(p)
  BY <1>3, <1>4, <1>12, SaveEndEffect, SavedLemma DEF Sets
<1>13. CASE Move(p)
  <2>1. PICK r \in Record : rec' = Saved(r) /\ r.attempt = sup[p].run.attempt + 1
    BY <1>13, MoveEffect
  <2> QED
    BY <1>3, <1>4, <1>13, <2>1, MoveEffect, SavedLemma DEF Sets
<1>14. CASE Finish(p)
  BY <1>3, <1>4, <1>14, FinishEffect, FinalLemma DEF Sets
<1>15. CASE Report(p)
  <2>1. PICK r \in Record : rec' = Saved(r) /\ r.attempt = sup[p].run.attempt
    BY <1>15, ReportEffect
  <2> QED
    BY <1>3, <1>4, <1>15, <2>1, ReportEffect, SavedLemma, AliveLemma DEF Sets
<1>16. CASE GiveUp(p) \/ StoreFails(p)
  BY <1>3, <1>4, <1>16, GiveUpEffect, StoreFailsEffect, FailedLemma, AliveLemma DEF Sets
<1> HIDE DEF Goal
<1> QED
  BY <1>6, <1>7, <1>8, <1>9, <1>10, <1>11, <1>12, <1>13, <1>14, <1>15, <1>16 DEF Steps, Supervise

(* What the commands make of the record.                                   *)
Same(r, q) ==
  r.attempt = q.attempt /\ r.status = q.status /\ r.killed = q.killed /\ r.ended = q.ended

LEMMA RerunEffect ==
  ASSUME TypeInv, NEW p \in Procs, Rerun(p)
  PROVE  /\ rec \in Record /\ rec' \in Record /\ p \notin worker
         /\ UNCHANGED <<worker, kill, janitor, crashed>>
         /\ Sets(p, "top", rec', sup[p].status)
         /\ rec'.attempt = rec.attempt + 1 /\ rec'.status = "running" /\ ~rec'.ended
         /\ ~rec'.killed /\ rec'.worker = None
<1>1. /\ rec \in Record /\ p \notin worker /\ UNCHANGED <<worker, kill, janitor, crashed>>
      /\ "top" \in Stages /\ rec.attempt + 1 \in Nat \ {0}
  <2>1. rec \in Record /\ rec.attempt \in Nat \ {0}
    BY SupLemma, FieldLemma DEF Rerun
  <2> QED
    BY <2>1, SupLemma DEF Rerun, Stages
<1>2. PICK native \in BOOLEAN :
        rec' = [[[[[[[[rec EXCEPT !.attempt = rec.attempt + 1] EXCEPT !.status = "running"]
                  EXCEPT !.ended = FALSE] EXCEPT !.killed = FALSE] EXCEPT !.ack = "no"]
                  EXCEPT !.sup = p] EXCEPT !.worker = None] EXCEPT !.resumed = native]
  BY DEF Rerun
<1>3. rec' \in Record
  <2>1. [rec EXCEPT !.attempt = rec.attempt + 1] \in Record
    BY <1>1, FieldLemma
  <2>2. [[rec EXCEPT !.attempt = rec.attempt + 1] EXCEPT !.status = "running"] \in Record
    BY <2>1, FieldLemma DEF Status
  <2>3. [[[rec EXCEPT !.attempt = rec.attempt + 1] EXCEPT !.status = "running"]
           EXCEPT !.ended = FALSE] \in Record
    BY <2>2, FieldLemma
  <2>4. PICK r \in Record : r = [[[rec EXCEPT !.attempt = rec.attempt + 1]
                                   EXCEPT !.status = "running"] EXCEPT !.ended = FALSE]
    BY <2>3
  <2>5. [r EXCEPT !.killed = FALSE] \in Record
    BY FieldLemma
  <2>6. [[r EXCEPT !.killed = FALSE] EXCEPT !.ack = "no"] \in Record
    BY <2>5, FieldLemma
  <2>7. [[[r EXCEPT !.killed = FALSE] EXCEPT !.ack = "no"] EXCEPT !.sup = p] \in Record
    BY <2>6, FieldLemma
  <2>8. [[[[r EXCEPT !.killed = FALSE] EXCEPT !.ack = "no"] EXCEPT !.sup = p]
           EXCEPT !.worker = None] \in Record
    BY <2>7, FieldLemma
  <2> QED
    BY <1>2, <2>4, <2>8, FieldLemma
<1>4. /\ rec'.attempt = rec.attempt + 1 /\ rec'.status = "running" /\ ~rec'.ended
      /\ ~rec'.killed /\ rec'.worker = None
  BY <1>1, <1>2 DEF Record
<1>5. Sets(p, "top", rec', sup[p].status)
  BY <1>1, <1>3, KeepSets DEF Rerun
<1> QED
  BY <1>1, <1>3, <1>4, <1>5

LEMMA KillMarkEffect ==
  ASSUME TypeInv, KillMark
  PROVE  /\ rec \in Record /\ rec' \in Record /\ UNCHANGED <<sup, worker, janitor, crashed>>
         /\ rec'.attempt = rec.attempt /\ rec'.worker = rec.worker
         /\ \/ rec' = rec /\ rec.status \in Terminal
            \/ /\ rec.status = "running" /\ rec'.status = "aborted"
               /\ rec'.killed /\ rec'.ended
         /\ kill'.at = (IF kill'.pid = None THEN "idle" ELSE "marked")
         /\ kill' \in [at : {"idle", "marked", "sent"}, pid : Procs \cup {None},
                       kind : {"supervisor", "worker"}, left : 0 .. Kills]
         /\ kill'.kind = "worker" => kill'.pid = rec.worker /\ rec.worker \in worker
<1>1. rec \in Record /\ UNCHANGED <<sup, worker, janitor, crashed>> /\ rec.status \in Status
  BY SupLemma, FieldLemma DEF KillMark
<1>2. rec.status \in Terminal => rec' = rec
  BY DEF KillMark
<1>3. ASSUME rec.status \notin Terminal
      PROVE  /\ rec' \in Record /\ rec'.attempt = rec.attempt /\ rec'.worker = rec.worker
             /\ rec.status = "running" /\ rec'.status = "aborted" /\ rec'.killed /\ rec'.ended
  <2>1. rec' = [[[[rec EXCEPT !.killed = TRUE] EXCEPT !.status = "aborted"]
                  EXCEPT !.ended = TRUE] EXCEPT !.ack = "no"]
    BY <1>3 DEF KillMark
  <2>2. [rec EXCEPT !.killed = TRUE] \in Record
    BY <1>1, FieldLemma
  <2>3. [[rec EXCEPT !.killed = TRUE] EXCEPT !.status = "aborted"] \in Record
    BY <2>2, FieldLemma DEF Status, Terminal
  <2>4. [[[rec EXCEPT !.killed = TRUE] EXCEPT !.status = "aborted"] EXCEPT !.ended = TRUE]
           \in Record
    BY <2>3, FieldLemma
  <2>5. rec' \in Record
    BY <2>1, <2>4, FieldLemma
  <2>6. /\ rec'.attempt = rec.attempt /\ rec'.worker = rec.worker /\ rec'.status = "aborted"
        /\ rec'.killed /\ rec'.ended
    BY <1>1, <2>1 DEF Record
  <2> QED
    BY <1>1, <1>3, <2>5, <2>6 DEF Status
<1>4. PICK t : t = Target
  OBVIOUS
<1>5. /\ t.pid \in Procs \cup {None} /\ t.kind \in {"supervisor", "worker"}
      /\ t.kind = "worker" => t.pid = rec.worker /\ rec.worker \in worker
  BY <1>1, <1>4, SupLemma DEF Target, Alive, Record
<1>6. kill' = [at |-> IF t.pid = None THEN "idle" ELSE "marked", pid |-> t.pid,
               kind |-> t.kind, left |-> kill.left - 1]
  BY <1>4 DEF KillMark
<1>7. kill.left - 1 \in 0 .. Kills
  BY RunAssumption DEF TypeInv, TypeOK, KillMark
<1> QED
  BY <1>1, <1>2, <1>3, <1>5, <1>6, <1>7

LEMMA KillClearEffect ==
  ASSUME TypeInv, KillClear
  PROVE  /\ UNCHANGED <<sup, worker, janitor, crashed>>
         /\ kill.at = "sent" /\ kill'.at = "idle"
         /\ kill' \in [at : {"idle", "marked", "sent"}, pid : Procs \cup {None},
                       kind : {"supervisor", "worker"}, left : 0 .. Kills]
         /\ \/ rec = Gone /\ rec' = Gone
            \/ /\ rec \in Record /\ rec' \in Record /\ Same(rec', rec)
               /\ \/ rec'.worker = rec.worker
                  \/ kill.kind = "worker" /\ rec.worker = kill.pid /\ rec'.worker = None
<1>1. /\ UNCHANGED <<sup, worker, janitor, crashed>> /\ kill.at = "sent"
      /\ kill' = [kill EXCEPT !.at = "idle", !.pid = None]
  BY DEF KillClear
<1>2. /\ kill'.at = "idle"
      /\ kill' \in [at : {"idle", "marked", "sent"}, pid : Procs \cup {None},
                    kind : {"supervisor", "worker"}, left : 0 .. Kills]
  BY <1>1 DEF TypeInv, TypeOK
<1>3. CASE rec = Gone
  BY <1>1, <1>2, <1>3 DEF KillClear
<1>4. CASE rec \in Record
  <2>1. PICK u : u = IF kill.kind = "supervisor" /\ rec.sup = kill.pid THEN None ELSE rec.sup
    OBVIOUS
  <2>2. PICK w : w = IF kill.kind = "worker" /\ rec.worker = kill.pid THEN None ELSE rec.worker
    OBVIOUS
  <2>3. u \in Procs \cup {None} /\ w \in Procs \cup {None}
    BY <1>4, <2>1, <2>2 DEF Record
  <2>4. rec' = [[rec EXCEPT !.sup = u] EXCEPT !.worker = w]
    BY <1>4, <2>1, <2>2, RunAssumption DEF KillClear, Record
  <2>5. [rec EXCEPT !.sup = u] \in Record
    BY <1>4, <2>3, FieldLemma
  <2>6. rec' \in Record
    BY <2>3, <2>4, <2>5, FieldLemma
  <2>7. Same(rec', rec) /\ rec'.worker = w
    BY <1>4, <2>4 DEF Record, Same
  <2> QED
    BY <1>1, <1>2, <1>4, <2>2, <2>6, <2>7
<1> QED
  BY <1>3, <1>4, SupLemma

(* A signal reaches whom it is for.                                        *)
LEMMA KillSendEffect ==
  ASSUME TypeInv, KillSend
  PROVE  /\ UNCHANGED <<rec, janitor, crashed>> /\ kill.at = "marked" /\ kill.pid \in Procs
         /\ kill'.at = "sent" /\ kill'.pid = kill.pid /\ kill'.kind = kill.kind
         /\ kill' \in [at : {"idle", "marked", "sent"}, pid : Procs \cup {None},
                       kind : {"supervisor", "worker"}, left : 0 .. Kills]
         /\ \/ /\ kill.kind = "worker" /\ sup' = sup
               /\ worker' = worker \ {kill.pid} \/ (~Obedient /\ worker' = worker)
            \/ /\ kill.kind = "supervisor" /\ worker' = worker
               /\ \/ \E s \in Supervisor : /\ Sets(kill.pid, s.at, s.run, s.status)
                                           /\ s.at = sup[kill.pid].at
                                           /\ s.run = sup[kill.pid].run
                                           /\ s.status = sup[kill.pid].status
                  \/ /\ sup[kill.pid].at \notin {"spawned", "running"}
                     /\ Sets(kill.pid, "dead", sup[kill.pid].run, sup[kill.pid].status)
                  \/ sup' = sup
<1>1. /\ kill.at = "marked" /\ UNCHANGED <<rec, janitor, crashed>>
      /\ kill' = [kill EXCEPT !.at = "sent"] /\ "dead" \in Stages
  BY DEF KillSend, Stages
<1>2. PICK p \in Procs : p = kill.pid
  BY <1>1 DEF TypeInv
<1>3. /\ kill'.at = "sent" /\ kill'.pid = kill.pid /\ kill'.kind = kill.kind
      /\ kill' \in [at : {"idle", "marked", "sent"}, pid : Procs \cup {None},
                    kind : {"supervisor", "worker"}, left : 0 .. Kills]
  BY <1>1 DEF TypeInv, TypeOK
<1>4. ASSUME worker' = worker, sup' = [sup EXCEPT ![p].signal = TRUE]
      PROVE  \E s \in Supervisor : /\ Sets(p, s.at, s.run, s.status) /\ s.at = sup[p].at
                                   /\ s.run = sup[p].run /\ s.status = sup[p].status
  <2> DEFINE s == [sup[p] EXCEPT !.signal = TRUE]
  <2>1. /\ s \in Supervisor /\ s.at = sup[p].at /\ s.run = sup[p].run /\ s.status = sup[p].status
    BY SupLemma DEF Supervisor
  <2>2. sup' = [sup EXCEPT ![p] = s]
    BY <1>4
  <2> HIDE DEF s
  <2>3. p \in worker' => s.at \in {"spawned", "running", "dead"}
    BY <1>4, <2>1, SupLemma
  <2> QED
    BY <1>4, <2>1, <2>2, <2>3, SetsLemma
<1>5. ASSUME worker' = worker, sup[p].at \notin {"spawned", "running"}, Go(p, "dead")
      PROVE  Sets(p, "dead", sup[p].run, sup[p].status)
  BY <1>1, <1>5, GoSets
<1>6. \/ /\ kill.kind = "worker" /\ sup' = sup
         /\ worker' = worker \ {p} \/ (~Obedient /\ worker' = worker)
      \/ /\ kill.kind = "supervisor" /\ worker' = worker
         /\ \/ sup' = [sup EXCEPT ![p].signal = TRUE]
            \/ sup[p].at \notin {"spawned", "running"} /\ Go(p, "dead")
            \/ sup' = sup
  BY <1>2 DEF KillSend
<1> QED
  BY <1>1, <1>2, <1>3, <1>4, <1>5, <1>6

LEMMA CrashEffect ==
  ASSUME TypeInv, NEW p \in Procs, Crash(p)
  PROVE  /\ UNCHANGED <<rec, worker, kill, janitor>> /\ crashed' \in 0 .. Crashes
         /\ Sets(p, "dead", sup[p].run, sup[p].status)
         /\ Alive(p) /\ (SafeSpawn => sup[p].at # "spawned")
<1>1. "dead" \in Stages /\ worker' = worker
  BY DEF Stages, Crash
<1>2. crashed' \in 0 .. Crashes
  BY RunAssumption DEF Crash, TypeInv, TypeOK
<1> QED
  BY <1>1, <1>2, GoSets DEF Crash

LEMMA AckEffect ==
  ASSUME TypeInv, Ack
  PROVE  /\ UNCHANGED <<sup, worker, kill, crashed>> /\ janitor = "ack" /\ janitor' = "idle"
         /\ \/ rec = Gone /\ rec' = Gone
            \/ rec \in Record /\ rec' \in Record /\ Same(rec', rec) /\ rec'.worker = rec.worker
<1>1. UNCHANGED <<sup, worker, kill, crashed>> /\ janitor = "ack" /\ janitor' = "idle"
  BY DEF Ack
<1>2. CASE rec = Gone
  BY <1>1, <1>2 DEF Ack
<1>3. CASE rec \in Record
  <2>1. rec' = [rec EXCEPT !.ack = "yes"]
    BY <1>3, RunAssumption DEF Ack
  <2>2. rec' \in Record
    BY <1>3, <2>1, FieldLemma
  <2>3. Same(rec', rec) /\ rec'.worker = rec.worker
    BY <1>3, <2>1 DEF Record, Same
  <2> QED
    BY <1>1, <1>3, <2>2, <2>3
<1> QED
  BY <1>2, <1>3, SupLemma

LEMMA TypeInit == Init => TypeInv
<1> SUFFICES ASSUME Init PROVE TypeInv
  OBVIOUS
<1>1. New \in Record
  BY RunAssumption DEF New, Record
<1>2. rec \in Record /\ worker = {} /\ crashed \in 0 .. Crashes /\ janitor = "idle"
  BY <1>1, RunAssumption DEF Init
<1>3. sup \in [Procs -> [at : Stages, run : Record, status : {"running"} \cup Terminal,
                         signal : BOOLEAN]]
  BY <1>1 DEF Init, Stages
<1>4. /\ kill.at = "idle"
      /\ kill \in [at : {"idle", "marked", "sent"}, pid : Procs \cup {None},
                   kind : {"supervisor", "worker"}, left : 0 .. Kills]
  BY RunAssumption DEF Init
<1> QED
  BY <1>2, <1>3, <1>4 DEF TypeInv, TypeOK

(* What the types need of a step.                                          *)
LEMMA TypedTypes ==
  ASSUME TypeInv, NEW p \in Procs, Typed(p)
  PROVE  /\ sup' \in [Procs -> [at : Stages, run : Record, status : {"running"} \cup Terminal,
                                signal : BOOLEAN]]
         /\ worker' \subseteq Procs
         /\ \A q \in worker' : sup'[q].at \in {"spawned", "running", "dead"}
BY SupLemma DEF Typed, Supervisor, Status

LEMMA TypeStep == TypeInv /\ [Next]_vars => TypeInv'
<1> SUFFICES ASSUME TypeInv, [Next]_vars PROVE TypeInv'
  OBVIOUS
<1>1. ASSUME NEW p \in Procs, Steps(p) PROVE TypeInv'
  BY <1>1, Supervised, TypedTypes DEF TypeInv, TypeOK
<1>2. ASSUME NEW p \in Procs, WorkerExit(p) PROVE TypeInv'
  BY <1>2 DEF WorkerExit, Others, TypeInv, TypeOK
<1>3. ASSUME NEW p \in Procs, Crash(p) PROVE TypeInv'
  BY <1>3, CrashEffect, TypedTypes DEF Sets, TypeInv, TypeOK
<1>4. ASSUME NEW p \in Procs, Rerun(p) PROVE TypeInv'
  BY <1>4, RerunEffect, TypedTypes DEF Sets, TypeInv, TypeOK
<1>5. CASE KillMark
  BY <1>5, KillMarkEffect DEF TypeInv, TypeOK
<1>6. CASE KillSend
  <2>1. CASE sup' = sup /\ worker' \subseteq worker
    BY <1>6, <2>1, KillSendEffect DEF TypeInv, TypeOK
  <2>2. PICK p \in Procs : p = kill.pid
    BY <1>6, KillSendEffect
  <2>3. CASE Typed(p)
    BY <1>6, <2>2, <2>3, KillSendEffect, TypedTypes DEF TypeInv, TypeOK
  <2> QED
    BY <1>6, <2>1, <2>2, <2>3, KillSendEffect DEF Sets
<1>7. CASE KillClear
  BY <1>7, KillClearEffect DEF TypeInv, TypeOK
<1>8. CASE Ack
  BY <1>8, AckEffect DEF TypeInv, TypeOK
<1>9. CASE BeginAck \/ BeginClean \/ Clean
  BY <1>9 DEF BeginAck, BeginClean, Clean, LookAtRun, TypeInv, TypeOK
<1>10. CASE UNCHANGED vars
  BY <1>10 DEF vars, TypeInv, TypeOK
<1> QED
  BY <1>1, <1>2, <1>3, <1>4, <1>5, <1>6, <1>7, <1>8, <1>9, <1>10 DEF Next, Steps

(* The record, the supervisors and the kill keep their types, and a worker *)
(* that runs is that of a supervisor that started it and has not seen it   *)
(* end, or died (runs/record.rs, run_monitored).                           *)
THEOREM TypeCorrect == Spec => []TypeOK
<1>1. TypeInv => TypeOK
  BY DEF TypeInv
<1> QED
  BY <1>1, TypeInit, TypeStep, PTL DEF Spec

-----------------------------------------------------------------------------
LEMMA OrderInit == Init => OrderInv
<1> SUFFICES ASSUME Init PROVE OrderInv
  OBVIOUS
<1>1. New \in Record
  BY RunAssumption DEF New, Record
<1>2. /\ rec = New /\ janitor = "idle"
      /\ \A p \in Procs : sup[p].run = New /\ (p # Launcher => sup[p].at = "unused")
  BY DEF Init
<1> QED
  BY <1>1, <1>2, AliveLemma, RunAssumption DEF OrderInv

(* A step after which nobody lives who did not before.                     *)
LEMMA OrderSame ==
  ASSUME OrderInv, janitor' = janitor,
         rec # Gone => rec' # Gone /\ rec'.attempt = rec.attempt,
         \A p \in Procs : Alive(p)' => Alive(p) /\ sup'[p].run = sup[p].run
  PROVE  OrderInv'
BY DEF OrderInv

LEMMA OrderStep ==
  ASSUME Patient
  PROVE  TypeInv /\ OrderInv /\ [Next]_vars => OrderInv'
<1> SUFFICES ASSUME TypeInv, OrderInv, [Next]_vars PROVE OrderInv'
  OBVIOUS
<1>1. ASSUME NEW p \in Procs, Steps(p) PROVE OrderInv'
  <2>1. \A q \in Procs : Alive(q)' => q = p
    BY <1>1, Supervised, AliveLemma DEF OrderInv, Typed
  <2> QED
    BY <1>1, <2>1, Supervised, RunAssumption DEF OrderInv
<1>2. ASSUME NEW p \in Procs, WorkerExit(p) \/ Crash(p) PROVE OrderInv'
  BY <1>2, AliveLemma, CrashEffect, OrderSame DEF WorkerExit, Others, Sets, Typed
<1>3. ASSUME NEW p \in Procs, Rerun(p) PROVE OrderInv'
  <2>1. janitor' = "idle" /\ \A q \in Procs : ~Alive(q)
    BY <1>3 DEF Rerun, MayWrite
  <2>2. \A q \in Procs : Alive(q)' => q = p
    BY <1>3, <2>1, RerunEffect, AliveLemma DEF Sets, Typed
  <2> QED
    BY <1>3, <2>1, <2>2, RerunEffect, RunAssumption DEF OrderInv, Sets
<1>4. CASE KillMark
  BY <1>4, KillMarkEffect, AliveLemma, OrderSame, RunAssumption
<1>5. CASE KillSend
  <2>1. PICK p \in Procs : p = kill.pid
    BY <1>5, KillSendEffect
  <2> QED
    BY <1>5, <2>1, KillSendEffect, AliveLemma, OrderSame DEF Sets, Typed
<1>6. CASE KillClear
  BY <1>6, KillClearEffect, AliveLemma, OrderSame, RunAssumption DEF Same
<1>7. CASE BeginAck \/ BeginClean \/ Ack \/ Clean
  <2>1. \A p \in Procs : ~Alive(p)
    BY <1>7 DEF BeginAck, BeginClean, LookAtRun, MayWrite, Ack, Clean, OrderInv
  <2>2. sup' = sup
    BY <1>7 DEF BeginAck, BeginClean, LookAtRun, Ack, Clean
  <2> QED
    BY <2>1, <2>2, AliveLemma DEF OrderInv
<1>8. CASE UNCHANGED vars
  BY <1>8, AliveLemma, OrderSame DEF vars
<1> QED
  BY <1>1, <1>2, <1>3, <1>4, <1>5, <1>6, <1>7, <1>8 DEF Next, Steps

-----------------------------------------------------------------------------
(* From the look at the record before the worker is started until it runs; *)
(* and what comes after its start was recorded.                            *)
Starting == {"started", "launching", "spawned", "running"}
Late == {"running", "ended", "checked", "planning", "continuing", "moving", "closing",
         "reporting", "failed"}

(* What the record and a kill know of the worker of p.                     *)
Fits(p) ==
  /\ p \in worker => sup[p].at = "spawned" \/ rec.worker = p
  /\ sup[p].at = "spawned" => sup[p].run.worker = p
  /\ Alive(p) /\ rec.worker = p => sup[p].at \in Late
  /\ sup[p].at \in Starting => /\ rec.status \in {"running", "aborted"}
                               /\ sup[p].run.status \in {"running", "aborted"}
  /\ (kill.at # "idle" /\ kill.kind = "worker" /\ kill.pid = p) =>
       /\ sup[p].at \in {"running", "ended", "checked", "closing", "reporting", "failed",
                         "left", "dead"}
       /\ sup[p].at \in {"running", "ended", "checked"} => Interrupted(rec)
       /\ kill.at = "sent" => p \notin worker
WorkInv ==
  /\ \A p \in Procs : Fits(p)
  /\ \A p \in Procs, q \in worker : Alive(p) => p = q
  /\ janitor = "clean" \/ rec = Gone => worker = {}

LEMMA WorkInit == Init => WorkInv
<1> SUFFICES ASSUME Init PROVE WorkInv
  OBVIOUS
<1>1. New \in Record /\ New.worker = None
  BY RunAssumption DEF New, Record
<1>2. /\ rec = New /\ worker = {} /\ janitor = "idle" /\ kill.at = "idle"
      /\ \A p \in Procs : sup[p].at \in {"top", "unused"}
  BY DEF Init
<1> QED
  BY <1>1, <1>2, RunAssumption DEF WorkInv, Fits, Starting

(* A supervisor's step is looked at for itself: nobody else lives.         *)
LEMMA FitsSuffice ==
  ASSUME TypeInv, OrderInv, WorkInv, NEW p \in Procs, Steps(p), Fits(p)'
  PROVE  WorkInv'
<1>1. /\ Typed(p) /\ Alive(p) /\ UNCHANGED <<kill, janitor, crashed>> /\ rec' # Gone
      /\ janitor = "idle"
  BY Supervised, RunAssumption DEF OrderInv
<1>2. worker \subseteq {p} /\ worker' \subseteq {p}
  BY <1>1 DEF WorkInv, Typed
<1>3. \A q \in Procs \ {p} : ~Alive(q) /\ ~Alive(q)' /\ sup'[q] = sup[q]
  BY <1>1, AliveLemma DEF OrderInv, Typed
<1>4. ASSUME NEW q \in Procs \ {p} PROVE Fits(q)'
  <2>1. sup'[q].at \notin {"spawned", "running", "ended", "checked"} \cup Starting
    BY <1>3, AliveLemma DEF Starting
  <2>2. q \notin worker' /\ Fits(q)
    BY <1>2 DEF WorkInv
  <2> QED
    BY <1>1, <1>3, <2>1, <2>2 DEF Fits
<1> QED
  BY <1>1, <1>2, <1>3, <1>4 DEF WorkInv

LEMMA WorkSteps ==
  ASSUME TypeInv, OrderInv, WorkInv, NEW p \in Procs, Steps(p)
  PROVE  WorkInv'
<1> SUFFICES Fits(p)'
  BY FitsSuffice
<1>1. /\ Alive(p) /\ rec \in Record /\ rec' \in Record /\ sup[p].run \in Record /\ Fits(p)
      /\ sup[p].run.attempt = rec.attempt /\ rec.attempt \in Nat /\ kill' = kill /\ p # None
      /\ rec.attempt <= sup[p].run.attempt
  <2>1. Alive(p) /\ rec \in Record /\ rec' \in Record /\ kill' = kill
    BY Supervised
  <2>2. sup[p].run \in Record /\ sup[p].run.attempt = rec.attempt /\ Fits(p)
    BY <2>1, SupLemma DEF OrderInv, WorkInv
  <2>3. rec.attempt \in Nat /\ p # None
    BY <2>1, FieldLemma, RunAssumption
  <2> QED
    BY <2>1, <2>2, <2>3
<1>2. ASSUME NEW at \in Stages, Checks(p, at),
             sup[p].at \in {"top", "started", "checked", "planning", "continuing"},
             at \in {"starting", "launching", "planning", "closing", "continuing", "moving"},
             at = "starting" => sup[p].at = "top",
             at = "launching" => sup[p].at = "started"
      PROVE  Fits(p)'
  <2>1. p \notin worker
    BY <1>2, SupLemma
  <2> QED
    BY <1>1, <1>2, <2>1, ChecksEffect, AliveLemma DEF Sets, Fits, Late, Starting
<1>3. CASE Top(p) \/ Started(p) \/ Checked(p) \/ Plan(p)
  BY <1>2, <1>3 DEF Top, Started, Checked, Plan, Stages
<1>4. CASE Continue(p)
  <2>1. CASE Checks(p, "moving")
    BY <1>2, <1>4, <2>1 DEF Continue, Stages
  <2>2. CASE Go(p, "closing") /\ UNCHANGED <<rec, worker>>
    <3>1. p \notin worker /\ "closing" \in Stages
      BY <1>4, SupLemma DEF Continue, Stages
    <3> QED
      BY <1>1, <1>4, <2>2, <3>1, GoSets, AliveLemma DEF Continue, Sets, Fits, Late, Starting
  <2> QED
    BY <1>4, <2>1, <2>2 DEF Continue
<1>5. CASE Start(p)
  <2>1. sup[p].at = "starting" /\ p \notin worker
    BY <1>5, SupLemma DEF Start
  <2> QED
    BY <1>1, <1>5, <2>1, StartEffect, SavedLemma, AliveLemma DEF Sets, Fits, Late, Starting
<1>6. CASE Spawn(p)
  <2>1. sup[p].at = "launching"
    BY <1>6 DEF Spawn
  <2> QED
    BY <1>1, <1>6, <2>1, SpawnEffect, AliveLemma DEF Sets, Fits, Late, Starting
<1>7. CASE RecordSpawn(p)
  <2>1. sup[p].at = "spawned"
    BY <1>7 DEF RecordSpawn
  <2> QED
    BY <1>1, <1>7, <2>1, RecordSpawnEffect, SavedLemma, AliveLemma
    DEF Sets, Fits, Late, Starting
<1>8. CASE CannotStart(p) \/ Watch(p) \/ Expire(p)
  BY <1>1, <1>8, AttemptEnds, AliveLemma DEF Sets, Fits, Late, Starting
<1>9. CASE SaveEnd(p)
  <2>1. sup[p].at = "ended" /\ p \notin worker
    BY <1>9, SupLemma DEF SaveEnd
  <2>2. Interrupted(rec) => Interrupted(rec')
    BY <1>1, <1>9, SaveEndEffect, SavedLemma DEF Interrupted
  <2> QED
    BY <1>1, <1>9, <2>1, <2>2, SaveEndEffect, SavedLemma, AliveLemma
    DEF Sets, Fits, Late, Starting
<1>10. CASE Move(p)
  <2>1. sup[p].at = "moving" /\ p \notin worker
    BY <1>10, SupLemma DEF Move
  <2>2. PICK r \in Record : rec' = Saved(r) /\ r.attempt = sup[p].run.attempt + 1 /\ r.worker = None
    BY <1>10, MoveEffect
  <2>3. rec'.worker = None
    BY <1>1, <2>2, SavedLemma
  <2> QED
    BY <1>1, <1>10, <2>1, <2>3, MoveEffect, AliveLemma DEF Sets, Fits, Late, Starting
<1>11. CASE Finish(p)
  <2>1. sup[p].at = "closing" /\ p \notin worker
    BY <1>11, SupLemma DEF Finish
  <2> QED
    BY <1>1, <1>11, <2>1, FinishEffect, AliveLemma DEF Sets, Fits, Late, Starting
<1>12. CASE Report(p) \/ GiveUp(p) \/ StoreFails(p)
  <2>1. /\ p \notin worker /\ worker' = worker
        /\ sup[p].at \notin {"launching", "spawned", "running"}
    BY <1>12, SupLemma DEF Report, GiveUp, StoreFails
  <2>2. CASE Report(p) \/ GiveUp(p)
    BY <1>1, <2>1, <2>2, ReportEffect, GiveUpEffect, AliveLemma DEF Sets, Fits, Late, Starting
  <2>3. CASE StoreFails(p)
    BY <1>1, <2>1, <2>3, StoreFailsEffect, AliveLemma DEF Sets, Fits, Late, Starting
  <2> QED
    BY <1>12, <2>2, <2>3
<1> QED
  BY <1>3, <1>4, <1>5, <1>6, <1>7, <1>8, <1>9, <1>10, <1>11, <1>12 DEF Steps, Supervise

LEMMA WorkStep ==
  ASSUME Patient, Obedient, SafeSpawn
  PROVE  TypeInv /\ OrderInv /\ WorkInv /\ [Next]_vars => WorkInv'
<1> SUFFICES ASSUME TypeInv, OrderInv, WorkInv, [Next]_vars PROVE WorkInv'
  OBVIOUS
<1>1. ASSUME NEW p \in Procs, Steps(p) PROVE WorkInv'
  BY <1>1, WorkSteps
<1>2. ASSUME NEW p \in Procs, WorkerExit(p) PROVE WorkInv'
  BY <1>2, AliveLemma DEF WorkerExit, Others, WorkInv, Fits, Interrupted
<1>3. ASSUME NEW p \in Procs, Crash(p) PROVE WorkInv'
  <2>1. /\ UNCHANGED <<rec, worker, kill, janitor>> /\ sup'[p].at = "dead"
        /\ sup[p].at # "spawned" /\ \A q \in Procs \ {p} : sup'[q] = sup[q]
    BY <1>3, CrashEffect DEF Sets, Typed
  <2>2. ASSUME NEW q \in Procs PROVE Fits(q)'
    BY <2>1, AliveLemma DEF WorkInv, Fits, Starting, Interrupted
  <2> QED
    BY <2>1, <2>2, AliveLemma DEF WorkInv
(* Whoever resumes or retries finds no worker, of a supervisor or without. *)
<1>4. ASSUME NEW p \in Procs, Rerun(p) PROVE WorkInv'
  <2>1. \A q \in Procs : ~Alive(q)
    BY <1>4 DEF Rerun, MayWrite
  <2>2. worker = {}
    <3>1. \A q \in worker : q \in Procs /\ rec.worker = q
      BY <2>1, AliveLemma, SupLemma DEF WorkInv, Fits
    <3>2. rec.worker \notin worker
      BY <1>4 DEF Rerun, Active
    <3> QED
      BY <3>1, <3>2
  <2>3. /\ UNCHANGED <<worker, kill, janitor>> /\ sup'[p].at = "top" /\ rec'.worker = None
        /\ rec' # Gone /\ \A q \in Procs \ {p} : sup'[q] = sup[q]
    BY <1>4, RerunEffect, RunAssumption DEF Sets, Typed
  <2>4. sup[p].at = "unused"
    BY <1>4 DEF Rerun
  <2>5. Fits(p)'
    BY <2>2, <2>3, <2>4, RunAssumption DEF WorkInv, Fits, Starting
  <2>6. ASSUME NEW q \in Procs \ {p} PROVE Fits(q)'
    BY <2>1, <2>2, <2>3, AliveLemma DEF WorkInv, Fits, Starting
  <2> QED
    BY <2>2, <2>3, <2>5, <2>6 DEF WorkInv
<1>5. CASE KillMark
  <2>1. /\ rec \in Record /\ rec' \in Record /\ UNCHANGED <<sup, worker, janitor>>
        /\ rec'.worker = rec.worker /\ rec' # Gone /\ rec # Gone
        /\ rec' = rec \/ rec'.status = "aborted"
        /\ kill'.at \in {"idle", "marked"}
        /\ kill'.kind = "worker" => kill'.pid \in worker /\ rec.worker = kill'.pid
    BY <1>5, KillMarkEffect, RunAssumption
  <2>2. rec.status \in Terminal \/ Interrupted(rec')
    BY <1>5, KillMarkEffect DEF Interrupted
  <2>3. ASSUME NEW p \in Procs PROVE Fits(p)'
    <3>1. Fits(p)
      BY DEF WorkInv
    <3>2. /\ p \in worker' => sup'[p].at = "spawned" \/ rec'.worker = p
          /\ sup'[p].at = "spawned" => sup'[p].run.worker = p
          /\ Alive(p)' /\ rec'.worker = p => sup'[p].at \in Late
          /\ sup'[p].at \in Starting => /\ rec'.status \in {"running", "aborted"}
                                        /\ sup'[p].run.status \in {"running", "aborted"}
      BY <2>1, <3>1, AliveLemma DEF Fits
    <3>3. ASSUME kill'.kind = "worker", kill'.pid = p
          PROVE  /\ sup'[p].at \in {"running", "dead"}
                 /\ sup'[p].at = "running" => Interrupted(rec')
      <4>1. p \in worker /\ rec.worker = p /\ sup[p].at \in {"spawned", "running", "dead"}
        BY <2>1, <3>3, SupLemma
      <4>2. sup[p].at # "spawned"
        BY <3>1, <4>1, AliveLemma DEF Fits, Late
      <4>3. sup[p].at = "running" => Interrupted(rec')
        BY <2>1, <2>2, <3>1 DEF Fits, Starting, Interrupted, Terminal
      <4> QED
        BY <2>1, <4>1, <4>2, <4>3
    <3> QED
      BY <2>1, <3>2, <3>3 DEF Fits
  <2> QED
    BY <2>1, <2>3, AliveLemma DEF WorkInv
<1>6. CASE KillSend
  <2>1. /\ rec' = rec /\ janitor' = janitor /\ kill.at = "marked" /\ kill'.at = "sent"
        /\ kill'.pid = kill.pid /\ kill'.kind = kill.kind /\ worker' \subseteq worker
        /\ kill.kind = "worker" => kill.pid \notin worker'
        /\ \A q \in Procs : \/ sup'[q].at = sup[q].at /\ sup'[q].run = sup[q].run
                            \/ sup'[q].at = "dead" /\ sup[q].at # "running"
                               /\ sup[q].at # "spawned"
    <3>1. PICK p \in Procs : p = kill.pid
      BY <1>6, KillSendEffect
    <3>2. \A q \in Procs : \/ sup'[q].at = sup[q].at /\ sup'[q].run = sup[q].run
                           \/ sup'[q].at = "dead" /\ sup[q].at # "running"
                              /\ sup[q].at # "spawned"
      BY <1>6, <3>1, KillSendEffect DEF Sets, Typed
    <3> QED
      BY <1>6, <3>2, KillSendEffect
  <2>2. ASSUME NEW q \in Procs PROVE Fits(q)'
    BY <2>1, AliveLemma DEF WorkInv, Fits, Starting, Interrupted
  <2> QED
    BY <2>1, <2>2, AliveLemma DEF WorkInv
<1>7. CASE KillClear
  <2>1. /\ UNCHANGED <<sup, worker, janitor>> /\ kill.at = "sent" /\ kill'.at = "idle"
        /\ rec' = Gone <=> rec = Gone
        /\ rec # Gone => /\ rec'.status = rec.status
                         /\ \/ rec'.worker = rec.worker
                            \/ /\ kill.kind = "worker" /\ rec.worker = kill.pid
                               /\ rec'.worker = None
    BY <1>7, KillClearEffect, RunAssumption DEF Same
  <2>2. ASSUME NEW q \in Procs PROVE Fits(q)'
    <3>1. Fits(q) /\ q # None
      BY RunAssumption DEF WorkInv
    <3>2. CASE rec = Gone
      BY <2>1, <3>1, <3>2, AliveLemma DEF OrderInv, WorkInv, Fits, Starting
    <3>3. CASE rec # Gone
      BY <2>1, <3>1, <3>3, AliveLemma DEF Fits
    <3> QED
      BY <3>2, <3>3
  <2> QED
    BY <2>1, <2>2, AliveLemma DEF WorkInv
<1>8. CASE BeginAck \/ BeginClean \/ Ack \/ Clean
  <2>1. \A q \in Procs : ~Alive(q) /\ ~Alive(q)'
    BY <1>8, AliveLemma DEF BeginAck, BeginClean, LookAtRun, MayWrite, Ack, Clean, OrderInv
  <2>2. UNCHANGED <<sup, worker, kill>>
    BY <1>8 DEF BeginAck, BeginClean, LookAtRun, Ack, Clean
  <2>3. rec' = Gone \/ janitor' = "clean" => worker = {}
    <3>1. CASE BeginClean
      <4>1. rec.worker \notin worker
        BY <3>1 DEF BeginClean, MayClean
      <4>2. \A q \in worker : q = rec.worker
        BY <2>1, AliveLemma, SupLemma DEF WorkInv, Fits
      <4> QED
        BY <4>1, <4>2
    <3>2. CASE BeginAck \/ Ack \/ Clean
      BY <3>2, RunAssumption, AckEffect DEF BeginAck, LookAtRun, Clean, WorkInv
    <3> QED
      BY <1>8, <3>1, <3>2
  <2>4. ASSUME NEW q \in Procs PROVE Fits(q)'
    <3>1. sup[q].at \notin Starting \cup {"spawned", "running", "ended", "checked"}
      BY <2>1, AliveLemma DEF Starting
    <3>2. q \in worker => rec' # Gone /\ rec'.worker = rec.worker
      BY <1>8, <2>2, <2>3, AckEffect, RunAssumption
      DEF BeginAck, BeginClean, LookAtRun, Clean, WorkInv
    <3> QED
      BY <2>1, <2>2, <3>1, <3>2 DEF WorkInv, Fits
  <2> QED
    BY <2>1, <2>2, <2>3, <2>4 DEF WorkInv
<1>9. CASE UNCHANGED vars
  BY <1>9, AliveLemma DEF vars, WorkInv, Fits, Interrupted
<1> QED
  BY <1>1, <1>2, <1>3, <1>4, <1>5, <1>6, <1>7, <1>8, <1>9 DEF Next, Steps

(* At no time do two workers of a run work in its directory, whatever      *)
(* kills it and whoever resumes or retries it: as long as no two of these  *)
(* commands overlap or meet a supervisor that lives, a worker does not     *)
(* outlive the signal that is to end it, and no supervisor dies between    *)
(* the start of a worker and its record (run_monitored, ensure_resumable). *)
THEOREM OneWorker == ASSUME Patient, Obedient, SafeSpawn PROVE Spec => []SingleWorker
<1>1. TypeInv /\ WorkInv => SingleWorker
  <2> SUFFICES ASSUME TypeInv, WorkInv PROVE Cardinality(worker) <= 1
    BY DEF SingleWorker
  <2>1. ASSUME NEW p \in worker, NEW q \in worker PROVE p = q
    <3>1. p \in Procs /\ q \in Procs
      BY SupLemma
    <3> QED
      BY <3>1, AliveLemma DEF WorkInv, Fits
  <2>2. CASE worker = {}
    BY <2>2, FS_EmptySet
  <2>3. ASSUME NEW p \in worker PROVE Cardinality(worker) <= 1
    <3>1. worker = {p}
      BY <2>1
    <3>2. Cardinality(worker) = 1
      BY <3>1, FS_Singleton, Zenon
    <3> QED
      BY <3>2
  <2> QED
    BY <2>2, <2>3
<1> QED
  BY <1>1, TypeInit, TypeStep, OrderInit, OrderStep, WorkInit, WorkStep, PTL DEF Spec

-----------------------------------------------------------------------------
(* A run that was killed is aborted; a copy of it knows of the kill only   *)
(* if the record does; and whoever cannot go on is the launcher, which     *)
(* heeds a kill when it writes that down.                                  *)
KillInv ==
  /\ rec # Gone => (rec.killed => rec.status = "aborted")
  /\ \A p \in Procs : Alive(p) => (sup[p].run.killed => rec.killed)
  /\ \A p \in Procs : p # Launcher => sup[p].at # "failed"
  /\ sup[Launcher].at # "reporting"

(* A step of the record that leaves a kill standing.                       *)
KillKept ==
  (rec # Gone /\ rec' # Gone /\ rec.killed) =>
    \/ rec'.killed /\ rec'.status = "aborted"
    \/ rec'.attempt > rec.attempt /\ rec'.status = "running"

LEMMA KillInit == Init => KillInv
<1> SUFFICES ASSUME Init PROVE KillInv
  OBVIOUS
<1>1. ~New.killed
  BY DEF New
<1>2. rec = New /\ \A p \in Procs : sup[p].run = New /\ sup[p].at \in {"top", "unused"}
  BY DEF Init
<1> QED
  BY <1>1, <1>2, RunAssumption DEF KillInv

(* A step of a supervisor, looked at for itself.                           *)
LEMMA KillSuffice ==
  ASSUME TypeInv, OrderInv, KillInv, NEW p \in Procs, Steps(p),
         rec'.killed = rec.killed, rec.killed => rec'.status = "aborted",
         Alive(p)' => (sup'[p].run.killed => rec.killed),
         sup'[p].at = "failed" => p = Launcher, sup'[p].at = "reporting" => p # Launcher
  PROVE  KillInv' /\ KillKept
<1>1. /\ Typed(p) /\ Alive(p) /\ rec \in Record /\ rec' \in Record
      /\ rec # Gone /\ rec' # Gone
  BY Supervised, RunAssumption
<1>2. \A q \in Procs \ {p} : ~Alive(q)' /\ sup'[q] = sup[q]
  BY <1>1, AliveLemma DEF OrderInv, Typed
<1>3. (\A q \in Procs : q # Launcher => sup'[q].at # "failed") /\ sup'[Launcher].at # "reporting"
  BY <1>2, RunAssumption DEF KillInv
<1> QED
  BY <1>1, <1>2, <1>3 DEF KillInv, KillKept

LEMMA KillSteps ==
  ASSUME Faulty \subseteq {Launcher}, TypeInv, OrderInv, KillInv, NEW p \in Procs, Steps(p)
  PROVE  KillInv' /\ KillKept
<1>1. /\ Alive(p) /\ rec \in Record /\ rec' \in Record /\ sup[p].run \in Record
      /\ sup[p].run.attempt = rec.attempt /\ rec.attempt \in Nat /\ rec # Gone
      /\ rec.killed \in BOOLEAN /\ sup[p].run.killed \in BOOLEAN
  <2>1. Alive(p) /\ rec \in Record /\ rec' \in Record
    BY Supervised
  <2>2. sup[p].run \in Record /\ sup[p].run.attempt = rec.attempt
    BY <2>1, SupLemma DEF OrderInv
  <2>3. rec.attempt \in Nat /\ rec # Gone
    BY <2>1, FieldLemma, RunAssumption
  <2> QED
    BY <2>1, <2>2, <2>3, FieldLemma
<1>2. /\ rec.killed => rec.status = "aborted" /\ Interrupted(rec)
      /\ sup[p].run.killed => rec.killed
      /\ p # Launcher => sup[p].at # "failed"
      /\ p = Launcher => sup[p].at # "reporting"
  BY <1>1 DEF KillInv, Interrupted
<1> SUFFICES /\ rec'.killed = rec.killed /\ (rec.killed => rec'.status = "aborted")
             /\ Alive(p)' => (sup'[p].run.killed => rec.killed)
             /\ sup'[p].at = "failed" => p = Launcher
             /\ sup'[p].at = "reporting" => p # Launcher
  BY KillSuffice
<1>3. ASSUME NEW r \in Record, rec' = Saved(r), r.killed = sup[p].run.killed,
             r.attempt \in {rec.attempt, rec.attempt + 1}
      PROVE  /\ rec'.killed = rec.killed /\ (rec.killed => rec'.status = "aborted")
             /\ rec'.attempt = r.attempt
  BY <1>1, <1>2, <1>3, SavedLemma
<1>4. ASSUME NEW at \in Stages, Checks(p, at), p \notin worker, at \notin {"failed", "reporting"}
      PROVE  /\ rec' = rec /\ (Alive(p)' => (sup'[p].run.killed => rec.killed))
             /\ sup'[p].at \notin {"failed", "reporting"}
  BY <1>1, <1>2, <1>4, ChecksEffect, MarkedLemma DEF Sets
<1>5. CASE Top(p) \/ Started(p) \/ Checked(p) \/ Plan(p)
  <2>1. p \notin worker
    BY <1>5, SupLemma DEF Top, Started, Checked, Plan
  <2>2. PICK at \in Stages \ {"failed", "reporting"} : Checks(p, at)
    BY <1>5 DEF Top, Started, Checked, Plan, Stages
  <2> QED
    BY <1>2, <1>4, <2>1, <2>2
<1>6. CASE Continue(p)
  <2>1. p \notin worker /\ {"moving", "closing"} \subseteq Stages
    BY <1>6, SupLemma DEF Continue, Stages
  <2>2. CASE Go(p, "closing") /\ UNCHANGED <<rec, worker>>
    BY <1>2, <2>1, <2>2, GoSets DEF Sets
  <2> QED
    BY <1>2, <1>4, <1>6, <2>1, <2>2 DEF Continue
<1>7. CASE Start(p)
  <2>1. PICK r \in Record : /\ rec' = Saved(r) /\ r.attempt = sup[p].run.attempt
                            /\ r.killed = sup[p].run.killed
    BY <1>7, StartEffect
  <2> QED
    BY <1>1, <1>3, <1>7, <2>1, StartEffect DEF Sets
<1>8. CASE Spawn(p)
  BY <1>2, <1>8, SpawnEffect DEF Sets
<1>9. CASE RecordSpawn(p)
  BY <1>1, <1>2, <1>3, <1>9, RecordSpawnEffect DEF Sets
<1>10. CASE CannotStart(p) \/ Watch(p) \/ Expire(p)
  BY <1>2, <1>10, AttemptEnds DEF Sets
<1>11. CASE SaveEnd(p)
  BY <1>1, <1>2, <1>3, <1>11, SaveEndEffect DEF Sets
<1>12. CASE Move(p)
  <2>1. PICK r \in Record : /\ rec' = Saved(r) /\ r.attempt = sup[p].run.attempt + 1
                            /\ r.killed = sup[p].run.killed
    BY <1>12, MoveEffect
  <2> QED
    BY <1>1, <1>3, <1>12, <2>1, MoveEffect DEF Sets
<1>13. CASE Finish(p)
  BY <1>1, <1>2, <1>13, FinishEffect, FinalLemma, SupLemma DEF Sets
<1>14. CASE Report(p)
  <2>1. PICK r \in Record : /\ rec' = Saved(r) /\ r.attempt = sup[p].run.attempt
                            /\ r.killed = sup[p].run.killed
    BY <1>14, ReportEffect
  <2> QED
    BY <1>1, <1>3, <1>14, <2>1, ReportEffect, AliveLemma DEF Sets
<1>15. CASE GiveUp(p)
  <2>1. p = Launcher
    BY <1>2, <1>15 DEF GiveUp
  <2>2. /\ Failed(rec, p).killed = rec.killed
        /\ rec.killed => Failed(rec, p).status = "aborted"
    BY <1>1, <1>2, <2>1, FailedLemma
  <2> QED
    BY <1>2, <1>15, <2>2, GiveUpEffect, AliveLemma DEF Sets
<1>16. CASE StoreFails(p)
  <2>1. p = Launcher
    BY <1>1, <1>16 DEF StoreFails
  <2> QED
    BY <1>2, <1>16, <2>1, StoreFailsEffect DEF Sets
<1> QED
  BY <1>5, <1>6, <1>7, <1>8, <1>9, <1>10, <1>11, <1>12, <1>13, <1>14, <1>15, <1>16
  DEF Steps, Supervise

(* What the commands other than resume and retry leave of supervisors.     *)
LEMMA CommandsLemma ==
  ASSUME Patient, TypeInv, OrderInv,
         \/ \E p \in Procs : WorkerExit(p) \/ Crash(p)
         \/ KillMark \/ KillSend \/ KillClear \/ BeginAck \/ Ack \/ BeginClean \/ Clean
         \/ UNCHANGED vars
  PROVE  /\ \A q \in Procs : \/ sup'[q].at = sup[q].at /\ sup'[q].run = sup[q].run
                                /\ sup'[q].status = sup[q].status
                             \/ sup'[q].at = "dead"
         /\ \/ rec' = rec
            \/ rec \in Record /\ rec' \in Record /\ Same(rec', rec)
            \/ /\ rec \in Record /\ rec' \in Record /\ rec'.attempt = rec.attempt
               /\ rec.status = "running" /\ rec'.status = "aborted" /\ rec'.killed /\ rec'.ended
            \/ rec' = Gone /\ janitor = "clean" /\ \A q \in Procs : ~Alive(q)
<1>1. ASSUME NEW p \in Procs, Crash(p)
      PROVE  rec' = rec /\ sup'[p].at = "dead" /\ \A q \in Procs \ {p} : sup'[q] = sup[q]
  BY <1>1, CrashEffect DEF Sets, Typed
<1>2. CASE KillSend
  <2>1. PICK p \in Procs : p = kill.pid
    BY <1>2, KillSendEffect
  <2> QED
    BY <1>2, <2>1, KillSendEffect DEF Sets, Typed
<1>3. CASE KillMark
  BY <1>3, KillMarkEffect
<1>4. CASE KillClear \/ Ack
  BY <1>4, KillClearEffect, AckEffect
<1>5. CASE BeginAck \/ BeginClean \/ UNCHANGED vars \/ \E p \in Procs : WorkerExit(p)
  BY <1>5 DEF BeginAck, BeginClean, LookAtRun, WorkerExit, Others, vars
<1>6. CASE Clean
  BY <1>6 DEF Clean, OrderInv
<1> QED
  BY <1>1, <1>2, <1>3, <1>4, <1>5, <1>6

LEMMA KillStep ==
  ASSUME Patient, Faulty \subseteq {Launcher}
  PROVE  TypeInv /\ OrderInv /\ KillInv /\ [Next]_vars => KillInv' /\ KillKept
<1> SUFFICES ASSUME TypeInv, OrderInv, KillInv, [Next]_vars PROVE KillInv' /\ KillKept
  OBVIOUS
<1>1. ASSUME NEW p \in Procs, Steps(p) PROVE KillInv' /\ KillKept
  BY <1>1, KillSteps
<1>2. ASSUME NEW p \in Procs, Rerun(p) PROVE KillInv' /\ KillKept
  <2>1. \A q \in Procs : ~Alive(q)
    BY <1>2 DEF Rerun, MayWrite
  <2>2. /\ rec \in Record /\ rec' \in Record /\ ~rec'.killed /\ rec'.status = "running"
        /\ rec'.attempt = rec.attempt + 1 /\ sup'[p].run = rec' /\ sup'[p].at = "top"
        /\ \A q \in Procs \ {p} : sup'[q] = sup[q] /\ ~Alive(q)'
    BY <1>2, <2>1, RerunEffect, AliveLemma DEF Sets, Typed
  <2>3. rec.attempt \in Nat
    BY <2>2, FieldLemma
  <2> QED
    BY <2>2, <2>3, RunAssumption DEF KillInv, KillKept
<1>3. CASE \/ \E p \in Procs : WorkerExit(p) \/ Crash(p)
           \/ KillMark \/ KillSend \/ KillClear \/ BeginAck \/ Ack \/ BeginClean \/ Clean
           \/ UNCHANGED vars
  <2>1. \A q \in Procs : /\ Alive(q)' => Alive(q) /\ sup'[q].run = sup[q].run
                         /\ sup'[q].at \in {sup[q].at, "dead"}
    BY <1>3, CommandsLemma, AliveLemma
  <2>2. CASE rec' = rec \/ (rec \in Record /\ rec' \in Record /\ Same(rec', rec))
    BY <2>1, <2>2, RunAssumption DEF KillInv, KillKept, Same
  <2>3. CASE /\ rec \in Record /\ rec' \in Record /\ rec'.attempt = rec.attempt
             /\ rec.status = "running" /\ rec'.status = "aborted" /\ rec'.killed /\ rec'.ended
    BY <2>1, <2>3, RunAssumption DEF KillInv, KillKept
  <2>4. CASE rec' = Gone /\ \A q \in Procs : ~Alive(q)
    BY <2>1, <2>4, RunAssumption DEF KillInv, KillKept
  <2> QED
    BY <1>3, <2>2, <2>3, <2>4, CommandsLemma
<1> QED
  BY <1>1, <1>2, <1>3 DEF Next, Steps

(* A kill stands until the run is resumed or retried: a supervisor that    *)
(* saves its copy, or finishes or gives up the run, leaves it killed and   *)
(* aborted.  A resume or a retry whose access to the record fails does not *)
(* heed it, so only the launcher's may, and these commands wait for        *)
(* supervisors (save_preserving_control_markers, merge_control_markers,    *)
(* finish_failed).                                                         *)
THEOREM KillsStand == ASSUME Patient, Faulty \subseteq {Launcher} PROVE Spec => KillStands
<1>1. TypeInv /\ OrderInv /\ KillInv /\ [Next]_vars
        => [rec # Gone /\ rec' # Gone /\ rec.killed =>
              \/ rec'.killed /\ rec'.status = "aborted"
              \/ rec'.attempt > rec.attempt /\ rec'.status = "running"]_rec
  BY KillStep DEF KillKept
<1> QED
  BY <1>1, TypeInit, TypeStep, OrderInit, OrderStep, KillInit, KillStep, PTL DEF Spec, KillStands

-----------------------------------------------------------------------------
(* As long as a supervisor has not ended the run, an end that is recorded  *)
(* is that of a kill, and its copy says nothing of an end before it has    *)
(* seen one; what is left to report is what is recorded.                   *)
Ending == {"ended", "checked", "planning", "continuing", "moving", "closing", "reporting"}
Open(p) == Alive(p) /\ sup[p].at # "reporting"

ResultOf(p) ==
  /\ Open(p) => (rec.status \in Terminal /\ rec.ended => rec.status = "aborted")
  /\ Open(p) /\ sup[p].at \notin {"closing", "failed"} => ~sup[p].run.ended
  /\ sup[p].at = "reporting" => rec.status = sup[p].status
  /\ sup[p].at \in Ending => sup[p].status \in Terminal
ResultInv == \A p \in Procs : ResultOf(p)

(* A step of the record that leaves what is recorded standing.             *)
ResultKept ==
  (rec # Gone /\ rec' # Gone) =>
    /\ rec'.attempt >= rec.attempt
    /\ rec.status \in Terminal /\ rec.ended /\ rec'.attempt = rec.attempt
         => rec'.status = rec.status

LEMMA ResultInit == Init => ResultInv
<1> SUFFICES ASSUME Init PROVE ResultInv
  OBVIOUS
<1>1. ~New.ended
  BY DEF New
<1>2. rec = New /\ \A p \in Procs : sup[p].run = New /\ sup[p].at \in {"top", "unused"}
  BY DEF Init
<1> QED
  BY <1>1, <1>2 DEF ResultInv, ResultOf, Ending

LEMMA ResultSuffice ==
  ASSUME TypeInv, OrderInv, ResultInv, NEW p \in Procs, Steps(p), ResultOf(p)'
  PROVE  ResultInv'
<1>1. Typed(p) /\ Alive(p)
  BY Supervised
<1>2. \A q \in Procs \ {p} : ~Alive(q)' /\ sup'[q] = sup[q]
  BY <1>1, AliveLemma DEF OrderInv, Typed
<1>3. ASSUME NEW q \in Procs \ {p} PROVE ResultOf(q)'
  BY <1>2, AliveLemma DEF ResultOf, Open, Ending
<1> QED
  BY <1>3 DEF ResultInv

LEMMA ResultSteps ==
  ASSUME Faulty \subseteq {Launcher}, TypeInv, OrderInv, KillInv, ResultInv,
         NEW p \in Procs, Steps(p)
  PROVE  ResultInv' /\ ResultKept
<1>1. /\ Alive(p) /\ rec \in Record /\ rec' \in Record /\ sup[p].run \in Record
      /\ sup[p].run.attempt = rec.attempt /\ rec.attempt \in Nat /\ rec # Gone
      /\ rec'.attempt >= rec.attempt
  <2>1. Alive(p) /\ rec \in Record /\ rec' \in Record /\ rec'.attempt >= rec.attempt
    BY Supervised
  <2>2. sup[p].run \in Record /\ sup[p].run.attempt = rec.attempt
    BY <2>1, SupLemma DEF OrderInv
  <2>3. rec.attempt \in Nat /\ rec # Gone
    BY <2>1, FieldLemma, RunAssumption
  <2> QED
    BY <2>1, <2>2, <2>3
<1>2. ResultOf(p) /\ (p # Launcher => sup[p].at # "failed")
                  /\ (p = Launcher => sup[p].at # "reporting")
  BY DEF ResultInv, KillInv
<1> SUFFICES /\ ResultOf(p)'
             /\ rec.status \in Terminal /\ rec.ended /\ rec'.attempt = rec.attempt
                  => rec'.status = rec.status
  BY <1>1, ResultSuffice DEF ResultKept
<1>3. ASSUME NEW r \in Record, rec' = Saved(r), r.attempt \in {rec.attempt, rec.attempt + 1}
      PROVE  /\ rec'.attempt = r.attempt /\ rec'.ended = r.ended
             /\ rec'.status = IF rec.status = "aborted" THEN "aborted" ELSE r.status
  BY <1>1, <1>3, SavedLemma
<1>4. ASSUME NEW at \in Stages, Checks(p, at), p \notin worker,
             sup[p].at \in {"top", "started", "checked", "planning", "continuing"},
             at \notin {"failed", "reporting"},
             at \in Ending => sup[p].at \in Ending
      PROVE  ResultOf(p)' /\ rec' = rec
  <2>1. "aborted" \in Terminal /\ Open(p)
    BY <1>1, <1>4 DEF Terminal, Open
  <2> QED
    BY <1>2, <1>4, <2>1, ChecksEffect, AliveLemma DEF Sets, ResultOf, Open
<1>5. CASE Top(p) \/ Started(p) \/ Checked(p) \/ Plan(p)
  <2>1. p \notin worker
    BY <1>5, SupLemma DEF Top, Started, Checked, Plan
  <2>2. PICK at \in Stages : Checks(p, at) /\ at \notin {"failed", "reporting"}
                             /\ (at \in Ending => sup[p].at \in Ending)
    BY <1>5 DEF Top, Started, Checked, Plan, Stages, Ending
  <2>3. sup[p].at \in {"top", "started", "checked", "planning", "continuing"}
    BY <1>5 DEF Top, Started, Checked, Plan
  <2> QED
    BY <1>4, <2>1, <2>2, <2>3
<1>6. CASE Continue(p)
  <2>1. p \notin worker /\ {"moving", "closing"} \subseteq Stages /\ sup[p].at = "continuing"
    BY <1>6, SupLemma DEF Continue, Stages
  <2>2. CASE Go(p, "closing") /\ UNCHANGED <<rec, worker>>
    BY <1>1, <1>2, <2>1, <2>2, GoSets, AliveLemma DEF Sets, ResultOf, Open, Ending
  <2>3. CASE Checks(p, "moving")
    BY <1>4, <2>1, <2>3 DEF Ending
  <2> QED
    BY <1>6, <2>2, <2>3 DEF Continue
<1>7. CASE Start(p)
  <2>1. PICK r \in Record : /\ rec' = Saved(r) /\ r.attempt = sup[p].run.attempt /\ ~r.ended
    BY <1>7, StartEffect
  <2>2. sup[p].at = "starting" /\ Open(p) /\ ~rec'.ended
    BY <1>1, <1>3, <1>7, <2>1 DEF Start, Open
  <2> QED
    BY <1>1, <1>2, <1>3, <1>7, <2>1, <2>2, StartEffect, AliveLemma
    DEF Sets, ResultOf, Open, Ending
<1>8. CASE Spawn(p)
  <2>1. sup[p].at = "launching" /\ Open(p)
    BY <1>1, <1>8 DEF Spawn, Open
  <2> QED
    BY <1>2, <1>8, <2>1, SpawnEffect, AliveLemma DEF Sets, ResultOf, Open, Ending
<1>9. CASE RecordSpawn(p)
  <2>1. sup[p].at = "spawned" /\ Open(p) /\ ~rec'.ended
    BY <1>1, <1>2, <1>3, <1>9, RecordSpawnEffect DEF RecordSpawn, Open, ResultOf
  <2> QED
    BY <1>1, <1>2, <1>3, <1>9, <2>1, RecordSpawnEffect, AliveLemma
    DEF Sets, ResultOf, Open, Ending
<1>10. CASE CannotStart(p) \/ Watch(p) \/ Expire(p)
  <2>1. Open(p)
    BY <1>1, <1>10, AttemptEnds DEF Open
  <2> QED
    BY <1>2, <1>10, <2>1, AttemptEnds, AliveLemma DEF Sets, ResultOf, Open, Ending
<1>11. CASE SaveEnd(p)
  <2>1. sup[p].at = "ended" /\ Open(p) /\ ~rec'.ended /\ rec'.attempt = rec.attempt
    BY <1>1, <1>2, <1>3, <1>11, SaveEndEffect DEF SaveEnd, Open, ResultOf
  <2> QED
    BY <1>1, <1>2, <1>3, <1>11, <2>1, SaveEndEffect, AliveLemma
    DEF Sets, ResultOf, Open, Ending
<1>12. CASE Move(p)
  <2>1. PICK r \in Record : /\ rec' = Saved(r) /\ r.attempt = sup[p].run.attempt + 1 /\ ~r.ended
    BY <1>12, MoveEffect
  <2>2. ~rec'.ended /\ rec'.attempt = rec.attempt + 1
    BY <1>1, <1>3, <2>1
  <2> QED
    BY <1>1, <1>12, <2>2, MoveEffect DEF Sets, ResultOf, Open, Ending
<1>13. CASE Finish(p)
  <2>1. sup[p].at = "closing" /\ Open(p) /\ sup[p].status \in Terminal
    BY <1>1, <1>2, <1>13 DEF Finish, Open, ResultOf, Ending
  <2>2. rec'.status = IF rec.status = "aborted" THEN "aborted" ELSE sup[p].status
    BY <1>1, <1>13, FinishEffect, FinalLemma, SupLemma
  <2>3. rec'.status \in Terminal
    BY <2>1, <2>2 DEF Terminal
  <2> QED
    BY <1>2, <1>13, <2>1, <2>2, <2>3, FinishEffect, AliveLemma DEF Sets, ResultOf, Open, Ending
<1>14. CASE Report(p)
  <2>1. PICK r \in Record : /\ rec' = Saved(r) /\ r.attempt = sup[p].run.attempt
                            /\ r.status = sup[p].status
    BY <1>14, ReportEffect
  <2>2. rec'.status = rec.status
    BY <1>1, <1>2, <1>3, <1>14, <2>1 DEF Report, ResultOf
  <2> QED
    BY <1>14, <2>2, ReportEffect, AliveLemma DEF Sets, ResultOf, Open, Ending
<1>15. CASE GiveUp(p)
  <2>1. p = Launcher /\ Open(p)
    BY <1>1, <1>2, <1>15 DEF GiveUp, Open
  <2>2. rec.status = "aborted" => Failed(rec, p).status = "aborted"
    BY <1>1, <2>1, FailedLemma DEF Interrupted
  <2> QED
    BY <1>2, <1>15, <2>1, <2>2, GiveUpEffect, AliveLemma DEF Sets, ResultOf, Open, Ending
<1>16. CASE StoreFails(p)
  <2>1. p = Launcher /\ Open(p)
    BY <1>1, <1>2, <1>16 DEF StoreFails, Open
  <2> QED
    BY <1>2, <1>16, <2>1, StoreFailsEffect, AliveLemma DEF Sets, ResultOf, Open, Ending
<1> QED
  BY <1>5, <1>6, <1>7, <1>8, <1>9, <1>10, <1>11, <1>12, <1>13, <1>14, <1>15, <1>16
  DEF Steps, Supervise

LEMMA ResultStep ==
  ASSUME Patient, Faulty \subseteq {Launcher}
  PROVE  TypeInv /\ OrderInv /\ KillInv /\ ResultInv /\ [Next]_vars
           => ResultInv' /\ ResultKept
<1> SUFFICES ASSUME TypeInv, OrderInv, KillInv, ResultInv, [Next]_vars
             PROVE  ResultInv' /\ ResultKept
  OBVIOUS
<1>1. ASSUME NEW p \in Procs, Steps(p) PROVE ResultInv' /\ ResultKept
  BY <1>1, ResultSteps
<1>2. ASSUME NEW p \in Procs, Rerun(p) PROVE ResultInv' /\ ResultKept
  <2>1. \A q \in Procs : ~Alive(q)
    BY <1>2 DEF Rerun, MayWrite
  <2>2. /\ rec \in Record /\ rec' \in Record /\ ~rec'.ended /\ rec'.status = "running"
        /\ rec'.attempt = rec.attempt + 1 /\ sup'[p].run = rec' /\ sup'[p].at = "top"
        /\ \A q \in Procs \ {p} : sup'[q] = sup[q] /\ ~Alive(q)'
    BY <1>2, <2>1, RerunEffect, AliveLemma DEF Sets, Typed
  <2>3. rec.attempt \in Nat
    BY <2>2, FieldLemma
  <2>4. ASSUME NEW q \in Procs PROVE ResultOf(q)'
    BY <2>2, AliveLemma DEF ResultOf, Open, Ending
  <2> QED
    BY <2>2, <2>3, <2>4 DEF ResultInv, ResultKept
<1>3. CASE \/ \E p \in Procs : WorkerExit(p) \/ Crash(p)
           \/ KillMark \/ KillSend \/ KillClear \/ BeginAck \/ Ack \/ BeginClean \/ Clean
           \/ UNCHANGED vars
  <2>1. \A q \in Procs : \/ sup'[q].at = sup[q].at /\ sup'[q].run = sup[q].run
                              /\ sup'[q].status = sup[q].status
                         \/ sup'[q].at = "dead"
    BY <1>3, CommandsLemma
  <2>2. rec # Gone => rec \in Record /\ rec.attempt \in Nat
    BY SupLemma, FieldLemma
  <2>3. CASE rec' = rec \/ (rec \in Record /\ rec' \in Record /\ Same(rec', rec))
    <3>1. rec'.status = rec.status /\ rec'.ended = rec.ended /\ rec'.attempt = rec.attempt
      BY <2>3 DEF Same
    <3>2. ASSUME NEW q \in Procs PROVE ResultOf(q)'
      BY <2>1, <3>1, AliveLemma DEF ResultInv, ResultOf, Open, Ending
    <3> QED
      BY <2>2, <3>1, <3>2 DEF ResultInv, ResultKept
  <2>4. CASE /\ rec \in Record /\ rec' \in Record /\ rec'.attempt = rec.attempt
             /\ rec.status = "running" /\ rec'.status = "aborted" /\ rec'.killed /\ rec'.ended
    <3>1. rec.status \notin Terminal
      BY <2>4 DEF Terminal
    <3>2. ASSUME NEW q \in Procs PROVE ResultOf(q)'
      BY <2>1, <2>4, <3>1, AliveLemma DEF ResultInv, ResultOf, Open, Ending
    <3> QED
      BY <2>2, <2>4, <3>1, <3>2 DEF ResultInv, ResultKept
  <2>5. CASE rec' = Gone /\ \A q \in Procs : ~Alive(q)
    <3>1. ASSUME NEW q \in Procs PROVE ResultOf(q)'
      BY <2>1, <2>5, AliveLemma DEF ResultOf, Open, Ending
    <3> QED
      BY <2>5, <3>1 DEF ResultInv, ResultKept
  <2> QED
    BY <1>3, <2>3, <2>4, <2>5, CommandsLemma
<1> QED
  BY <1>1, <1>2, <1>3 DEF Next, Steps

(* What is recorded stands: no copy puts an older attempt over a newer     *)
(* one, or another result over one that was recorded with its end, and the *)
(* record is removed only when nobody works at the run (save_terminal,     *)
(* save_preserving_control_markers, clean_run).                            *)
THEOREM ResultsStand ==
  ASSUME Patient, Obedient, SafeSpawn, Faulty \subseteq {Launcher}
  PROVE  Spec => ResultStands
<1>1. ASSUME TypeInv, OrderInv, WorkInv, rec # Gone, rec' = Gone, [Next]_vars
      PROVE  worker = {} /\ \A p \in Procs : ~Alive(p)
  <2>1. rec \in Record
    BY <1>1, SupLemma
  <2>2. ASSUME NEW p \in Procs, Steps(p) PROVE FALSE
    BY <1>1, <2>2, Supervised, RunAssumption
  <2>3. ASSUME NEW p \in Procs, Rerun(p) PROVE FALSE
    BY <1>1, <2>3, RerunEffect, RunAssumption
  <2>4. rec' # rec /\ rec' \notin Record
    BY <1>1, <2>1, RunAssumption
  <2>5. janitor = "clean" /\ \A p \in Procs : ~Alive(p)
    BY <1>1, <2>2, <2>3, <2>4, CommandsLemma DEF Next, Steps
  <2> QED
    BY <1>1, <2>5 DEF WorkInv
<1>2. TypeInv /\ OrderInv /\ WorkInv /\ KillInv /\ ResultInv /\ [Next]_vars
        => [rec # Gone =>
              IF rec' = Gone THEN worker = {} /\ \A p \in Procs : ~Alive(p)
              ELSE /\ rec'.attempt >= rec.attempt
                   /\ rec.status \in Terminal /\ rec.ended /\ rec'.attempt = rec.attempt
                        => rec'.status = rec.status]_rec
  BY <1>1, ResultStep DEF ResultKept
<1> QED
  BY <1>2, TypeInit, TypeStep, OrderInit, OrderStep, WorkInit, WorkStep, KillInit, KillStep,
     ResultInit, ResultStep, PTL DEF Spec, ResultStands

-----------------------------------------------------------------------------
(***************************************************************************)
(* SelfHeal: a repair has an attempt of its own, waits for the one before  *)
(* it, and never takes over a run that somebody supervises.                *)
(***************************************************************************)

(* A repair under way has its place in the batch, an action and a number   *)
(* of its own.                                                             *)
RepairInv ==
  \A h \in Healers : heal[h].run # Nil =>
    /\ heal[h].used < MaxBatch
    /\ heal[h].action \in Actions
    /\ heal[h].attempt >= 1
    /\ heal[h].attempt <= ledger[heal[h].run].attempts

AloneInv ==
  \A g, h \in Healers :
    g # h /\ heal[g].run # Nil /\ heal[g].run = heal[h].run => heal[g].attempt # heal[h].attempt

Doing(r, a) == {h \in Healers : heal[h].run = r /\ heal[h].action = a}
FlightInv ==
  \A r \in Runs, a \in Actions :
    /\ ledger[r].flight[a] >= Cardinality(Doing(r, a))
    /\ count.crashes = 0 => ledger[r].flight[a] = Cardinality(Doing(r, a))

(* A run that was never reserved has nothing to wait for.                  *)
FreshInv ==
  \A r \in Runs :
    ledger[r].attempts = 0 => due[r] = 0 /\ \A a \in Actions : ledger[r].flight[a] = 0

HealInv == HealTypeOK /\ RepairInv /\ AloneInv /\ FlightInv /\ FreshInv

-----------------------------------------------------------------------------
LEMMA Fields ==
  ASSUME HealTypeOK
  PROVE  /\ now \in 0 .. Horizon /\ now \in Nat
         /\ run \in [Runs -> RunRecord] /\ \A r \in Runs : run[r] \in RunRecord
         /\ ledger \in [Runs -> Entry] /\ \A r \in Runs : ledger[r] \in Entry
         /\ heal \in [Healers -> Healing] /\ \A h \in Healers : heal[h] \in Healing
         /\ due \in [Runs -> Int]
         /\ \A h \in Healers :
              heal[h].at \notin {"idle", "looking"} => heal[h].run \in Runs /\ heal[h].run # Nil
         /\ \A h \in Healers :
              heal[h].at \in {"idle", "looking"} => heal[h].run = Nil
<1>1. Horizon \in Nat
  BY HealAssumption
<1>2. now \in 0 .. Horizon /\ run \in [Runs -> RunRecord] /\ ledger \in [Runs -> Entry]
      /\ heal \in [Healers -> Healing] /\ due \in [Runs -> Int]
  BY DEF HealTypeOK
<1>3. ASSUME NEW h \in Healers
      PROVE  heal[h].run \in Runs \cup {Nil} /\ (heal[h].at \in {"idle", "looking"} <=> heal[h].run = Nil)
  BY <1>2 DEF HealTypeOK, Linked, Healing
<1> QED
  BY <1>1, <1>2, <1>3

LEMMA Reserved ==
  ASSUME NEW x \in Healing, NEW left \in SUBSET Runs, NEW r \in Runs, NEW a \in Actions,
         NEW at \in {"killing", "starting"}, NEW n \in 0 .. MaxAttempts
  PROVE  [x EXCEPT !.left = left, !.run = r, !.action = a, !.at = at, !.attempt = n] \in Healing
BY DEF Healing

LEMMA Completed ==
  ASSUME NEW x \in Healing, x.used + 1 \in 0 .. MaxBatch
  PROVE  [x EXCEPT !.at = "looking", !.used = @ + 1, !.run = Nil, !.action = Nil, !.attempt = 0]
           \in Healing
<1>1. 0 \in 0 .. MaxAttempts
  BY HealAssumption
<1> QED
  BY <1>1 DEF Healing

LEMMA IdleType == Idle \in Healing /\ Idle.run = Nil /\ Idle.at = "idle"
BY HealAssumption DEF Idle, Healing, EndStates

(* What the steps make of the record of a run.                             *)
LEMMA StoppedRun ==
  ASSUME HealTypeOK, NEW r \in Runs, NEW killed \in BOOLEAN
  PROVE  LET new == Stopped(r, killed)
         IN  /\ new \in [Runs -> RunRecord] /\ new[r].by = Nil /\ ~new[r].worker
             /\ \A q \in Runs \ {r} : new[q] = run[q]
<1>1. now \in 0 .. Horizon /\ run \in [Runs -> RunRecord] /\ run[r] \in RunRecord
  BY Fields
<1>2. [run[r] EXCEPT !.worker = FALSE, !.by = Nil] \in RunRecord
  BY <1>1 DEF RunRecord
<1>3. [status |-> "aborted", ended |-> now, by |-> Nil, worker |-> FALSE, killed |-> killed]
       \in RunRecord
  BY <1>1 DEF RunRecord, EndStates
<1>4. CASE run[r].status # "running"
  BY <1>1, <1>2, <1>4 DEF Stopped, RunRecord
<1>5. CASE run[r].status = "running"
  BY <1>1, <1>3, <1>5 DEF Stopped
<1> QED
  BY <1>4, <1>5

LEMMA StartedRun ==
  ASSUME HealTypeOK, NEW r \in Runs, NEW by \in Healers \cup {"user"}
  PROVE  LET new == Launched(r, by)
         IN  /\ new \in [Runs -> RunRecord] /\ new[r].by = by /\ new[r].worker
             /\ \A q \in Runs \ {r} : new[q] = run[q]
<1>1. now \in 0 .. Horizon /\ run \in [Runs -> RunRecord]
  BY Fields
<1>2. [status |-> "running", ended |-> now, by |-> by, worker |-> TRUE, killed |-> FALSE] \in RunRecord
  BY <1>1 DEF RunRecord
<1> QED
  BY <1>1, <1>2 DEF Launched

LEMMA EndedRun ==
  ASSUME HealTypeOK, NEW r \in Runs, NEW status \in Outcomes
  PROVE  LET new == Ended(r, status)
         IN  /\ new \in [Runs -> RunRecord] /\ new[r].by = Nil /\ ~new[r].worker
             /\ \A q \in Runs \ {r} : new[q] = run[q]
<1>1. now \in 0 .. Horizon /\ run \in [Runs -> RunRecord] /\ run[r] \in RunRecord
  BY Fields
<1>2. status \in EndStates
  BY HealAssumption DEF EndStates
<1>3. [run[r] EXCEPT !.status = status, !.ended = now, !.by = Nil, !.worker = FALSE] \in RunRecord
  BY <1>1, <1>2 DEF RunRecord
<1> QED
  BY <1>1, <1>3 DEF Ended, RunRecord

LEMMA DeadRun ==
  ASSUME HealTypeOK, NEW h \in Healers, NEW works \in BOOLEAN,
         run' = [r \in Runs |->
                             IF run[r].by = h THEN [run[r] EXCEPT !.by = Nil, !.worker = works] ELSE run[r]]
  PROVE  /\ run' \in [Runs -> RunRecord]
         /\ \A r \in Runs : IF run[r].by = h THEN run'[r].by = Nil ELSE run'[r] = run[r]
<1>1. \A r \in Runs : run[r] \in RunRecord
  BY Fields
<1>2. \A r \in Runs : [run[r] EXCEPT !.by = Nil, !.worker = works] \in RunRecord
  BY <1>1 DEF RunRecord
<1>3. \A r \in Runs : [run[r] EXCEPT !.by = Nil, !.worker = works].by = Nil
  BY <1>1 DEF RunRecord
<1> QED
  BY <1>1, <1>2, <1>3

LEMMA ExitedRun ==
  ASSUME HealTypeOK, NEW r \in Runs
  PROVE  LET new == [run EXCEPT ![r].worker = FALSE]
         IN  /\ new \in [Runs -> RunRecord] /\ new[r].by = run[r].by
             /\ \A q \in Runs \ {r} : new[q] = run[q]
BY Fields DEF RunRecord

(* How far a repair is.                                                    *)
HealStages == {"idle", "looking", "killing", "starting", "working", "ending"}
LEMMA Onward ==
  ASSUME HealTypeOK, NEW h \in Healers, NEW at \in HealStages, heal' = [heal EXCEPT ![h].at = at]
  PROVE  /\ heal' \in [Healers -> Healing]
         /\ heal'[h].at = at /\ \A f \in {"run", "action", "attempt", "used"} : heal'[h][f] = heal[h][f]
         /\ \A g \in Healers \ {h} : heal'[g] = heal[g]
<1>1. heal \in [Healers -> Healing] /\ heal[h] \in Healing
  BY Fields
<1>2. [heal[h] EXCEPT !.at = at] \in Healing
  BY <1>1 DEF Healing, HealStages
<1> QED
  BY <1>1, <1>2 DEF Healing

LEMMA ActionType ==
  ASSUME NEW s
  PROVE  ActionFor(s) \in Actions \cup {Nil} /\ (ActionFor(s) # Nil => ActionFor(s) \in Actions)
BY DEF ActionFor, Actions

LEMMA BackoffType ==
  ASSUME NEW n \in Nat, n >= 1
  PROVE  Backoff(n) \in Int
<1>1. n - 1 \in Nat
  OBVIOUS
<1>2. 2 ^ (n - 1) \in Int
  BY <1>1, SMT
<1>3. InitialBackoff * 2 ^ (n - 1) \in Int
  BY <1>2, HealAssumption
<1> QED
  BY <1>3, HealAssumption DEF Backoff, Least

LEMMA CountStep ==
  ASSUME HealTypeOK, NEW what \in Counted,
         NEW bound, May(what, bound)
  PROVE  /\ count' \in [Counted -> Nat]
         /\ count'.crashes = 0 => count.crashes = 0 /\ what # "crashes"
BY DEF May, HealTypeOK, Counted


LEMMA DoingFinite ==
  ASSUME NEW r, NEW a
  PROVE  /\ IsFiniteSet(Doing(r, a)) /\ Cardinality(Doing(r, a)) \in Nat
         /\ \A h \in Doing(r, a) : Cardinality(Doing(r, a)) >= 1
<1>1. IsFiniteSet(Doing(r, a)) /\ Doing(r, a) \in SUBSET Healers
  BY HealAssumption, FS_Subset DEF Doing
<1> QED
  BY <1>1, FS_CardinalityType, FS_EmptySet

LEMMA InitInv == HealInit => HealInv
<1> SUFFICES ASSUME HealInit PROVE HealInv
  OBVIOUS
<1>1. now \in 0 .. Horizon /\ \A h \in Healers : heal[h] = Idle
  BY HealAssumption DEF HealInit
<1>2. run \in [Runs -> RunRecord] /\ \A r \in Runs : run[r].by = Nil
  <2>1. ASSUME NEW s \in Broken
        PROVE  [status |-> s, ended |-> 0, by |-> Nil, worker |-> s = "running", killed |-> FALSE]
              \in RunRecord
    BY HealAssumption DEF RunRecord
  <2> QED
    BY <2>1 DEF HealInit
<1>3. ledger \in [Runs -> Entry] /\ due \in [Runs -> Int]
  BY HealAssumption DEF HealInit, Entry
<1>4. heal \in [Healers -> Healing]
  BY IdleType DEF HealInit
<1>5. count \in [Counted -> Nat]
  BY DEF HealInit, Counted
<1>6. HealTypeOK
  BY <1>1, <1>2, <1>3, <1>4, <1>5, IdleType, HealAssumption DEF HealTypeOK, Linked
<1>7. RepairInv /\ AloneInv /\ FreshInv
  BY <1>1, IdleType DEF HealInit, RepairInv, AloneInv, FreshInv
<1>8. FlightInv
  <2> SUFFICES ASSUME NEW r \in Runs, NEW a \in Actions
               PROVE  ledger[r].flight[a] = 0 /\ Cardinality(Doing(r, a)) = 0
    BY DEF FlightInv
  <2>1. Doing(r, a) = {}
    BY <1>1, IdleType, HealAssumption DEF Doing
  <2> QED
    BY <2>1, FS_EmptySet DEF HealInit
<1> QED
  BY <1>6, <1>7, <1>8 DEF HealInv

(* Only a reservation begins a repair, and only a completion or a crash    *)
(* ends one.                                                               *)
LEMMA HealTypeStep ==
  ASSUME HealInv, [HealNext]_healVars
  PROVE  HealTypeOK'
<1> USE Fields DEF HealInv
<1>1. ASSUME NEW h \in Healers, Begin(h) PROVE HealTypeOK'
  <2>1. [Idle EXCEPT !.at = "looking", !.now = now, !.left = Runs,
                !.seen = [r \in Runs |-> run[r].status]] \in Healing
    BY IdleType DEF Healing, RunRecord, Idle
  <2>2. heal' \in [Healers -> Healing]
    BY <1>1, <2>1 DEF Begin
  <2>3. count' \in [Counted -> Nat]
    BY <1>1, CountStep DEF Begin, Counted
  <2> QED
    BY <1>1, <2>2, <2>3, IdleType DEF Begin, HealTypeOK, Linked
<1>2. ASSUME NEW h \in Healers, Skip(h) PROVE HealTypeOK'
  <2>1. PICK r \in heal[h].left : heal' = [heal EXCEPT ![h].left = @ \ {r}]
    BY <1>2 DEF Skip
  <2>2. heal' \in [Healers -> Healing]
    <3>1. [heal[h] EXCEPT !.left = @ \ {r}] \in Healing
      BY DEF Healing
    <3> QED
      BY <2>1, <3>1
  <2> QED
    BY <1>2, <2>1, <2>2 DEF Skip, HealTypeOK, Linked, Healing
<1>3. ASSUME NEW h \in Healers, Reserve(h) PROVE HealTypeOK'
  <2> DEFINE status(r) == EffectiveStatus(heal[h].seen[r], r)
             attempt(r) == ledger[r].attempts + 1
  <2>1. PICK r \in heal[h].left :
          /\ Heals(h, r) /\ Eligible(h, r)
          /\ heal' = [heal EXCEPT ![h].left = @ \ {r}, ![h].run = r, ![h].action = ActionFor(status(r)),
                        ![h].at = IF status(r) = "orphaned" THEN "killing" ELSE "starting",
                        ![h].attempt = attempt(r)]
          /\ ledger' = [ledger EXCEPT ![r].attempts = attempt(r),
                                      ![r].next = heal[h].now + Backoff(attempt(r)),
                                      ![r].flight[ActionFor(status(r))] = @ + 1]
          /\ due' = [due EXCEPT ![r] = now + Backoff(attempt(r))]
          /\ heal[h].at = "looking" /\ UNCHANGED <<now, run, count>>
    BY <1>3 DEF Reserve
  <2>2. r \in Runs /\ ActionFor(status(r)) \in Actions
    BY <2>1, ActionType DEF Healing, Heals
  <2>3. attempt(r) \in 1 .. MaxAttempts
    BY <2>1, <2>2, HealAssumption DEF Eligible, Entry
  <2>4. Backoff(attempt(r)) \in Int
    BY <2>3, BackoffType
  <2> HIDE DEF status, attempt
  <2>5. heal' \in [Healers -> Healing]
    <3>1. heal[h].left \ {r} \in SUBSET Runs /\ attempt(r) \in 0 .. MaxAttempts
          /\ (IF status(r) = "orphaned" THEN "killing" ELSE "starting") \in {"killing", "starting"}
      BY <2>2, <2>3 DEF Healing
    <3> QED
      BY <2>1, <2>2, <3>1, Reserved
  <2>6. ledger' \in [Runs -> Entry] /\ due' \in [Runs -> Int]
    BY <2>1, <2>2, <2>3, <2>4 DEF Entry, Healing
  <2>7. /\ heal'[h].run = r /\ heal'[h].at \in {"killing", "starting"}
        /\ \A g \in Healers \ {h} : heal'[g] = heal[g]
    BY <2>1 DEF Healing
  <2>8. \A q \in Runs : run[q].by # h
    BY <2>1 DEF Linked, HealTypeOK
  <2>9. Linked'
    BY <2>1, <2>2, <2>7, <2>8, HealAssumption DEF HealTypeOK, Linked
  <2> QED
    BY <2>1, <2>5, <2>6, <2>9 DEF HealTypeOK
<1>4. ASSUME NEW h \in Healers, KillOrphan(h) PROVE HealTypeOK'
  <2>1. heal[h].run \in Runs /\ heal[h].run # Nil
    BY <1>4 DEF KillOrphan
  <2>2. run[heal[h].run].killed \in BOOLEAN
    BY <2>1 DEF RunRecord
  <2>3. /\ run' \in [Runs -> RunRecord] /\ run'[heal[h].run].by = Nil
        /\ \A q \in Runs \ {heal[h].run} : run'[q] = run[q]
    BY <1>4, <2>1, <2>2, StoppedRun DEF KillOrphan
  <2>4. /\ heal' \in [Healers -> Healing] /\ heal'[h].at = "starting" /\ heal'[h].run = heal[h].run
        /\ \A g \in Healers \ {h} : heal'[g] = heal[g]
    BY <1>4, Onward DEF KillOrphan, HealStages
  <2>5. \A q \in Runs : run'[q].by # Nil => q # heal[h].run /\ run'[q] = run[q]
    BY <2>3
  <2>6. \A q \in Runs : run[q].by # h
    BY <1>4 DEF KillOrphan, Linked, HealTypeOK
  <2>7. Linked'
    <3>1. \A q \in Runs : run'[q].by \in Healers => run'[q].by # Nil /\ run'[q].by # h
      BY <2>5, <2>6, HealAssumption
    <3>2. \A q \in Runs : run'[q].by # Nil => run'[q].worker
      BY <2>5 DEF Linked, HealTypeOK
    <3>3. \A q \in Runs : run'[q].by \in Healers =>
            heal'[run'[q].by].at = "working" /\ heal'[run'[q].by].run = q
      BY <2>4, <2>5, <3>1 DEF Linked, HealTypeOK
    <3>4. \A g \in Healers : heal'[g].at \in {"idle", "looking"} <=> heal'[g].run = Nil
      BY <1>4, <2>1, <2>4 DEF KillOrphan, Linked, HealTypeOK
    <3> QED
      BY <3>2, <3>3, <3>4 DEF Linked
  <2> QED
    BY <1>4, <2>3, <2>4, <2>7 DEF KillOrphan, HealTypeOK
<1>5. ASSUME NEW h \in Healers, StartRun(h) PROVE HealTypeOK'
  <2>1. heal[h].run \in Runs /\ heal[h].run # Nil
    BY <1>5 DEF StartRun
  <2>2. CASE Live(heal[h].run)
    <3>1. /\ heal' \in [Healers -> Healing] /\ heal'[h].at = "ending" /\ heal'[h].run = heal[h].run
          /\ \A g \in Healers \ {h} : heal'[g] = heal[g]
      BY <1>5, <2>2, Onward DEF StartRun, HealStages
    <3>2. Linked'
      BY <1>5, <2>1, <2>2, <3>1 DEF StartRun, Linked, HealTypeOK
    <3> QED
      BY <1>5, <2>2, <3>1, <3>2 DEF StartRun, HealTypeOK
  <2>3. CASE ~Live(heal[h].run)
    <3>1. /\ heal' \in [Healers -> Healing] /\ heal'[h].at = "working" /\ heal'[h].run = heal[h].run
          /\ \A g \in Healers \ {h} : heal'[g] = heal[g]
      BY <1>5, <2>3, Onward DEF StartRun, HealStages
    <3>2. /\ run' \in [Runs -> RunRecord] /\ run'[heal[h].run].by = h /\ run'[heal[h].run].worker
          /\ \A q \in Runs \ {heal[h].run} : run'[q] = run[q]
      BY <1>5, <2>1, <2>3, StartedRun DEF StartRun
    <3>3. Linked'
      BY <1>5, <2>1, <3>1, <3>2, HealAssumption DEF StartRun, Linked, HealTypeOK
    <3> QED
      BY <1>5, <2>3, <3>1, <3>2, <3>3 DEF StartRun, HealTypeOK
  <2> QED
    BY <2>2, <2>3
<1>6. ASSUME NEW h \in Healers, StartFails(h) PROVE HealTypeOK'
  <2>1. /\ heal' \in [Healers -> Healing] /\ heal'[h].at = "ending" /\ heal'[h].run = heal[h].run
        /\ \A g \in Healers \ {h} : heal'[g] = heal[g]
    BY <1>6, Onward DEF StartFails, HealStages
  <2>2. count' \in [Counted -> Nat]
    BY <1>6, CountStep DEF StartFails, Counted
  <2>3. Linked'
    BY <1>6, <2>1 DEF StartFails, Linked, HealTypeOK
  <2> QED
    BY <1>6, <2>1, <2>2, <2>3 DEF StartFails, HealTypeOK
<1>7. ASSUME NEW h \in Healers, Works(h) PROVE HealTypeOK'
  <2>1. heal[h].run \in Runs /\ heal[h].run # Nil
    BY <1>7 DEF Works
  <2>2. /\ heal' \in [Healers -> Healing] /\ heal'[h].at = "ending" /\ heal'[h].run = heal[h].run
        /\ \A g \in Healers \ {h} : heal'[g] = heal[g]
    BY <1>7, Onward DEF Works, HealStages
  <2>3. CASE run[heal[h].run].by = h
    <3>1. /\ run' \in [Runs -> RunRecord] /\ run'[heal[h].run].by = Nil
          /\ \A q \in Runs \ {heal[h].run} : run'[q] = run[q]
      BY <1>7, <2>1, <2>3, EndedRun DEF Works
    <3>2. Linked'
      BY <1>7, <2>1, <2>2, <3>1, HealAssumption DEF Works, Linked, HealTypeOK
    <3> QED
      BY <1>7, <2>2, <3>1, <3>2 DEF Works, HealTypeOK
  <2>4. CASE run[heal[h].run].by # h
    <3>1. run' = run /\ Linked'
      BY <1>7, <2>1, <2>2, <2>4 DEF Works, Linked, HealTypeOK
    <3> QED
      BY <1>7, <2>2, <3>1 DEF Works, HealTypeOK
  <2> QED
    BY <2>3, <2>4
<1>8. ASSUME NEW h \in Healers, Complete(h) PROVE HealTypeOK'
  <2>1. heal[h].run \in Runs /\ heal[h].action \in Actions /\ heal[h].used < MaxBatch
    BY <1>8, HealAssumption DEF Complete, RepairInv
  <2> DEFINE flight == ledger[heal[h].run].flight[heal[h].action]
  <2>2. flight \in Nat /\ flight >= Cardinality(Doing(heal[h].run, heal[h].action))
    BY <2>1 DEF FlightInv, Entry
  <2>3. Cardinality(Doing(heal[h].run, heal[h].action)) >= 1
    BY <2>1, DoingFinite DEF Doing
  <2>4. flight - 1 \in Nat
    BY <2>2, <2>3, DoingFinite
  <2>5. ledger' \in [Runs -> Entry]
    BY <1>8, <2>1, <2>4 DEF Complete, Entry
  <2>6. /\ heal' \in [Healers -> Healing] /\ heal'[h].at = "looking" /\ heal'[h].run = Nil
        /\ \A g \in Healers \ {h} : heal'[g] = heal[g]
    <3>1. heal[h] \in Healing /\ heal[h].used + 1 \in 0 .. MaxBatch
      BY <2>1, HealAssumption DEF Healing
    <3>2. [heal[h] EXCEPT !.at = "looking", !.used = @ + 1, !.run = Nil, !.action = Nil, !.attempt = 0]
            \in Healing
      BY <3>1, Completed
    <3> QED
      BY <1>8, <3>1, <3>2 DEF Complete, Healing
  <2>7. Linked'
    BY <1>8, <2>1, <2>6 DEF Complete, Linked, HealTypeOK
  <2> QED
    BY <1>8, <2>5, <2>6, <2>7 DEF Complete, HealTypeOK
<1>9. ASSUME NEW h \in Healers, End(h) PROVE HealTypeOK'
  BY <1>9, IdleType, HealAssumption DEF End, HealTypeOK, Linked
<1>10. ASSUME NEW h \in Healers, HealerCrash(h) PROVE HealTypeOK'
  <2>1. /\ run' \in [Runs -> RunRecord]
        /\ \A r \in Runs : IF run[r].by = h THEN run'[r].by = Nil ELSE run'[r] = run[r]
    BY <1>10, DeadRun DEF HealerCrash
  <2>2. /\ heal' \in [Healers -> Healing] /\ heal'[h].at = "idle" /\ heal'[h].run = Nil
        /\ \A g \in Healers \ {h} : heal'[g] = heal[g]
    BY <1>10, IdleType DEF HealerCrash
  <2>3. count' \in [Counted -> Nat]
    BY <1>10, CountStep DEF HealerCrash, Counted
  <2>4. Linked'
    BY <2>1, <2>2, HealAssumption DEF Linked, HealTypeOK
  <2> QED
    BY <1>10, <2>1, <2>2, <2>3, <2>4 DEF HealerCrash, HealTypeOK
<1>11. ASSUME NEW r \in Runs, UserKill(r) PROVE HealTypeOK'
  <2>1. /\ run' \in [Runs -> RunRecord] /\ run'[r].by = Nil
        /\ \A q \in Runs \ {r} : run'[q] = run[q]
    BY <1>11, StoppedRun DEF UserKill
  <2>2. count' \in [Counted -> Nat]
    BY <1>11, CountStep DEF UserKill, Counted
  <2>3. \A q \in Runs : run'[q].by # Nil => q # r /\ run'[q] = run[q]
    BY <2>1
  <2>4. heal' = heal
    BY <1>11 DEF UserKill
  <2>5. Nil \notin Healers
    BY HealAssumption
  <2>6. Linked'
    BY <2>3, <2>4, <2>5 DEF Linked, HealTypeOK
  <2> QED
    BY <1>11, <2>1, <2>2, <2>6 DEF UserKill, HealTypeOK
<1>12. ASSUME NEW r \in Runs, UserRun(r) PROVE HealTypeOK'
  <2>1. /\ run' \in [Runs -> RunRecord] /\ run'[r].by = "user" /\ run'[r].worker
        /\ \A q \in Runs \ {r} : run'[q] = run[q]
    BY <1>12, StartedRun DEF UserRun
  <2>2. count' \in [Counted -> Nat]
    BY <1>12, CountStep DEF UserRun, Counted
  <2>3. Linked'
    BY <1>12, <2>1, HealAssumption DEF UserRun, Linked, HealTypeOK
  <2> QED
    BY <1>12, <2>1, <2>2, <2>3 DEF UserRun, HealTypeOK
<1>13. ASSUME NEW r \in Runs, UserRunEnds(r) PROVE HealTypeOK'
  <2>1. /\ run' \in [Runs -> RunRecord] /\ run'[r].by = Nil
        /\ \A q \in Runs \ {r} : run'[q] = run[q]
    BY <1>13, EndedRun DEF UserRunEnds
  <2>2. Linked'
    BY <1>13, <2>1, HealAssumption DEF UserRunEnds, Linked, HealTypeOK
  <2> QED
    BY <1>13, <2>1, <2>2 DEF UserRunEnds, HealTypeOK
<1>14. ASSUME NEW r \in Runs, WorkerExits(r) PROVE HealTypeOK'
  <2>1. /\ run' \in [Runs -> RunRecord] /\ run'[r].by = Nil
        /\ \A q \in Runs \ {r} : run'[q] = run[q]
    BY <1>14, ExitedRun DEF WorkerExits
  <2>2. Linked'
    BY <1>14, <2>1, HealAssumption DEF WorkerExits, Linked, HealTypeOK
  <2> QED
    BY <1>14, <2>1, <2>2 DEF WorkerExits, HealTypeOK
<1>15. CASE Tick
  BY <1>15, HealAssumption DEF Tick, HealTypeOK, Linked
<1>16. CASE UNCHANGED healVars
  BY <1>16 DEF healVars, HealTypeOK, Linked
<1> QED
  BY <1>1, <1>2, <1>3, <1>4, <1>5, <1>6, <1>7, <1>8, <1>9, <1>10, <1>11, <1>12, <1>13, <1>14,
     <1>15, <1>16 DEF HealNext

-----------------------------------------------------------------------------
(* What a step does to the repairs: it reserves one, completes one, loses  *)
(* one with its invocation, or leaves all of them and the ledger alone.    *)
SameHealer(h) ==
  /\ heal'[h].run = heal[h].run
  /\ heal[h].run # Nil => \A f \in {"action", "attempt", "used"} : heal'[h][f] = heal[h][f]
OtherHealers(h) == \A g \in Healers \ {h} : heal'[g] = heal[g]

Reserves(h, r) ==
  /\ heal[h].run = Nil /\ heal'[h].run = r /\ OtherHealers(h)
  /\ Eligible(h, r)
  /\ heal'[h].used = heal[h].used /\ heal[h].used < MaxBatch
  /\ heal'[h].action \in Actions
  /\ heal'[h].attempt = ledger[r].attempts + 1 /\ ledger'[r].attempts = ledger[r].attempts + 1
  /\ ledger'[r].flight = [ledger[r].flight EXCEPT ![heal'[h].action] = @ + 1]
  /\ \A q \in Runs \ {r} : ledger'[q] = ledger[q] /\ due'[q] = due[q]
  /\ count' = count
Completes(h) ==
  /\ heal[h].run \in Runs /\ heal'[h].run = Nil /\ OtherHealers(h)
  /\ ledger' = [ledger EXCEPT ![heal[h].run].flight[heal[h].action] = @ - 1]
  /\ due' = due /\ count' = count
Dies(h) ==
  /\ heal'[h].run = Nil /\ OtherHealers(h)
  /\ ledger' = ledger /\ due' = due /\ count'.crashes # 0
Quiet ==
  /\ \A h \in Healers : SameHealer(h)
  /\ ledger' = ledger /\ due' = due /\ count'.crashes = count.crashes

LEMMA HealSteps ==
  ASSUME HealInv, [HealNext]_healVars
  PROVE  \/ Quiet
         \/ \E h \in Healers : Completes(h) \/ Dies(h) \/ \E r \in Runs : Reserves(h, r)
<1> USE Fields DEF HealInv
<1>1. ASSUME NEW h \in Healers, Begin(h) \/ End(h) PROVE Quiet
  <2>1. heal[h].run = Nil /\ heal'[h].run = Nil /\ \A g \in Healers \ {h} : heal'[g] = heal[g]
    BY <1>1, IdleType DEF Begin, End, Idle
  <2>2. count'.crashes = count.crashes /\ ledger' = ledger /\ due' = due
    BY <1>1 DEF Begin, End, May, HealTypeOK, Counted
  <2> QED
    BY <2>1, <2>2 DEF Quiet, SameHealer
<1>2. ASSUME NEW h \in Healers, Skip(h) PROVE Quiet
  BY <1>2 DEF Skip, Quiet, SameHealer, Healing
<1>3. ASSUME NEW h \in Healers, Reserve(h) PROVE \E r \in Runs : Reserves(h, r)
  <2> DEFINE action(r) == ActionFor(EffectiveStatus(heal[h].seen[r], r))
             at(r) == IF EffectiveStatus(heal[h].seen[r], r) = "orphaned" THEN "killing" ELSE "starting"
  <2>1. PICK r \in heal[h].left :
          /\ Heals(h, r) /\ Eligible(h, r)
          /\ heal' = [heal EXCEPT ![h].left = @ \ {r}, ![h].run = r, ![h].action = action(r),
                        ![h].at = at(r), ![h].attempt = ledger[r].attempts + 1]
          /\ ledger' = [ledger EXCEPT ![r].attempts = ledger[r].attempts + 1,
                                      ![r].next = heal[h].now + Backoff(ledger[r].attempts + 1),
                                      ![r].flight[action(r)] = @ + 1]
          /\ due' = [due EXCEPT ![r] = now + Backoff(ledger[r].attempts + 1)]
          /\ heal[h].at = "looking" /\ UNCHANGED <<now, run, count>>
    BY <1>3 DEF Reserve
  <2>2. r \in Runs /\ action(r) \in Actions /\ heal[h].used < MaxBatch /\ heal[h].run = Nil
    BY <2>1, ActionType DEF Healing, Heals
  <2> HIDE DEF action, at
  <2>3. /\ heal'[h].run = r /\ heal'[h].action = action(r) /\ heal'[h].used = heal[h].used
        /\ heal'[h].attempt = ledger[r].attempts + 1 /\ OtherHealers(h)
    BY <2>1, <2>2 DEF Healing, OtherHealers
  <2>4. /\ ledger'[r].attempts = ledger[r].attempts + 1
        /\ ledger'[r].flight = [ledger[r].flight EXCEPT ![action(r)] = @ + 1]
        /\ \A q \in Runs \ {r} : ledger'[q] = ledger[q] /\ due'[q] = due[q]
    BY <2>1, <2>2 DEF Entry
  <2>5. Reserves(h, r)
    BY <2>1, <2>2, <2>3, <2>4 DEF Reserves
  <2> QED
    BY <2>2, <2>5
<1>4. ASSUME NEW h \in Healers, KillOrphan(h) \/ StartRun(h) \/ Works(h) PROVE Quiet
  <2>1. PICK at \in HealStages : heal' = [heal EXCEPT ![h].at = at]
    BY <1>4 DEF KillOrphan, StartRun, Works, HealStages
  <2>2. \A g \in Healers : SameHealer(g)
    BY <2>1, Onward DEF SameHealer
  <2> QED
    BY <1>4, <2>2 DEF Quiet, KillOrphan, StartRun, Works
<1>5. ASSUME NEW h \in Healers, StartFails(h) PROVE Quiet
  <2>1. \A g \in Healers : SameHealer(g)
    BY <1>5, Onward DEF StartFails, SameHealer, HealStages
  <2> QED
    BY <1>5, <2>1 DEF StartFails, Quiet, May, HealTypeOK, Counted
<1>6. ASSUME NEW h \in Healers, Complete(h) PROVE Completes(h)
  BY <1>6 DEF Complete, Completes, OtherHealers, Healing
<1>7. ASSUME NEW h \in Healers, HealerCrash(h) PROVE Dies(h)
  <2>1. heal'[h].run = Nil /\ OtherHealers(h)
    BY <1>7, IdleType DEF HealerCrash, OtherHealers
  <2>2. count'.crashes # 0
    <3>1. count \in [Counted -> Nat] /\ "crashes" \in Counted
      BY DEF HealTypeOK, Counted
    <3>2. count' = [count EXCEPT !["crashes"] = @ + 1]
      BY <1>7 DEF HealerCrash, May
    <3> QED
      BY <3>1, <3>2
  <2> QED
    BY <1>7, <2>1, <2>2 DEF Dies, HealerCrash
<1>8. ASSUME NEW r \in Runs, UserKill(r) \/ UserRun(r) \/ UserRunEnds(r) \/ WorkerExits(r) PROVE Quiet
  BY <1>8 DEF UserKill, UserRun, UserRunEnds, WorkerExits, Quiet, SameHealer, May, HealTypeOK, Counted
<1>9. CASE Tick \/ UNCHANGED healVars
  BY <1>9 DEF Tick, healVars, Quiet, SameHealer
<1> QED
  BY <1>1, <1>2, <1>3, <1>4, <1>5, <1>6, <1>7, <1>8, <1>9 DEF HealNext

LEMMA RepairStep ==
  ASSUME HealInv, [HealNext]_healVars
  PROVE  RepairInv' /\ AloneInv' /\ FreshInv'
<1> USE DEF HealInv
<1>1. /\ \A r \in Runs : ledger[r] \in Entry /\ ledger[r].attempts \in Nat
      /\ \A h \in Healers : heal[h].run \in Runs \cup {Nil} /\ heal[h].attempt \in Nat
      /\ Nil \notin Runs
  BY Fields, HealAssumption DEF Entry, Healing
<1>2. CASE Quiet
  BY <1>2 DEF Quiet, SameHealer, RepairInv, AloneInv, FreshInv
<1>3. ASSUME NEW h \in Healers, NEW r \in Runs, Reserves(h, r)
      PROVE  RepairInv' /\ AloneInv' /\ FreshInv'
  <2>1. \A q \in Runs : ledger'[q].attempts >= ledger[q].attempts
    BY <1>1, <1>3 DEF Reserves
  <2>2. RepairInv'
    BY <1>1, <1>3, <2>1 DEF Reserves, OtherHealers, RepairInv
  <2>3. AloneInv'
    BY <1>1, <1>3 DEF Reserves, OtherHealers, AloneInv, RepairInv
  <2>4. FreshInv'
    BY <1>1, <1>3 DEF Reserves, FreshInv
  <2> QED
    BY <2>2, <2>3, <2>4
<1>4. ASSUME NEW h \in Healers, Completes(h)
      PROVE  RepairInv' /\ AloneInv' /\ FreshInv'
  <2>1. \A q \in Runs : ledger'[q].attempts = ledger[q].attempts
    BY <1>1, <1>4, Fields DEF Completes, Entry
  <2>2. \A q \in Runs \ {heal[h].run} : ledger'[q] = ledger[q]
    BY <1>4, Fields DEF Completes
  <2>3. ledger[heal[h].run].attempts # 0
    BY <1>1, <1>4 DEF Completes, RepairInv
  <2>4. RepairInv' /\ AloneInv'
    BY <1>1, <1>4, <2>1 DEF Completes, OtherHealers, RepairInv, AloneInv
  <2>5. FreshInv'
    BY <1>1, <1>4, <2>1, <2>2, <2>3 DEF Completes, FreshInv
  <2> QED
    BY <2>4, <2>5
<1>5. ASSUME NEW h \in Healers, Dies(h)
      PROVE  RepairInv' /\ AloneInv' /\ FreshInv'
  BY <1>1, <1>5 DEF Dies, OtherHealers, RepairInv, AloneInv, FreshInv
<1> QED
  BY <1>2, <1>3, <1>4, <1>5, HealSteps

LEMMA FlightStep ==
  ASSUME HealInv, [HealNext]_healVars
  PROVE  FlightInv'
<1> USE DEF HealInv
<1> SUFFICES ASSUME NEW q \in Runs, NEW a \in Actions
             PROVE  /\ ledger'[q].flight[a] >= Cardinality(Doing(q, a)')
                    /\ count'.crashes = 0 => ledger'[q].flight[a] = Cardinality(Doing(q, a)')
  BY DEF FlightInv
<1>1. /\ \A r \in Runs : ledger[r] \in Entry /\ ledger[r].flight \in [Actions -> Nat]
      /\ ledger \in [Runs -> Entry]
      /\ Nil \notin Runs
  BY Fields, HealAssumption DEF Entry
<1>2. /\ IsFiniteSet(Doing(q, a)) /\ Cardinality(Doing(q, a)) \in Nat /\ ledger[q].flight[a] \in Nat
      /\ ledger[q].flight[a] >= Cardinality(Doing(q, a))
      /\ count.crashes = 0 => ledger[q].flight[a] = Cardinality(Doing(q, a))
  BY <1>1, DoingFinite DEF FlightInv
<1>3. CASE Quiet
  <2>1. Doing(q, a)' = Doing(q, a)
    BY <1>1, <1>3 DEF Quiet, SameHealer, Doing
  <2> QED
    BY <1>2, <1>3, <2>1 DEF Quiet
<1>4. ASSUME NEW h \in Healers, NEW r \in Runs, Reserves(h, r)
      PROVE  /\ ledger'[q].flight[a] >= Cardinality(Doing(q, a)')
             /\ count'.crashes = 0 => ledger'[q].flight[a] = Cardinality(Doing(q, a)')
  <2>1. h \notin Doing(q, a)
    BY <1>1, <1>4 DEF Reserves, Doing
  <2>2. CASE q = r /\ a = heal'[h].action
    <3>1. Doing(q, a)' = Doing(q, a) \cup {h}
      BY <1>4, <2>2 DEF Reserves, OtherHealers, Doing
    <3>2. Cardinality(Doing(q, a)') = Cardinality(Doing(q, a)) + 1
      BY <1>2, <2>1, <3>1, FS_AddElement
    <3>3. ledger'[q].flight[a] = ledger[q].flight[a] + 1
      BY <1>1, <1>4, <2>2 DEF Reserves
    <3> QED
      BY <1>2, <1>4, <3>2, <3>3 DEF Reserves
  <2>3. CASE ~(q = r /\ a = heal'[h].action)
    <3>1. Doing(q, a)' = Doing(q, a)
      BY <1>1, <1>4, <2>3 DEF Reserves, OtherHealers, Doing
    <3>2. ledger'[q].flight[a] = ledger[q].flight[a]
      BY <1>1, <1>4, <2>3 DEF Reserves
    <3> QED
      BY <1>2, <1>4, <3>1, <3>2 DEF Reserves
  <2> QED
    BY <2>2, <2>3
<1>5. ASSUME NEW h \in Healers, Completes(h)
      PROVE  /\ ledger'[q].flight[a] >= Cardinality(Doing(q, a)')
             /\ count'.crashes = 0 => ledger'[q].flight[a] = Cardinality(Doing(q, a)')
  <2>1. CASE q = heal[h].run /\ a = heal[h].action
    <3>1. Doing(q, a)' = Doing(q, a) \ {h} /\ h \in Doing(q, a)
      BY <1>1, <1>5, <2>1 DEF Completes, OtherHealers, Doing
    <3>2. Cardinality(Doing(q, a)') = Cardinality(Doing(q, a)) - 1
      BY <1>2, <3>1, FS_RemoveElement
    <3>3. ledger'[q].flight[a] = ledger[q].flight[a] - 1
      BY <1>1, <1>5, <2>1 DEF Completes, Entry
    <3> QED
      BY <1>2, <1>5, <3>2, <3>3 DEF Completes
  <2>2. CASE ~(q = heal[h].run /\ a = heal[h].action)
    <3>1. Doing(q, a)' = Doing(q, a)
      BY <1>1, <1>5, <2>2 DEF Completes, OtherHealers, Doing
    <3>2. ledger'[q].flight[a] = ledger[q].flight[a]
      BY <1>1, <1>5, <2>2 DEF Completes, Entry
    <3> QED
      BY <1>2, <1>5, <3>1, <3>2 DEF Completes
  <2> QED
    BY <2>1, <2>2
<1>6. ASSUME NEW h \in Healers, Dies(h)
      PROVE  /\ ledger'[q].flight[a] >= Cardinality(Doing(q, a)')
             /\ count'.crashes = 0 => ledger'[q].flight[a] = Cardinality(Doing(q, a)')
  <2>1. Doing(q, a)' \in SUBSET Doing(q, a)
    BY <1>1, <1>6 DEF Dies, OtherHealers, Doing
  <2>2. Cardinality(Doing(q, a)') <= Cardinality(Doing(q, a)) /\ Cardinality(Doing(q, a)') \in Nat
    BY <1>2, <2>1, FS_Subset, FS_CardinalityType
  <2> QED
    BY <1>2, <1>6, <2>2 DEF Dies
<1> QED
  BY <1>3, <1>4, <1>5, <1>6, HealSteps

LEMMA InvSpec == HealSpec => []HealInv
<1>1. HealInv /\ [HealNext]_healVars => HealInv'
  BY HealTypeStep, RepairStep, FlightStep DEF HealInv
<1> QED
  BY InitInv, <1>1, PTL DEF HealSpec

(* The records of runs, ledger and invocations stay what the code has      *)
(* room for, and who works on a run and what an invocation repairs agree.  *)
THEOREM HealTypeCorrect == HealSpec => []HealTypeOK
<1>1. HealInv => HealTypeOK
  BY DEF HealInv
<1> QED
  BY InvSpec, <1>1, PTL

(* Every repair under way has a reservation of its own in the ledger, for  *)
(* any number of invocations that overlap, fail and die (reserve and       *)
(* complete of SelfHealStore).                                             *)
THEOREM OwnReservations == HealSpec => []OwnReservation
<1>1. ASSUME HealInv PROVE OwnReservation
  <2>1. Nil \notin Runs
    BY HealAssumption
  <2> SUFFICES ASSUME NEW r \in Runs
               PROVE  /\ \A g, h \in Busy(r) : g # h => heal[g].attempt # heal[h].attempt
                      /\ \A h \in Busy(r) : heal[h].attempt <= ledger[r].attempts
                      /\ \A a \in Actions :
                           LET busy == Cardinality({h \in Busy(r) : heal[h].action = a})
                           IN  /\ ledger[r].flight[a] >= busy
                               /\ count.crashes = 0 => ledger[r].flight[a] = busy
    BY DEF OwnReservation
  <2>2. \A a \in Actions : {h \in Busy(r) : heal[h].action = a} = Doing(r, a)
    BY DEF Busy, Doing
  <2>3. \A g, h \in Busy(r) : g # h => heal[g].attempt # heal[h].attempt
    BY <1>1, <2>1 DEF HealInv, AloneInv, Busy
  <2>4. \A h \in Busy(r) : heal[h].attempt <= ledger[r].attempts
    BY <1>1, <2>1 DEF HealInv, RepairInv, Busy
  <2>5. ASSUME NEW a \in Actions
        PROVE  LET busy == Cardinality({h \in Busy(r) : heal[h].action = a})
               IN  /\ ledger[r].flight[a] >= busy
                   /\ count.crashes = 0 => ledger[r].flight[a] = busy
    <3>1. /\ ledger[r].flight[a] >= Cardinality(Doing(r, a))
          /\ count.crashes = 0 => ledger[r].flight[a] = Cardinality(Doing(r, a))
      BY <1>1 DEF HealInv, FlightInv
    <3> QED
      BY <2>2, <3>1
  <2> QED
    BY <2>3, <2>4, <2>5
<1> QED
  BY InvSpec, <1>1, PTL

(* Without allow_repeat no run is repaired that anybody repaired before    *)
(* (decision_for under the lock of SelfHealStore::reserve).                *)
THEOREM RepairsOnce == HealSpec => RepairedOnce
<1>1. ASSUME HealInv, [HealNext]_healVars
      PROVE  [\A h \in Healers :
                heal[h].run = Nil /\ heal'[h].run # Nil =>
                  Repeat \/ \A a \in Actions :
                              ledger[heal'[h].run].flight[a] = 0 /\ due[heal'[h].run] = 0]_healVars
  <2> SUFFICES ASSUME NEW h \in Healers, heal[h].run = Nil, heal'[h].run # Nil, ~Repeat
               PROVE  \A a \in Actions : ledger[heal'[h].run].flight[a] = 0 /\ due[heal'[h].run] = 0
    OBVIOUS
  <2>1. PICK r \in Runs : Reserves(h, r)
    BY <1>1, HealSteps DEF Quiet, SameHealer, Completes, Dies, Reserves, OtherHealers
  <2>2. ledger[r].attempts \in Nat
    BY <1>1, Fields, HealAssumption DEF HealInv, Entry
  <2>3. ledger[r].attempts = 0
    BY <2>1, <2>2 DEF Reserves, Eligible
  <2> QED
    BY <1>1, <2>1, <2>3 DEF HealInv, FreshInv, Reserves
<1> QED
  BY InvSpec, <1>1, PTL DEF RepairedOnce, HealSpec

(* No invocation and no command takes a run over from the one who          *)
(* supervises it (resume and retry refuse a run that is active).           *)
THEOREM NeverTakenOver == HealSpec => NotTakenOver
<1>1. ASSUME HealInv, [HealNext]_healVars
      PROVE  [\A r \in Runs : run[r].by # Nil /\ run'[r].by # Nil => run'[r].by = run[r].by]_healVars
  <2> SUFFICES ASSUME NEW q \in Runs, run[q].by # Nil, run'[q].by # Nil
               PROVE  run'[q].by = run[q].by
    OBVIOUS
  <2> USE <1>1, Fields DEF HealInv
  <2>1. run[q].worker
    BY DEF HealTypeOK, Linked
  <2>2. ASSUME NEW h \in Healers, KillOrphan(h) PROVE run'[q].by = run[q].by
    <3>1. heal[h].run \in Runs /\ run[heal[h].run].killed \in BOOLEAN
      BY <2>2 DEF KillOrphan, RunRecord
    <3> QED
      BY <2>2, <3>1, StoppedRun DEF KillOrphan
  <2>3. ASSUME NEW h \in Healers, StartRun(h) PROVE run'[q].by = run[q].by
    <3>1. heal[h].run \in Runs
      BY <2>3 DEF StartRun
    <3> QED
      BY <2>1, <2>3, <3>1, StartedRun DEF StartRun, Live
  <2>4. ASSUME NEW h \in Healers, Works(h) PROVE run'[q].by = run[q].by
    <3>1. heal[h].run \in Runs
      BY <2>4 DEF Works
    <3>2. CASE run[heal[h].run].by = h
      <4>1. PICK status \in Outcomes : run' = Ended(heal[h].run, status)
        BY <2>4, <3>2 DEF Works
      <4> QED
        BY <3>1, <4>1, EndedRun
    <3>3. CASE run[heal[h].run].by # h
      BY <2>4, <3>3 DEF Works
    <3> QED
      BY <3>2, <3>3
  <2>5. ASSUME NEW h \in Healers, HealerCrash(h) PROVE run'[q].by = run[q].by
    BY <2>5, DeadRun DEF HealerCrash
  <2>6. ASSUME NEW r \in Runs, UserKill(r) PROVE run'[q].by = run[q].by
    BY <2>6, StoppedRun DEF UserKill
  <2>7. ASSUME NEW r \in Runs, UserRun(r) PROVE run'[q].by = run[q].by
    BY <2>1, <2>7, StartedRun DEF UserRun, Live
  <2>8. ASSUME NEW r \in Runs, UserRunEnds(r) PROVE run'[q].by = run[q].by
    BY <2>8, EndedRun DEF UserRunEnds
  <2>9. ASSUME NEW r \in Runs, WorkerExits(r) PROVE run'[q].by = run[q].by
    BY <2>9, ExitedRun DEF WorkerExits
  <2>10. ASSUME NEW h \in Healers, Begin(h) \/ Skip(h) \/ Reserve(h) \/ StartFails(h) \/ Complete(h) \/ End(h)
         PROVE  run'[q].by = run[q].by
    BY <2>10 DEF Begin, Skip, Reserve, StartFails, Complete, End
  <2>11. CASE Tick \/ UNCHANGED healVars
    BY <2>11 DEF Tick, healVars
  <2> QED
    BY <2>2, <2>3, <2>4, <2>5, <2>6, <2>7, <2>8, <2>9, <2>10, <2>11 DEF HealNext
<1> QED
  BY InvSpec, <1>1, PTL DEF NotTakenOver, HealSpec
=============================================================================
