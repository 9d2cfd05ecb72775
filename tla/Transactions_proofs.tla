------------------------- MODULE Transactions_proofs -------------------------
(***************************************************************************)
(* Two transactions over files: that of the credentials (AuthTransaction), *)
(* and then that of an installation (Installation).                        *)
(***************************************************************************)
EXTENDS AuthTransaction, Installation, TLAPS

(***************************************************************************)
(* AuthTransaction: the types of a credential transaction, that it loses   *)
(* no login, and that it is, to who sees it from outside, the atomic       *)
(* transaction of CredentialStore.                                         *)
(***************************************************************************)

(* The login a is in a backup.                                             *)
Stored(a) == \E b \in backups : b.files[1] = a

(* A login that a transaction found is where it found it or in a backup,   *)
(* and nothing is written before it is in a backup.                        *)
Covered ==
  /\ \A a \in Accounts : (\E p \in Profiles : op.before[p][1] = a) \/ Stored(a)
  /\ \A p \in Profiles : file[p][1] = op.before[p][1] \/ Stored(op.before[p][1])
  /\ op.at = "saving" => file = op.before /\ Len(op.save) > 0
  /\ op.at \in {"saving", "applying"} => Len(op.plan) > 0
  /\ op.at # "idle" => Len(op.undo) > 0 /\ Len(log) < count.rotations
  /\ \A i \in DOMAIN op.plan :
       \/ Stored(op.before[op.plan[i].profile][1])
       \/ op.at = "saving" /\ \E j \in DOMAIN op.save : op.save[j] = op.plan[i].profile
  /\ \A i \in DOMAIN op.undo :
       op.undo[i].account = op.before[op.undo[i].profile][op.undo[i].part]
IInv == TypeOK /\ Covered

-----------------------------------------------------------------------------
(* A profile has one or two files.                                         *)
LEMMA PartsLemma ==
  /\ Len(Parts) \in {1, 2} /\ DOMAIN Parts = 1 .. Len(Parts) /\ 1 \in DOMAIN Parts
BY AuthAssumption

(* The bounds are numbers.                                                 *)
LEMMA BoundsLemma ==
  MaxTime \in Nat /\ Rotations \in Nat /\ Failures \in Nat /\ Crashes \in Nat
BY AuthAssumption

(* The sequences of profiles that a transaction changes.                   *)
Pairs == {<<p>> : p \in Profiles} \cup {<<p, q>> : p, q \in Profiles}

(* ByPart and LastFirst list writes to the given profiles.                 *)
LEMMA PlanLemma ==
  ASSUME NEW ps \in Pairs, NEW to \in [Profiles -> Files]
  PROVE  /\ ps \in Seq(Profiles) /\ Len(ps) > 0
         /\ ByPart(ps, to) \in Seq(Write)
         /\ Len(ByPart(ps, to)) \in 1 .. 2 * Len(Parts)
         /\ \A i \in DOMAIN ByPart(ps, to) : \E j \in DOMAIN ps : ps[j] = ByPart(ps, to)[i].profile
         /\ \A i \in DOMAIN ByPart(ps, to) :
              ByPart(ps, to)[i].account = to[ByPart(ps, to)[i].profile][ByPart(ps, to)[i].part]
         /\ LastFirst(ps, to) \in Seq(Write)
         /\ Len(LastFirst(ps, to)) \in 1 .. 2 * Len(Parts)
         /\ \A i \in DOMAIN LastFirst(ps, to) :
              LastFirst(ps, to)[i].account
                = to[LastFirst(ps, to)[i].profile][LastFirst(ps, to)[i].part]
<1> DEFINE n == Len(ps)  N == Len(Parts)
<1>1. /\ ps \in Seq(Profiles) /\ n \in {1, 2} /\ DOMAIN ps = 1 .. n
      /\ \A j \in 1 .. n : ps[j] \in Profiles
  <2>1. ASSUME NEW p \in Profiles, ps = <<p>> PROVE <1>1
    BY <2>1
  <2>2. ASSUME NEW p \in Profiles, NEW q \in Profiles, ps = <<p, q>> PROVE <1>1
    BY <2>2
  <2> QED BY <2>1, <2>2 DEF Pairs
<1>2. N \in {1, 2} /\ DOMAIN Parts = 1 .. N
  BY PartsLemma
<1>3. N * n \in 1 .. 2 * N
  <2>1. CASE n = 1 BY <1>2, <2>1
  <2>2. CASE n = 2 BY <1>2, <2>2
  <2> QED BY <1>1, <2>1, <2>2
<1>4. ASSUME NEW i \in 1 .. N * n
      PROVE  /\ (i - 1) \div n + 1 \in 1 .. N /\ ((i - 1) % n) + 1 \in 1 .. n
             /\ ((N * n - i) % N) + 1 \in 1 .. N /\ (N * n - i) \div N + 1 \in 1 .. n
  <2>1. CASE n = 1 /\ N = 1 BY <2>1
  <2>2. CASE n = 1 /\ N = 2 BY <2>2
  <2>3. CASE n = 2 /\ N = 1 BY <2>3
  <2>4. CASE n = 2 /\ N = 2 BY <2>4
  <2> QED BY <1>1, <1>2, <2>1, <2>2, <2>3, <2>4
<1>5. \A p \in Profiles, k \in 1 .. N : to[p][k] \in Accounts
  BY <1>2 DEF Files
<1> HIDE DEF n, N
<1>6. ASSUME NEW i \in 1 .. N * n
      PROVE  /\ ByPart(ps, to)[i] \in Write
             /\ ByPart(ps, to)[i].profile = ps[((i - 1) % n) + 1]
             /\ ByPart(ps, to)[i].account = to[ByPart(ps, to)[i].profile][ByPart(ps, to)[i].part]
             /\ LastFirst(ps, to)[i] \in Write
             /\ LastFirst(ps, to)[i].account
                  = to[LastFirst(ps, to)[i].profile][LastFirst(ps, to)[i].part]
  <2> DEFINE k == (i - 1) \div n + 1  p == ps[((i - 1) % n) + 1]
             l == ((N * n - i) % N) + 1  q == ps[(N * n - i) \div N + 1]
  <2>1. k \in 1 .. N /\ p \in Profiles /\ l \in 1 .. N /\ q \in Profiles
    BY <1>1, <1>4
  <2>2. ByPart(ps, to)[i] = [profile |-> p, part |-> k, account |-> to[p][k]]
    BY DEF ByPart, n, N
  <2>3. LastFirst(ps, to)[i] = [profile |-> q, part |-> l, account |-> to[q][l]]
    BY DEF LastFirst, n, N
  <2> HIDE DEF k, p, l, q
  <2>4. ByPart(ps, to)[i] \in Write /\ LastFirst(ps, to)[i] \in Write
    BY <1>2, <1>5, <2>1, <2>2, <2>3 DEF Write
  <2> QED BY <2>2, <2>3, <2>4 DEF p
<1>7. /\ ByPart(ps, to) \in [1 .. N * n -> Write]
      /\ LastFirst(ps, to) \in [1 .. N * n -> Write]
  <2>1. ByPart(ps, to) = [i \in 1 .. N * n |-> ByPart(ps, to)[i]]
    BY DEF ByPart, n, N
  <2>2. LastFirst(ps, to) = [i \in 1 .. N * n |-> LastFirst(ps, to)[i]]
    BY DEF LastFirst, n, N
  <2> QED BY <1>6, <2>1, <2>2
<1>8. /\ ByPart(ps, to) \in Seq(Write) /\ Len(ByPart(ps, to)) = N * n
      /\ DOMAIN ByPart(ps, to) = 1 .. N * n
      /\ LastFirst(ps, to) \in Seq(Write) /\ Len(LastFirst(ps, to)) = N * n
      /\ DOMAIN LastFirst(ps, to) = 1 .. N * n
  BY <1>3, <1>7
<1>9. \A i \in DOMAIN ByPart(ps, to) : \E j \in DOMAIN ps : ps[j] = ByPart(ps, to)[i].profile
  BY <1>1, <1>4, <1>6, <1>8
<1> QED BY <1>1, <1>3, <1>6, <1>8, <1>9 DEF N, n

(* The rest of a sequence that is not empty.                               *)
LEMMA TailLemma ==
  ASSUME NEW T, NEW s \in Seq(T), Len(s) > 0
  PROVE  /\ Head(s) \in T /\ Head(s) = s[1] /\ 1 \in DOMAIN s
         /\ Tail(s) \in Seq(T) /\ Len(Tail(s)) = Len(s) - 1
         /\ \A i \in DOMAIN Tail(s) : i + 1 \in DOMAIN s /\ Tail(s)[i] = s[i + 1]
<1>1. /\ Len(s) \in Nat /\ Len(s) > 0 /\ DOMAIN s = 1 .. Len(s) /\ s[1] \in T
  OBVIOUS
<1>2. /\ Head(s) = s[1]
      /\ Tail(s) \in Seq(T) /\ Len(Tail(s)) = Len(s) - 1
  BY <1>1
<1>3. DOMAIN Tail(s) = 1 .. Len(s) - 1
  BY <1>1, <1>2
<1>4. \A i \in 1 .. Len(s) - 1 : i + 1 \in DOMAIN s /\ Tail(s)[i] = s[i + 1]
  BY <1>1
<1> QED BY <1>1, <1>2, <1>3, <1>4

(* A file that is written holds an account.                                *)
LEMMA PutLemma ==
  ASSUME file \in [Profiles -> Files], NEW w \in Write
  PROVE  /\ Put(w) \in [Profiles -> Files]
         /\ \A p \in Profiles :
              \/ Put(w)[p][1] = file[p][1]
              \/ p = w.profile /\ w.part = 1 /\ Put(w)[p][1] = w.account
<1>1. w.profile \in Profiles /\ w.part \in DOMAIN Parts /\ w.account \in Accounts
  BY DEF Write
<1>2. /\ file[w.profile] \in [DOMAIN Parts -> Accounts]
      /\ Put(w) = [file EXCEPT ![w.profile] = [file[w.profile] EXCEPT ![w.part] = w.account]]
  BY <1>1 DEF Put, Files
<1>3. [file[w.profile] EXCEPT ![w.part] = w.account] \in Files
  BY <1>1, <1>2 DEF Files
<1>4. Put(w) \in [Profiles -> Files]
  BY <1>2, <1>3
<1>5. ASSUME NEW p \in Profiles
      PROVE  \/ Put(w)[p][1] = file[p][1]
             \/ p = w.profile /\ w.part = 1 /\ Put(w)[p][1] = w.account
  <2>1. CASE p # w.profile BY <1>2, <2>1
  <2>2. CASE p = w.profile
    <3>1. Put(w)[p] = [file[p] EXCEPT ![w.part] = w.account]
      BY <1>2, <2>2
    <3> QED BY <1>1, <1>2, <2>2, <3>1, PartsLemma
  <2> QED BY <2>1, <2>2
<1> QED BY <1>4, <1>5

-----------------------------------------------------------------------------
LEMMA InitLemma == Init => IInv
<1> SUFFICES ASSUME Init PROVE IInv
  OBVIOUS
<1>1. file \in [Profiles -> Files] /\ \A p \in Profiles : file[p][1] = Own[p]
  BY PartsLemma DEF Init, Files, Accounts
<1>2. TypeOK
  <2>1. /\ 0 \in 0 .. MaxTime /\ 0 <= 0
        /\ 0 \in 0 .. Rotations /\ 0 \in 0 .. Failures /\ 0 \in 0 .. Crashes
    BY AuthAssumption
  <2>2. op \in [at : {"idle", "saving", "applying", "logging", "undoing"}, kind : Kinds,
                time : 0 .. MaxTime, save : Seq(Profiles), plan : Seq(Write),
                undo : Seq(Write), before : [Profiles -> Files]]
    BY <1>1, <2>1 DEF Init, Kinds
  <2>3. /\ op.time = 0 /\ Len(op.plan) = 0 /\ Len(op.undo) = 0 /\ Len(log) = 0
        /\ log \in Seq(Kinds)
    BY DEF Init
  <2>4. past \in [Profiles -> SUBSET Accounts]
    BY DEF Init, Accounts
  <2>5. backups \subseteq Backup /\ now \in 0 .. MaxTime /\ op.time <= now
    BY <2>1, <2>3 DEF Init
  <2>6. /\ count \in [rotations : 0 .. Rotations, failures : 0 .. Failures, crashes : 0 .. Crashes]
        /\ count.rotations = 0
    BY <2>1 DEF Init
  <2> QED BY <1>1, <2>2, <2>3, <2>4, <2>5, <2>6, PartsLemma DEF TypeOK
<1>3. Covered
  <2>1. op.at = "idle" /\ op.plan = <<>> /\ op.undo = <<>> /\ op.before = file
    BY DEF Init
  <2>2. \A a \in Accounts : \E p \in Profiles : file[p][1] = a
    BY <1>1 DEF Accounts
  <2> QED BY <2>1, <2>2 DEF Covered
<1> QED BY <1>2, <1>3 DEF IInv

(* A transaction begins with nothing written.                              *)
LEMMA BeginLemma ==
  ASSUME IInv, NEW kind \in Kinds, NEW ps \in Pairs, NEW to \in [Profiles -> Files],
         Begin(kind, ps, to)
  PROVE  IInv'
<1> DEFINE plan == ByPart(ps, to)  undo == LastFirst(ps, file)
<1>1. file \in [Profiles -> Files]
  BY DEF IInv, TypeOK
<1>2. /\ ps \in Seq(Profiles) /\ Len(ps) > 0
      /\ plan \in Seq(Write) /\ Len(plan) \in 1 .. 2 * Len(Parts)
      /\ undo \in Seq(Write) /\ Len(undo) \in 1 .. 2 * Len(Parts)
      /\ \A i \in DOMAIN plan : \E j \in DOMAIN ps : ps[j] = plan[i].profile
      /\ \A i \in DOMAIN undo : undo[i].account = file[undo[i].profile][undo[i].part]
  BY <1>1, PlanLemma, PartsLemma
<1> HIDE DEF plan, undo
<1>3. PICK t \in 0 .. now :
        op' = [at |-> "saving", kind |-> kind, time |-> t, save |-> ps, plan |-> plan,
               undo |-> undo, before |-> file]
  BY DEF Begin, plan, undo
<1>4. /\ UNCHANGED <<file, backups, log, past, now>>
      /\ count' = [count EXCEPT !.rotations = @ + 1] /\ count.rotations < Rotations
  BY DEF Begin
<1>5. TypeOK'
  <2>1. t \in 0 .. MaxTime /\ t <= now
    BY AuthAssumption DEF IInv, TypeOK
  <2>2. op' \in [at : {"idle", "saving", "applying", "logging", "undoing"}, kind : Kinds,
                 time : 0 .. MaxTime, save : Seq(Profiles), plan : Seq(Write),
                 undo : Seq(Write), before : [Profiles -> Files]]
    BY <1>1, <1>2, <1>3, <2>1
  <2>3. /\ count' \in [rotations : 0 .. Rotations, failures : 0 .. Failures, crashes : 0 .. Crashes]
        /\ count'.rotations = count.rotations + 1
    <3>1. /\ count \in [rotations : 0 .. Rotations, failures : 0 .. Failures, crashes : 0 .. Crashes]
          /\ count.rotations + 1 \in 0 .. Rotations
      BY <1>4, BoundsLemma DEF IInv, TypeOK
    <3> QED BY <1>4, <3>1
  <2>4. Len(log) <= count'.rotations
    BY <2>3 DEF IInv, TypeOK
  <2>5. Len(plan) <= 2 * Len(Parts) /\ Len(undo) <= 2 * Len(Parts)
    BY <1>2, PartsLemma
  <2> QED BY <1>3, <1>4, <2>1, <2>2, <2>3, <2>4, <2>5 DEF IInv, TypeOK
<1>6. Covered'
  <2>1. ASSUME NEW a \in Accounts
        PROVE  (\E p \in Profiles : file[p][1] = a) \/ Stored(a)
    <3>1. (\E p \in Profiles : op.before[p][1] = a) \/ Stored(a)
      BY DEF IInv, Covered
    <3> QED BY <3>1 DEF IInv, Covered
  <2>2. \A a : Stored(a)' <=> Stored(a)
    BY <1>4 DEF Stored
  <2>3. Len(log) < count'.rotations
    BY <1>4 DEF IInv, TypeOK
  <2> QED BY <1>2, <1>3, <1>4, <2>1, <2>2, <2>3 DEF Covered
<1> QED BY <1>5, <1>6 DEF IInv

(* The copies, swaps and restores that begin.                              *)
LEMMA BeginsLemma ==
  ASSUME IInv,
         \/ \E p, q \in Profiles : BeginCopy(p, q) \/ BeginSwap(p, q)
         \/ \E p \in Profiles : BeginRestore(p)
  PROVE  IInv'
<1>1. file \in [Profiles -> Files] /\ backups \subseteq Backup
  BY DEF IInv, TypeOK
<1>2. ASSUME NEW p \in Profiles, NEW q \in Profiles, BeginCopy(p, q) PROVE IInv'
  <2>1. <<p>> \in Pairs /\ "copy" \in Kinds /\ [file EXCEPT ![p] = file[q]] \in [Profiles -> Files]
    BY <1>1 DEF Pairs, Kinds
  <2>2. Begin("copy", <<p>>, [file EXCEPT ![p] = file[q]])
    BY <1>2 DEF BeginCopy
  <2> QED BY <2>1, <2>2, BeginLemma
<1>3. ASSUME NEW p \in Profiles, NEW q \in Profiles, BeginSwap(p, q) PROVE IInv'
  <2>1. /\ <<p, q>> \in Pairs /\ "swap" \in Kinds
        /\ [file EXCEPT ![p] = file[q], ![q] = file[p]] \in [Profiles -> Files]
    BY <1>1 DEF Pairs, Kinds
  <2>2. Begin("swap", <<p, q>>, [file EXCEPT ![p] = file[q], ![q] = file[p]])
    BY <1>3 DEF BeginSwap
  <2> QED BY <2>1, <2>2, BeginLemma
<1>4. ASSUME NEW p \in Profiles, BeginRestore(p) PROVE IInv'
  <2>1. PICK b \in Latest(p) : Begin("restore", <<p>>, [file EXCEPT ![p] = b.files])
    BY <1>4 DEF BeginRestore
  <2>2. b.files \in Files
    BY <1>1 DEF Latest, Backup
  <2>3. <<p>> \in Pairs /\ "restore" \in Kinds /\ [file EXCEPT ![p] = b.files] \in [Profiles -> Files]
    BY <1>1, <2>2 DEF Pairs, Kinds
  <2> QED BY <2>1, <2>3, BeginLemma
<1> QED BY <1>2, <1>3, <1>4

(* One of the failures or crashes there may be.                            *)
LEMMA MayLemma ==
  ASSUME count \in [rotations : 0 .. Rotations, failures : 0 .. Failures, crashes : 0 .. Crashes],
         May("failures", Failures) \/ May("crashes", Crashes)
  PROVE  /\ count' \in [rotations : 0 .. Rotations, failures : 0 .. Failures, crashes : 0 .. Crashes]
         /\ count'.rotations = count.rotations
<1>1. /\ count.failures < Failures => count.failures + 1 \in 0 .. Failures
      /\ count.crashes < Crashes => count.crashes + 1 \in 0 .. Crashes
  BY BoundsLemma
<1> QED BY <1>1 DEF May

(* The end of a transaction keeps what it found and forgets what it was to *)
(* write.                                                                  *)
LEMMA SettleLemma ==
  ASSUME IInv, Settle, now' = now, log' \in Seq(Kinds), Len(log') <= count'.rotations,
         file' \in [Profiles -> Files], backups' \subseteq Backup, backups \subseteq backups',
         count' \in [rotations : 0 .. Rotations, failures : 0 .. Failures, crashes : 0 .. Crashes],
         \A p \in Profiles : file'[p][1] = op.before[p][1] \/ Stored(op.before[p][1])'
  PROVE  IInv'
<1>1. /\ op' = [op EXCEPT !.at = "idle", !.save = <<>>, !.plan = <<>>, !.undo = <<>>]
      /\ past' = [p \in Profiles |-> past[p] \cup {file'[p][1]}]
  BY DEF Settle
<1>2. /\ op' \in [at : {"idle", "saving", "applying", "logging", "undoing"}, kind : Kinds,
                  time : 0 .. MaxTime, save : Seq(Profiles), plan : Seq(Write),
                  undo : Seq(Write), before : [Profiles -> Files]]
      /\ op'.at = "idle" /\ op'.before = op.before /\ op'.time = op.time
      /\ op'.plan = <<>> /\ op'.undo = <<>>
  <2>1. op \in [at : {"idle", "saving", "applying", "logging", "undoing"}, kind : Kinds,
                time : 0 .. MaxTime, save : Seq(Profiles), plan : Seq(Write),
                undo : Seq(Write), before : [Profiles -> Files]]
    BY DEF IInv, TypeOK
  <2>2. op' = [at |-> "idle", kind |-> op.kind, time |-> op.time, save |-> <<>>, plan |-> <<>>,
               undo |-> <<>>, before |-> op.before]
    BY <1>1, <2>1
  <2>3. <<>> \in Seq(Profiles) /\ <<>> \in Seq(Write)
    OBVIOUS
  <2>4. op.kind \in Kinds /\ op.time \in 0 .. MaxTime /\ op.before \in [Profiles -> Files]
    BY <2>1
  <2> QED BY <2>2, <2>3, <2>4
<1>3. TypeOK'
  <2>1. Len(op'.plan) = 0 /\ Len(op'.undo) = 0
    BY <1>2
  <2>2. past' \in [Profiles -> SUBSET Accounts]
    BY <1>1, PartsLemma DEF IInv, TypeOK, Files
  <2> QED BY <1>2, <2>1, <2>2, PartsLemma DEF IInv, TypeOK
<1>4. Covered'
  <2>1. \A a : Stored(a) => Stored(a)'
    BY DEF Stored
  <2>2. \A a \in Accounts : (\E p \in Profiles : op.before[p][1] = a) \/ Stored(a)
    BY DEF IInv, Covered
  <2> QED BY <1>2, <2>1, <2>2 DEF Covered
<1> QED BY <1>3, <1>4 DEF IInv

(* A write, and the place in the plan after it.                            *)
LEMMA SaveLemma == IInv /\ Save => IInv'
<1> SUFFICES ASSUME IInv, Save PROVE IInv'
  OBVIOUS
<1> DEFINE b == Saved(Head(op.save))
<1>1. /\ op.at = "saving" /\ Len(op.save) > 0 /\ op.save \in Seq(Profiles) /\ file = op.before
      /\ file \in [Profiles -> Files] /\ backups \subseteq Backup
      /\ UNCHANGED <<file, log, now>>
  BY DEF Save, IInv, TypeOK, Covered
<1>2. Head(op.save) \in Profiles /\ Head(op.save) = op.save[1]
  BY <1>1, TailLemma
<1>3. b \in Backup /\ b.files = file[Head(op.save)]
  BY <1>1, <1>2 DEF Saved, Backup, IInv, TypeOK
<1> HIDE DEF b
<1>4. CASE /\ backups' = backups \cup {b}
           /\ op' = [op EXCEPT !.save = Tail(@), !.at = IF Len(op.save) > 1 THEN @ ELSE "applying"]
           /\ UNCHANGED <<past, count>>
  <2>1. /\ op' \in [at : {"idle", "saving", "applying", "logging", "undoing"}, kind : Kinds,
                    time : 0 .. MaxTime, save : Seq(Profiles), plan : Seq(Write),
                    undo : Seq(Write), before : [Profiles -> Files]]
        /\ op'.at = (IF Len(op.save) > 1 THEN "saving" ELSE "applying") /\ op'.save = Tail(op.save)
        /\ op'.before = op.before /\ op'.time = op.time /\ op'.plan = op.plan /\ op'.undo = op.undo
    BY <1>1, <1>4, TailLemma DEF IInv, TypeOK
  <2>2. TypeOK'
    BY <1>1, <1>3, <1>4, <2>1 DEF IInv, TypeOK
  <2>3. \A a : Stored(a) => Stored(a)'
    BY <1>4 DEF Stored
  <2>4. ASSUME NEW p, p = Head(op.save) PROVE Stored(op.before[p][1])'
    BY <1>1, <1>3, <1>4, <2>1, <2>4 DEF Stored
  <2>5. ASSUME NEW i \in DOMAIN op.plan
        PROVE  \/ Stored(op.before[op.plan[i].profile][1])'
               \/ op'.at = "saving" /\ \E j \in DOMAIN op'.save : op'.save[j] = op.plan[i].profile
    <3>1. CASE Stored(op.before[op.plan[i].profile][1])
      BY <2>1, <2>3, <3>1
    <3>2. CASE \E j \in DOMAIN op.save : op.save[j] = op.plan[i].profile
      <4>1. PICK j \in DOMAIN op.save : op.save[j] = op.plan[i].profile
        BY <3>2
      <4>2. CASE j = 1
        BY <1>2, <2>1, <2>4, <4>1, <4>2
      <4>3. CASE j # 1
        <5>1. Len(op.save) \in Nat /\ DOMAIN op.save = 1 .. Len(op.save)
          BY <1>1
        <5>2. Len(op.save) > 1 /\ j - 1 \in DOMAIN Tail(op.save) /\ j - 1 + 1 = j
          BY <1>1, <4>1, <4>3, <5>1, TailLemma
        <5>3. Tail(op.save)[j - 1] = op.save[j]
          BY <1>1, <5>2, TailLemma
        <5> QED BY <2>1, <4>1, <5>2, <5>3
      <4> QED BY <4>2, <4>3
    <3> QED BY <3>1, <3>2 DEF IInv, Covered
  <2>6. Len(op.save) > 1 => Len(Tail(op.save)) > 0
    BY <1>1, TailLemma
  <2>7. Covered'
    BY <1>1, <1>4, <2>1, <2>3, <2>5, <2>6 DEF IInv, Covered
  <2> QED BY <2>2, <2>7 DEF IInv
<1>5. CASE May("failures", Failures) /\ backups' \in {backups, backups \cup {b}} /\ Settle
  <2>1. /\ count' \in [rotations : 0 .. Rotations, failures : 0 .. Failures, crashes : 0 .. Crashes]
        /\ count'.rotations = count.rotations
    BY <1>5, MayLemma DEF IInv, TypeOK
  <2> QED BY <1>1, <1>3, <1>5, <2>1, SettleLemma DEF IInv, TypeOK
<1> QED BY <1>4, <1>5 DEF Save, b

(* What a write of the plan leaves where it was or in a backup.            *)
LEMMA ApplyLemma == IInv /\ Apply => IInv'
<1> SUFFICES ASSUME IInv, Apply PROVE IInv'
  OBVIOUS
<1> DEFINE w == Head(op.plan)
<1>1. /\ op.at = "applying" /\ Len(op.plan) > 0 /\ op.plan \in Seq(Write)
      /\ file \in [Profiles -> Files]
      /\ UNCHANGED <<backups, log, past, now>>
  BY DEF Apply, IInv, TypeOK, Covered
<1>2. w \in Write /\ w = op.plan[1] /\ 1 \in DOMAIN op.plan
  BY <1>1, TailLemma
<1>3. Stored(op.before[w.profile][1])
  BY <1>1, <1>2 DEF IInv, Covered
<1>4. Put(w) \in [Profiles -> Files]
  BY <1>1, <1>2, PutLemma
<1> HIDE DEF w
<1>5. \A p \in Profiles : Put(w)[p][1] = op.before[p][1] \/ Stored(op.before[p][1])
  BY <1>1, <1>2, <1>3, PutLemma DEF IInv, Covered
<1>6. \A a : Stored(a)' <=> Stored(a)
  BY <1>1 DEF Stored
<1>7. CASE /\ file' = Put(w) /\ UNCHANGED count
           /\ op' = [op EXCEPT !.plan = Tail(@), !.at = IF Len(op.plan) > 1 THEN @ ELSE "logging"]
  <2>1. /\ op' \in [at : {"idle", "saving", "applying", "logging", "undoing"}, kind : Kinds,
                    time : 0 .. MaxTime, save : Seq(Profiles), plan : Seq(Write),
                    undo : Seq(Write), before : [Profiles -> Files]]
        /\ op'.at = (IF Len(op.plan) > 1 THEN "applying" ELSE "logging") /\ op'.plan = Tail(op.plan)
        /\ op'.before = op.before /\ op'.time = op.time /\ op'.undo = op.undo
    BY <1>1, <1>7, TailLemma DEF IInv, TypeOK
  <2>2. Len(Tail(op.plan)) = Len(op.plan) - 1
    BY <1>1, TailLemma
  <2>3. TypeOK'
    <3>1. Len(op'.plan) <= 2 * Len(Parts) /\ Len(op'.undo) <= 2 * Len(Parts)
      BY <1>1, <2>1, <2>2, PartsLemma DEF IInv, TypeOK
    <3> QED BY <1>1, <1>4, <1>7, <2>1, <3>1 DEF IInv, TypeOK
  <2>4. \A i \in DOMAIN Tail(op.plan) : Stored(op.before[Tail(op.plan)[i].profile][1])
    BY <1>1, TailLemma DEF IInv, Covered
  <2>5. Covered'
    BY <1>1, <1>5, <1>6, <1>7, <2>1, <2>2, <2>4 DEF IInv, Covered
  <2> QED BY <2>3, <2>5 DEF IInv
<1>8. CASE May("failures", Failures) /\ file' \in {file, Put(w)} /\ op' = [op EXCEPT !.at = "undoing"]
  <2>1. /\ op' \in [at : {"idle", "saving", "applying", "logging", "undoing"}, kind : Kinds,
                    time : 0 .. MaxTime, save : Seq(Profiles), plan : Seq(Write),
                    undo : Seq(Write), before : [Profiles -> Files]]
        /\ op'.at = "undoing" /\ op'.plan = op.plan /\ op'.undo = op.undo
        /\ op'.before = op.before /\ op'.time = op.time
    BY <1>8 DEF IInv, TypeOK
  <2>2. /\ count' \in [rotations : 0 .. Rotations, failures : 0 .. Failures, crashes : 0 .. Crashes]
        /\ count'.rotations = count.rotations
    BY <1>8, MayLemma DEF IInv, TypeOK
  <2>3. TypeOK'
    BY <1>1, <1>4, <1>8, <2>1, <2>2 DEF IInv, TypeOK
  <2>4. Covered'
    BY <1>1, <1>5, <1>6, <1>8, <2>1, <2>2 DEF IInv, Covered
  <2> QED BY <2>3, <2>4 DEF IInv
<1> QED BY <1>7, <1>8 DEF Apply, w

(* A write that is undone gives back what the transaction found.           *)
LEMMA UndoLemma == IInv /\ Undo => IInv'
<1> SUFFICES ASSUME IInv, Undo PROVE IInv'
  OBVIOUS
<1> DEFINE w == Head(op.undo)
<1>1. /\ op.at = "undoing" /\ Len(op.undo) > 0 /\ op.undo \in Seq(Write)
      /\ file \in [Profiles -> Files] /\ backups \subseteq Backup
      /\ UNCHANGED <<backups, log, now>>
  BY DEF Undo, IInv, TypeOK, Covered
<1>2. w \in Write /\ w = op.undo[1] /\ 1 \in DOMAIN op.undo
  BY <1>1, TailLemma
<1>3. w.account = op.before[w.profile][w.part]
  BY <1>1, <1>2 DEF IInv, Covered
<1>4. Put(w) \in [Profiles -> Files]
  BY <1>1, <1>2, PutLemma
<1> HIDE DEF w
<1>5. \A p \in Profiles : Put(w)[p][1] = op.before[p][1] \/ Stored(op.before[p][1])
  BY <1>1, <1>2, <1>3, PutLemma DEF IInv, Covered
<1>6. \A a : Stored(a)' <=> Stored(a)
  BY <1>1 DEF Stored
<1>7. ASSUME Settle, file' \in {file, Put(w)}, UNCHANGED count \/ May("failures", Failures)
      PROVE  IInv'
  <2>1. op'.before = op.before
    BY <1>7 DEF Settle, IInv, TypeOK
  <2>2. /\ count' \in [rotations : 0 .. Rotations, failures : 0 .. Failures, crashes : 0 .. Crashes]
        /\ count'.rotations = count.rotations
    BY <1>7, MayLemma DEF IInv, TypeOK
  <2>3. \A p \in Profiles : file'[p][1] = op.before[p][1] \/ Stored(op.before[p][1])'
    BY <1>5, <1>6, <1>7, <2>1 DEF IInv, Covered
  <2> QED BY <1>1, <1>4, <1>7, <2>2, <2>3, SettleLemma DEF IInv, TypeOK
<1>8. CASE file' = Put(w) /\ op' = [op EXCEPT !.undo = Tail(@)] /\ Len(op.undo) > 1 /\ UNCHANGED <<past, count>>
  <2>1. /\ op' \in [at : {"idle", "saving", "applying", "logging", "undoing"}, kind : Kinds,
                    time : 0 .. MaxTime, save : Seq(Profiles), plan : Seq(Write),
                    undo : Seq(Write), before : [Profiles -> Files]]
        /\ op'.at = "undoing" /\ op'.plan = op.plan /\ op'.undo = Tail(op.undo)
        /\ op'.before = op.before /\ op'.time = op.time
    BY <1>1, <1>8, TailLemma DEF IInv, TypeOK
  <2>2. Len(Tail(op.undo)) = Len(op.undo) - 1
    BY <1>1, TailLemma
  <2>3. TypeOK'
    <3>1. Len(op'.plan) <= 2 * Len(Parts) /\ Len(op'.undo) <= 2 * Len(Parts)
      BY <1>1, <2>1, <2>2, PartsLemma DEF IInv, TypeOK
    <3> QED BY <1>1, <1>4, <1>8, <2>1, <3>1 DEF IInv, TypeOK
  <2>4. \A i \in DOMAIN Tail(op.undo) :
          Tail(op.undo)[i].account = op.before[Tail(op.undo)[i].profile][Tail(op.undo)[i].part]
    BY <1>1, TailLemma DEF IInv, Covered
  <2>5. Len(Tail(op.undo)) > 0
    BY <1>1, <1>8, <2>2
  <2>6. Covered'
    BY <1>1, <1>5, <1>6, <1>8, <2>1, <2>4, <2>5 DEF IInv, Covered
  <2> QED BY <2>3, <2>6 DEF IInv
<1> QED BY <1>7, <1>8 DEF Undo, w

LEMMA LogLemma == IInv /\ Log => IInv'
<1> SUFFICES ASSUME IInv, Log PROVE IInv'
  OBVIOUS
<1>1. /\ op.at = "logging" /\ UNCHANGED <<file, backups, now>> /\ op.kind \in Kinds
      /\ file \in [Profiles -> Files] /\ backups \subseteq Backup /\ log \in Seq(Kinds)
  BY DEF Log, IInv, TypeOK
<1>2. CASE Settle /\ log' = log /\ May("failures", Failures)
  <2>1. op'.before = op.before
    BY <1>2 DEF Settle, IInv, TypeOK
  <2>2. /\ count' \in [rotations : 0 .. Rotations, failures : 0 .. Failures, crashes : 0 .. Crashes]
        /\ count'.rotations = count.rotations
    BY <1>2, MayLemma DEF IInv, TypeOK
  <2>3. \A p \in Profiles : file'[p][1] = op.before[p][1] \/ Stored(op.before[p][1])'
    BY <1>1, <2>1 DEF IInv, Covered, Stored
  <2> QED BY <1>1, <1>2, <2>2, <2>3, SettleLemma DEF IInv, TypeOK
<1>3. CASE Settle /\ log' = Append(log, op.kind) /\ UNCHANGED count
  <2>1. op'.before = op.before
    BY <1>3 DEF Settle, IInv, TypeOK
  <2>2. \A p \in Profiles : file'[p][1] = op.before[p][1] \/ Stored(op.before[p][1])'
    BY <1>1, <2>1 DEF IInv, Covered, Stored
  <2>3. log' \in Seq(Kinds) /\ Len(log') = Len(log) + 1 /\ Len(log) < count.rotations
    BY <1>1, <1>3 DEF IInv, Covered
  <2>4. count.rotations \in Nat
    BY BoundsLemma DEF IInv, TypeOK
  <2>5. Len(log') <= count'.rotations
    BY <1>1, <1>3, <2>3, <2>4
  <2> QED BY <1>1, <1>3, <2>2, <2>3, <2>5, SettleLemma DEF IInv, TypeOK
<1>4. CASE op' = [op EXCEPT !.at = "undoing"] /\ UNCHANGED <<log, past>> /\ May("failures", Failures)
  <2>1. /\ op' \in [at : {"idle", "saving", "applying", "logging", "undoing"}, kind : Kinds,
                    time : 0 .. MaxTime, save : Seq(Profiles), plan : Seq(Write),
                    undo : Seq(Write), before : [Profiles -> Files]]
        /\ op'.at = "undoing" /\ op'.plan = op.plan /\ op'.undo = op.undo
        /\ op'.before = op.before /\ op'.time = op.time
    BY <1>4 DEF IInv, TypeOK
  <2>2. /\ count' \in [rotations : 0 .. Rotations, failures : 0 .. Failures, crashes : 0 .. Crashes]
        /\ count'.rotations = count.rotations
    BY <1>4, MayLemma DEF IInv, TypeOK
  <2>3. TypeOK'
    BY <1>1, <1>4, <2>1, <2>2 DEF IInv, TypeOK
  <2>4. \A a : Stored(a)' <=> Stored(a)
    BY <1>1 DEF Stored
  <2>5. Covered'
    BY <1>1, <1>4, <2>1, <2>2, <2>4 DEF IInv, Covered
  <2> QED BY <2>3, <2>5 DEF IInv
<1> QED BY <1>2, <1>3, <1>4 DEF Log

LEMMA CrashLemma == IInv /\ Crash => IInv'
<1> SUFFICES ASSUME IInv, Crash PROVE IInv'
  OBVIOUS
<1>1. UNCHANGED <<file, backups, log, now>> /\ Settle /\ May("crashes", Crashes)
  BY DEF Crash
<1>2. op'.before = op.before
  BY <1>1 DEF Settle, IInv, TypeOK
<1>3. /\ count' \in [rotations : 0 .. Rotations, failures : 0 .. Failures, crashes : 0 .. Crashes]
      /\ count'.rotations = count.rotations
  BY <1>1, MayLemma DEF IInv, TypeOK
<1>4. \A p \in Profiles : file'[p][1] = op.before[p][1] \/ Stored(op.before[p][1])'
  BY <1>1, <1>2 DEF IInv, Covered, Stored
<1> QED BY <1>1, <1>3, <1>4, SettleLemma DEF IInv, TypeOK

LEMMA StepLemma == IInv /\ [Next]_vars => IInv'
<1> SUFFICES ASSUME IInv, [Next]_vars PROVE IInv'
  OBVIOUS
<1>1. CASE UNCHANGED vars
  BY <1>1 DEF vars, IInv, TypeOK, Covered, Stored
<1>2. CASE Tick
  <2>1. UNCHANGED <<file, backups, op, log, past, count>> /\ now' \in 0 .. MaxTime /\ now < now'
    BY <1>2, BoundsLemma DEF Tick, IInv, TypeOK
  <2>2. TypeOK'
    <3>1. op.time <= now'
      BY <2>1, BoundsLemma DEF IInv, TypeOK
    <3> QED BY <2>1, <3>1 DEF IInv, TypeOK
  <2> QED BY <2>1, <2>2 DEF IInv, Covered, Stored
<1> QED BY <1>1, <1>2, BeginsLemma, SaveLemma, ApplyLemma, UndoLemma, LogLemma, CrashLemma DEF Next

-----------------------------------------------------------------------------
(* What the store holds while a transaction runs, and what the transaction *)
(* may make of it: a copy, a swap, or a login that the profile has had.    *)
Login == [p \in Profiles |-> IF op.at = "idle" THEN file[p][1] ELSE op.before[p][1]]
Aim(m) ==
  \/ \E p, q \in Profiles : p # q /\ m = [Login EXCEPT ![p] = Login[q]]
  \/ \E p, q \in Profiles : p # q /\ m = [Login EXCEPT ![p] = Login[q], ![q] = Login[p]]
  \/ \E p \in Profiles : \E a \in past[p] : m = [Login EXCEPT ![p] = a]

(* Every profile has the login it had or the one the transaction aims at,  *)
(* and what is left to write is the latter.                                *)
Toward(m) ==
  /\ \A p \in Profiles : file[p][1] \in {Login[p], m[p]}
  /\ \A i \in DOMAIN op.plan : op.plan[i].part = 1 => op.plan[i].account = m[op.plan[i].profile]

(* A profile has had the login it has, and those in its backups.           *)
StoreInv ==
  /\ \A p \in Profiles : Login[p] \in past[p]
  /\ \A b \in backups : b.files[1] \in past[b.profile]
  /\ op.at # "idle" => \E m : Aim(m) /\ Toward(m)

(* Before a transaction ends, what it aims at stays what it was.           *)
LEMMA LoginKept ==
  ASSUME op.at # "idle", op'.at # "idle", op'.before = op.before, past' = past
  PROVE  Login' = Login /\ \A m : Aim(m)' <=> Aim(m)
<1>1. Login' = Login
  BY DEF Login
<1> HIDE DEF Login
<1> QED BY <1>1 DEF Aim

(* The steps of the store, said of Login.                                  *)
LEMMA StoreStep ==
  ASSUME \/ Login' = Login /\ past' = past
         \/ /\ past' = [p \in Profiles |-> past[p] \cup {(Login')[p]}]
            /\ \/ \E p, q \in Profiles :
                    p # q /\ \/ Login' = [Login EXCEPT ![p] = Login[q]]
                             \/ Login' = [Login EXCEPT ![p] = Login[q], ![q] = Login[p]]
               \/ \E p \in Profiles : \E a \in past[p] : Login' = [Login EXCEPT ![p] = a]
  PROVE  [Store!Next]_(Store!vars)
<1>1. CASE Login' = Login /\ past' = past
  BY <1>1 DEF Login, Store!vars
<1>2. ASSUME past' = [p \in Profiles |-> past[p] \cup {(Login')[p]}],
             NEW p \in Profiles, NEW q \in Profiles, p # q, Login' = [Login EXCEPT ![p] = Login[q]]
      PROVE  Store!Copy(p, q)
  BY <1>2 DEF Login, Store!Copy, Store!Become
<1>3. ASSUME past' = [p \in Profiles |-> past[p] \cup {(Login')[p]}],
             NEW p \in Profiles, NEW q \in Profiles, p # q,
             Login' = [Login EXCEPT ![p] = Login[q], ![q] = Login[p]]
      PROVE  Store!Swap(p, q)
  BY <1>3 DEF Login, Store!Swap, Store!Become
<1>4. ASSUME past' = [p \in Profiles |-> past[p] \cup {(Login')[p]}],
             NEW p \in Profiles, NEW a \in past[p], Login' = [Login EXCEPT ![p] = a]
      PROVE  Store!Restore(p)
  BY <1>4 DEF Login, Store!Restore, Store!Become
<1> QED BY <1>1, <1>2, <1>3, <1>4 DEF Store!Next

(* When it ends, it has happened, half of a swap has, or nothing.          *)
LEMMA SettleMaps ==
  ASSUME IInv, StoreInv, op.at # "idle", Settle, NEW m, Aim(m),
         file' \in [Profiles -> Files], \A p \in Profiles : file'[p][1] \in {Login[p], m[p]},
         \A b \in backups' \ backups : b.profile \in Profiles /\ b.files[1] = Login[b.profile],
         backups' \subseteq Backup
  PROVE  StoreInv' /\ [Store!Next]_(Store!vars)
<1> DEFINE new == Login'
<1>1. /\ op'.at = "idle" /\ past' = [p \in Profiles |-> past[p] \cup {file'[p][1]}]
      /\ past \in [Profiles -> SUBSET Accounts]
  BY DEF Settle, IInv, TypeOK
<1>2. new = [p \in Profiles |-> file'[p][1]] /\ Login = [p \in Profiles |-> Login[p]]
  BY <1>1 DEF Login
<1>3. StoreInv'
  <2>1. \A p \in Profiles : new[p] \in past'[p]
    BY <1>1, <1>2
  <2>2. ASSUME NEW b \in backups' PROVE b.files[1] \in past'[b.profile]
    <3>1. b.profile \in Profiles
      BY DEF Backup
    <3>2. b.files[1] \in past[b.profile]
      BY <3>1 DEF StoreInv
    <3> QED BY <1>1, <3>1, <3>2
  <2> HIDE DEF Login
  <2> QED BY <1>1, <2>1, <2>2 DEF StoreInv
<1>4. /\ \A p \in Profiles : new[p] \in {Login[p], m[p]}
      /\ past' = [p \in Profiles |-> past[p] \cup {new[p]}]
      /\ \A p \in Profiles : Login[p] \in past[p]
  BY <1>1, <1>2 DEF StoreInv
<1>7. DOMAIN new = Profiles /\ new = [p \in Profiles |-> new[p]]
  BY <1>2
<1> HIDE DEF Login, new
<1>8. CASE new = Login
  <2>1. past' = past
    BY <1>1, <1>4, <1>8
  <2> QED BY <1>3, <1>8, <2>1, StoreStep DEF new
<1>9. ASSUME NEW p \in Profiles, NEW q \in Profiles, p # q, m = [Login EXCEPT ![p] = Login[q]]
      PROVE  new = Login \/ new = m
  BY <1>2, <1>4, <1>7, <1>9
<1>10. ASSUME NEW p \in Profiles, NEW q \in Profiles, p # q,
              m = [Login EXCEPT ![p] = Login[q], ![q] = Login[p]]
       PROVE  \/ new = Login \/ new = m
              \/ new = [Login EXCEPT ![p] = Login[q]] \/ new = [Login EXCEPT ![q] = Login[p]]
  <2>1. /\ m[p] = Login[q] /\ m[q] = Login[p]
        /\ \A r \in Profiles \ {p, q} : m[r] = Login[r] /\ new[r] = Login[r]
    BY <1>2, <1>4, <1>10
  <2>2. /\ m = [r \in Profiles |-> m[r]] /\ Login = [r \in Profiles |-> Login[r]]
        /\ [Login EXCEPT ![p] = Login[q]] = [r \in Profiles |-> IF r = p THEN Login[q] ELSE Login[r]]
        /\ [Login EXCEPT ![q] = Login[p]] = [r \in Profiles |-> IF r = q THEN Login[p] ELSE Login[r]]
    BY <1>2, <1>10
  <2>3. CASE new[p] = Login[p] /\ new[q] = Login[q]
    <3>1. \A r \in Profiles : new[r] = Login[r]
      BY <2>1, <2>3
    <3> QED BY <1>7, <2>2, <3>1
  <2>4. CASE new[p] = m[p] /\ new[q] = m[q]
    <3>1. \A r \in Profiles : new[r] = m[r]
      BY <2>1, <2>4
    <3> QED BY <1>7, <2>2, <3>1
  <2>5. CASE new[p] = m[p] /\ new[q] = Login[q]
    <3>1. \A r \in Profiles : new[r] = IF r = p THEN Login[q] ELSE Login[r]
      BY <2>1, <2>5
    <3>2. new = [r \in Profiles |-> IF r = p THEN Login[q] ELSE Login[r]]
      BY <1>7, <3>1
    <3> QED BY <2>2, <3>2
  <2>6. CASE new[p] = Login[p] /\ new[q] = m[q]
    <3>1. \A r \in Profiles : new[r] = IF r = q THEN Login[p] ELSE Login[r]
      BY <2>1, <2>6
    <3>2. new = [r \in Profiles |-> IF r = q THEN Login[p] ELSE Login[r]]
      BY <1>7, <3>1
    <3> QED BY <2>2, <3>2
  <2> QED BY <1>4, <2>3, <2>4, <2>5, <2>6
<1>11. ASSUME NEW p \in Profiles, NEW a, m = [Login EXCEPT ![p] = a]
       PROVE  new = Login \/ new = m
  BY <1>2, <1>4, <1>7, <1>11
<1>12. CASE new # Login
  <2> SUFFICES \/ \E p, q \in Profiles :
                   p # q /\ \/ new = [Login EXCEPT ![p] = Login[q]]
                            \/ new = [Login EXCEPT ![p] = Login[q], ![q] = Login[p]]
               \/ \E p \in Profiles : \E a \in past[p] : new = [Login EXCEPT ![p] = a]
    BY <1>3, <1>4, StoreStep DEF new
  <2>1. CASE \E p, q \in Profiles : p # q /\ m = [Login EXCEPT ![p] = Login[q]]
    <3>1. PICK p \in Profiles, q \in Profiles : p # q /\ m = [Login EXCEPT ![p] = Login[q]]
      BY <2>1
    <3>2. new = m
      BY <1>9, <1>12, <3>1
    <3> QED BY <3>1, <3>2
  <2>2. CASE \E p, q \in Profiles : p # q /\ m = [Login EXCEPT ![p] = Login[q], ![q] = Login[p]]
    <3>1. PICK p \in Profiles, q \in Profiles :
            p # q /\ m = [Login EXCEPT ![p] = Login[q], ![q] = Login[p]]
      BY <2>2
    <3>2. \/ new = m \/ new = [Login EXCEPT ![p] = Login[q]] \/ new = [Login EXCEPT ![q] = Login[p]]
      BY <1>10, <1>12, <3>1
    <3> QED BY <3>1, <3>2
  <2>3. CASE \E p \in Profiles : \E a \in past[p] : m = [Login EXCEPT ![p] = a]
    <3>1. PICK p \in Profiles : \E a \in past[p] : m = [Login EXCEPT ![p] = a]
      BY <2>3
    <3>2. PICK a \in past[p] : m = [Login EXCEPT ![p] = a]
      BY <3>1
    <3>3. new = m
      BY <1>11, <1>12, <3>2
    <3> QED BY <3>2, <3>3
  <2> QED BY <2>1, <2>2, <2>3 DEF Aim
<1> QED BY <1>8, <1>12

(* A transaction begins with a copy, a swap or a restore of what the store *)
(* holds in mind.                                                          *)
LEMMA BeginMaps ==
  ASSUME IInv, StoreInv, NEW kind \in Kinds, NEW ps \in Pairs, NEW to \in [Profiles -> Files],
         Begin(kind, ps, to), Aim([p \in Profiles |-> to[p][1]])
  PROVE  StoreInv' /\ [Store!Next]_(Store!vars)
<1> DEFINE m == [p \in Profiles |-> to[p][1]]  plan == ByPart(ps, to)
<1>1. /\ op.at = "idle" /\ op'.at = "saving" /\ op'.before = file /\ op'.plan = plan
      /\ UNCHANGED <<file, backups, past>>
  BY DEF Begin, plan
<1>2. /\ Login' = Login /\ \A p \in Profiles : Login[p] = file[p][1]
  BY <1>1 DEF Login
<1>3. \A i \in DOMAIN plan : plan[i] \in Write /\ plan[i].account = to[plan[i].profile][plan[i].part]
  BY PlanLemma
<1> HIDE DEF plan
<1>4. \A i \in DOMAIN plan : plan[i].part = 1 => plan[i].account = m[plan[i].profile]
  BY <1>3 DEF Write
<1> HIDE DEF Login, m
<1>5. Aim(m)'
  <2>1. Aim(m)
    BY DEF m
  <2> QED BY <1>1, <1>2, <2>1 DEF Aim
<1>6. Toward(m)'
  BY <1>1, <1>2, <1>4 DEF Toward
<1>7. StoreInv'
  BY <1>1, <1>2, <1>5, <1>6 DEF StoreInv
<1> QED BY <1>1, <1>2, <1>7, StoreStep

LEMMA BeginsMap ==
  ASSUME IInv, StoreInv,
         \/ \E p, q \in Profiles : BeginCopy(p, q) \/ BeginSwap(p, q)
         \/ \E p \in Profiles : BeginRestore(p)
  PROVE  StoreInv' /\ [Store!Next]_(Store!vars)
<1>1. file \in [Profiles -> Files] /\ backups \subseteq Backup
  BY DEF IInv, TypeOK
<1>2. op.at = "idle" => Login = [p \in Profiles |-> file[p][1]]
  BY DEF Login
<1> HIDE DEF Login
<1>3. ASSUME NEW p \in Profiles, NEW q \in Profiles, BeginCopy(p, q)
      PROVE  StoreInv' /\ [Store!Next]_(Store!vars)
  <2> DEFINE to == [file EXCEPT ![p] = file[q]]
  <2>1. <<p>> \in Pairs /\ "copy" \in Kinds /\ to \in [Profiles -> Files]
    BY <1>1 DEF Pairs, Kinds
  <2>2. Begin("copy", <<p>>, to) /\ p # q
    BY <1>3 DEF BeginCopy, Distinct
  <2>3. [r \in Profiles |-> to[r][1]] = [Login EXCEPT ![p] = Login[q]]
    BY <1>1, <1>2, <2>2 DEF Begin
  <2>4. Aim([r \in Profiles |-> to[r][1]])
    BY <2>2, <2>3 DEF Aim
  <2> QED BY <2>1, <2>2, <2>4, BeginMaps
<1>4. ASSUME NEW p \in Profiles, NEW q \in Profiles, BeginSwap(p, q)
      PROVE  StoreInv' /\ [Store!Next]_(Store!vars)
  <2> DEFINE to == [file EXCEPT ![p] = file[q], ![q] = file[p]]
  <2>1. <<p, q>> \in Pairs /\ "swap" \in Kinds /\ to \in [Profiles -> Files]
    BY <1>1 DEF Pairs, Kinds
  <2>2. Begin("swap", <<p, q>>, to) /\ p # q
    BY <1>4 DEF BeginSwap, Distinct
  <2>3. [r \in Profiles |-> to[r][1]] = [Login EXCEPT ![p] = Login[q], ![q] = Login[p]]
    BY <1>1, <1>2, <2>2 DEF Begin
  <2>4. Aim([r \in Profiles |-> to[r][1]])
    BY <2>2, <2>3 DEF Aim
  <2> QED BY <2>1, <2>2, <2>4, BeginMaps
<1>5. ASSUME NEW p \in Profiles, BeginRestore(p)
      PROVE  StoreInv' /\ [Store!Next]_(Store!vars)
  <2>1. PICK b \in Latest(p) : Begin("restore", <<p>>, [file EXCEPT ![p] = b.files])
    BY <1>5 DEF BeginRestore
  <2> DEFINE to == [file EXCEPT ![p] = b.files]
  <2>2. b.files \in Files /\ b \in backups /\ b.profile = p
    BY <1>1 DEF Latest, Backup
  <2>3. <<p>> \in Pairs /\ "restore" \in Kinds /\ to \in [Profiles -> Files]
    BY <1>1, <2>2 DEF Pairs, Kinds
  <2>4. [r \in Profiles |-> to[r][1]] = [Login EXCEPT ![p] = b.files[1]]
    BY <1>1, <1>2, <2>1 DEF Begin
  <2>5. b.files[1] \in past[p]
    BY <2>2 DEF StoreInv
  <2>6. Aim([r \in Profiles |-> to[r][1]])
    BY <2>4, <2>5 DEF Aim
  <2> QED BY <2>1, <2>3, <2>6, BeginMaps
<1> QED BY <1>3, <1>4, <1>5

(* A step that does not end the transaction is none of the store's.        *)
LEMMA GoesOn ==
  ASSUME StoreInv, op.at # "idle", op'.at # "idle", op'.before = op.before, past' = past,
         NEW m, Aim(m), Toward(m)',
         \A b \in backups' \ backups : b.files[1] \in past[b.profile]
  PROVE  StoreInv' /\ [Store!Next]_(Store!vars)
<1>1. Login' = Login /\ Aim(m)'
  BY LoginKept
<1> HIDE DEF Login
<1>2. StoreInv'
  BY <1>1 DEF StoreInv
<1> QED BY <1>1, <1>2, StoreStep

LEMMA SaveMaps == IInv /\ StoreInv /\ Save => StoreInv' /\ [Store!Next]_(Store!vars)
<1> SUFFICES ASSUME IInv, StoreInv, Save PROVE StoreInv' /\ [Store!Next]_(Store!vars)
  OBVIOUS
<1> DEFINE b == Saved(Head(op.save))
<1>1. /\ op.at = "saving" /\ op.at # "idle" /\ Len(op.save) > 0 /\ op.save \in Seq(Profiles)
      /\ file = op.before /\ file \in [Profiles -> Files] /\ backups \subseteq Backup
      /\ UNCHANGED <<file, log, now>>
  BY DEF Save, IInv, TypeOK, Covered
<1>2. Head(op.save) \in Profiles
  BY <1>1, TailLemma
<1>3. b \in Backup /\ b.files = file[Head(op.save)] /\ b.profile = Head(op.save)
  BY <1>1, <1>2 DEF Saved, Backup, IInv, TypeOK
<1> HIDE DEF b
<1>4. PICK m : Aim(m) /\ Toward(m)
  BY <1>1 DEF StoreInv
<1>5. \A p \in Profiles : Login[p] = file[p][1]
  BY <1>1 DEF Login
<1>6. b.files[1] = Login[b.profile] /\ b.files[1] \in past[b.profile]
  BY <1>2, <1>3, <1>5 DEF StoreInv
<1>7. CASE /\ backups' = backups \cup {b}
           /\ op' = [op EXCEPT !.save = Tail(@), !.at = IF Len(op.save) > 1 THEN @ ELSE "applying"]
           /\ UNCHANGED <<past, count>>
  <2>1. op'.at # "idle" /\ op'.before = op.before /\ op'.plan = op.plan
    BY <1>1, <1>7 DEF IInv, TypeOK
  <2>2. Login' = Login
    BY <1>1, <1>7, <2>1, LoginKept
  <2>3. Toward(m)'
    BY <1>1, <1>4, <2>1, <2>2 DEF Toward
  <2> QED BY <1>1, <1>4, <1>6, <1>7, <2>1, <2>3, GoesOn
<1>8. CASE May("failures", Failures) /\ backups' \in {backups, backups \cup {b}} /\ Settle
  <2>1. backups' \subseteq Backup /\ file' \in [Profiles -> Files]
    BY <1>1, <1>3, <1>8
  <2>2. \A c \in backups' \ backups : c.profile \in Profiles /\ c.files[1] = Login[c.profile]
    BY <1>2, <1>3, <1>6, <1>8
  <2>3. \A p \in Profiles : file'[p][1] \in {Login[p], m[p]}
    BY <1>1, <1>4 DEF Toward
  <2> QED BY <1>1, <1>4, <1>8, <2>1, <2>2, <2>3, SettleMaps
<1> QED BY <1>7, <1>8 DEF Save, b

LEMMA ApplyMaps == IInv /\ StoreInv /\ Apply => StoreInv' /\ [Store!Next]_(Store!vars)
<1> SUFFICES ASSUME IInv, StoreInv, Apply PROVE StoreInv' /\ [Store!Next]_(Store!vars)
  OBVIOUS
<1> DEFINE w == Head(op.plan)
<1>1. /\ op.at = "applying" /\ op.at # "idle" /\ Len(op.plan) > 0 /\ op.plan \in Seq(Write)
      /\ file \in [Profiles -> Files]
      /\ UNCHANGED <<backups, log, past, now>>
  BY DEF Apply, IInv, TypeOK, Covered
<1>2. w \in Write /\ w = op.plan[1] /\ 1 \in DOMAIN op.plan
  BY <1>1, TailLemma
<1>3. PICK m : Aim(m) /\ Toward(m)
  BY <1>1 DEF StoreInv
<1>4. w.part = 1 => w.account = m[w.profile]
  BY <1>2, <1>3 DEF Toward
<1> HIDE DEF w
<1>5. \A p \in Profiles : file[p][1] \in {Login[p], m[p]} /\ Put(w)[p][1] \in {Login[p], m[p]}
  BY <1>1, <1>2, <1>3, <1>4, PutLemma DEF Toward
<1>6. CASE /\ file' = Put(w) /\ UNCHANGED count
           /\ op' = [op EXCEPT !.plan = Tail(@), !.at = IF Len(op.plan) > 1 THEN @ ELSE "logging"]
  <2>1. op'.at # "idle" /\ op'.before = op.before /\ op'.plan = Tail(op.plan)
    BY <1>1, <1>6 DEF IInv, TypeOK
  <2>2. Login' = Login
    BY <1>1, <2>1, LoginKept
  <2>3. \A i \in DOMAIN Tail(op.plan) : Tail(op.plan)[i].part = 1
          => Tail(op.plan)[i].account = m[Tail(op.plan)[i].profile]
    BY <1>1, <1>3, TailLemma DEF Toward
  <2>4. Toward(m)'
    BY <1>5, <1>6, <2>1, <2>2, <2>3 DEF Toward
  <2> QED BY <1>1, <1>3, <2>1, <2>4, GoesOn
<1>7. CASE May("failures", Failures) /\ file' \in {file, Put(w)} /\ op' = [op EXCEPT !.at = "undoing"]
  <2>1. op'.at # "idle" /\ op'.before = op.before /\ op'.plan = op.plan
    BY <1>1, <1>7 DEF IInv, TypeOK
  <2>2. Login' = Login
    BY <1>1, <2>1, LoginKept
  <2>3. Toward(m)'
    BY <1>3, <1>5, <1>7, <2>1, <2>2 DEF Toward
  <2> QED BY <1>1, <1>3, <2>1, <2>3, GoesOn
<1> QED BY <1>6, <1>7 DEF Apply, w

LEMMA UndoMaps == IInv /\ StoreInv /\ Undo => StoreInv' /\ [Store!Next]_(Store!vars)
<1> SUFFICES ASSUME IInv, StoreInv, Undo PROVE StoreInv' /\ [Store!Next]_(Store!vars)
  OBVIOUS
<1> DEFINE w == Head(op.undo)
<1>1. /\ op.at = "undoing" /\ op.at # "idle" /\ Len(op.undo) > 0 /\ op.undo \in Seq(Write)
      /\ file \in [Profiles -> Files] /\ backups \subseteq Backup
      /\ UNCHANGED <<backups, log, now>>
  BY DEF Undo, IInv, TypeOK, Covered
<1>2. w \in Write /\ w = op.undo[1] /\ 1 \in DOMAIN op.undo
  BY <1>1, TailLemma
<1>3. PICK m : Aim(m) /\ Toward(m)
  BY <1>1 DEF StoreInv
<1>4. w.account = op.before[w.profile][w.part] /\ w.profile \in Profiles
  BY <1>1, <1>2 DEF IInv, Covered, Write
<1>5. \A p \in Profiles : Login[p] = op.before[p][1]
  BY <1>1 DEF Login
<1> HIDE DEF w
<1>6. /\ Put(w) \in [Profiles -> Files]
      /\ \A p \in Profiles : file[p][1] \in {Login[p], m[p]} /\ Put(w)[p][1] \in {Login[p], m[p]}
  BY <1>1, <1>2, <1>3, <1>4, <1>5, PutLemma DEF Toward
<1>7. ASSUME Settle, file' \in {file, Put(w)}
      PROVE  StoreInv' /\ [Store!Next]_(Store!vars)
  <2>1. /\ backups' \subseteq Backup /\ backups' \ backups = {} /\ file' \in [Profiles -> Files]
        /\ \A p \in Profiles : file'[p][1] \in {Login[p], m[p]}
    BY <1>1, <1>6, <1>7
  <2> QED BY <1>1, <1>3, <1>7, <2>1, SettleMaps
<1>8. CASE file' = Put(w) /\ op' = [op EXCEPT !.undo = Tail(@)] /\ UNCHANGED past
  <2>1. op'.at # "idle" /\ op'.before = op.before /\ op'.plan = op.plan
    BY <1>1, <1>8 DEF IInv, TypeOK
  <2>2. Login' = Login
    BY <1>1, <1>8, <2>1, LoginKept
  <2>3. Toward(m)'
    BY <1>3, <1>6, <1>8, <2>1, <2>2 DEF Toward
  <2> QED BY <1>1, <1>3, <1>8, <2>1, <2>3, GoesOn
<1> QED BY <1>7, <1>8 DEF Undo, w

LEMMA LogMaps == IInv /\ StoreInv /\ (Log \/ Crash) => StoreInv' /\ [Store!Next]_(Store!vars)
<1> SUFFICES ASSUME IInv, StoreInv, Log \/ Crash PROVE StoreInv' /\ [Store!Next]_(Store!vars)
  OBVIOUS
<1>1. /\ op.at # "idle" /\ UNCHANGED <<file, backups, now>>
      /\ file \in [Profiles -> Files] /\ backups \subseteq Backup
  BY DEF Log, Crash, IInv, TypeOK
<1>2. PICK m : Aim(m) /\ Toward(m)
  BY <1>1 DEF StoreInv
<1>3. CASE Settle
  <2>1. /\ backups' \subseteq Backup /\ backups' \ backups = {} /\ file' \in [Profiles -> Files]
        /\ \A p \in Profiles : file'[p][1] \in {Login[p], m[p]}
    BY <1>1, <1>2 DEF Toward
  <2> QED BY <1>1, <1>2, <1>3, <2>1, SettleMaps
<1>4. CASE op' = [op EXCEPT !.at = "undoing"] /\ UNCHANGED past
  <2>1. op'.at # "idle" /\ op'.before = op.before /\ op'.plan = op.plan
    BY <1>1, <1>4 DEF IInv, TypeOK
  <2>2. Login' = Login
    BY <1>1, <1>4, <2>1, LoginKept
  <2>3. Toward(m)'
    BY <1>1, <1>2, <2>1, <2>2 DEF Toward
  <2> QED BY <1>1, <1>2, <1>4, <2>1, <2>3, GoesOn
<1> QED BY <1>3, <1>4 DEF Log, Crash

LEMMA StoreLemma ==
  IInv /\ StoreInv /\ [Next]_vars => StoreInv' /\ [Store!Next]_(Store!vars)
<1> SUFFICES ASSUME IInv, StoreInv, [Next]_vars PROVE StoreInv' /\ [Store!Next]_(Store!vars)
  OBVIOUS
<1>1. ASSUME UNCHANGED <<file, backups, op, past>>
      PROVE  StoreInv' /\ [Store!Next]_(Store!vars)
  <2>1. Login' = Login
    BY <1>1 DEF Login
  <2> HIDE DEF Login
  <2>2. StoreInv'
    BY <1>1, <2>1 DEF StoreInv, Aim, Toward
  <2> QED BY <1>1, <2>1, <2>2, StoreStep
<1> QED BY <1>1, BeginsMap, SaveMaps, ApplyMaps, UndoMaps, LogMaps DEF Next, Tick, vars

LEMMA StoreStart == Init => StoreInv /\ Store!Init
<1> SUFFICES ASSUME Init PROVE StoreInv /\ Store!Init
  OBVIOUS
<1>1. \A p \in Profiles : file[p][1] = Own[p]
  BY PartsLemma DEF Init
<1>2. Login = [p \in Profiles |-> Own[p]]
  BY <1>1 DEF Login, Init
<1>3. /\ \A p \in Profiles : past[p] = {Own[p]}
      /\ past = [p \in Profiles |-> {Own[p]}]
  BY DEF Init
<1>4. StoreInv
  BY <1>2, <1>3 DEF StoreInv, Init
<1>5. /\ Login \in [Profiles -> Accounts]
      /\ \A p, q \in Profiles : p # q => Login[p] # Login[q]
      /\ past = [p \in Profiles |-> {Login[p]}]
  BY <1>2, <1>3, AuthAssumption DEF Accounts
<1>6. Store!Init
  BY <1>5 DEF Store!Init, Login
<1> QED BY <1>4, <1>6

-----------------------------------------------------------------------------
(* The parts of a transaction have their types: it writes each file at     *)
(* most once and enters the journal at most once.                          *)
THEOREM TypeCorrect == Spec => []TypeOK
<1>1. IInv => TypeOK
  BY DEF IInv
<1> QED BY <1>1, InitLemma, StepLemma, PTL DEF Spec

(* No login is lost, for any profiles, and any number of transactions,     *)
(* failing writes and crashes.                                             *)
THEOREM KeepsLogins == Spec => []NothingLost
<1>1. IInv => NothingLost
  <2> SUFFICES ASSUME IInv, NEW a \in Accounts
               PROVE  (\E p \in Profiles : file[p][1] = a) \/ (\E b \in backups : b.files[1] = a)
    BY DEF NothingLost
  <2>1. (\E p \in Profiles : op.before[p][1] = a) \/ Stored(a)
    BY DEF IInv, Covered
  <2>2. \A p \in Profiles : file[p][1] = op.before[p][1] \/ Stored(op.before[p][1])
    BY DEF IInv, Covered
  <2> QED BY <2>1, <2>2 DEF Stored
<1> QED BY <1>1, InitLemma, StepLemma, PTL DEF Spec

(* The transactions implement the store: seen from the moments at which    *)
(* none runs, each of them copies, swaps or restores logins, altogether or *)
(* not at all, whatever writes fail and wherever it crashes; half a swap   *)
(* is a copy.                                                              *)
THEOREM StoreRefinement == Spec => ImplementsStore
<1> QED BY InitLemma, StepLemma, StoreStart, StoreLemma, PTL DEF Spec, ImplementsStore, Store!Spec

-----------------------------------------------------------------------------
(***************************************************************************)
(* Installation: a command that installs, seeds or uninstalls does all of  *)
(* it or nothing, and keeps what the user has made of the files, as far as *)
(* no rollback fails; and after an uninstall nothing is left.              *)
(***************************************************************************)

Rolling == {"replacing", "activating", "undoing"}
Busy == {"replacing", "activating"}
Late == {"looking", "removing", "reading", "unhooking", "unrecording"}

HooksIn(x) == x # None /\ x.hooks
WrittenIn(x) == IF x = None THEN 0 ELSE x.written

(* What a command is about to write, given what it found.                  *)
Sensible(what, plan, before) ==
  /\ \A f \in {"package", "workflow"} \cap DOMAIN plan : plan[f] # Mine
  /\ "settings" \in DOMAIN plan =>
       plan["settings"] \in Settings /\ plan["settings"].written = WrittenIn(before["settings"])
  /\ what = "uninstall" =>
       /\ DOMAIN plan \subseteq {"package", "record"}
       /\ \A f \in {"package", "record"} : IF f \in DOMAIN plan THEN plan[f] = None ELSE before[f] = None
  /\ what # "uninstall" =>
       /\ {"settings", "owned"} \subseteq DOMAIN plan
       /\ plan["owned"] \in Owned /\ plan["owned"].hooks
       /\ IF "workflow" \in DOMAIN plan THEN plan["owned"].workflow # None
          ELSE plan["owned"].workflow = IF before["owned"] = None THEN None ELSE before["owned"].workflow
PlanOK(c) ==
  /\ cmd[c].at = "new" => cmd[c].result = None
  /\ cmd[c].at \in Rolling =>
    /\ cmd[c].before \in [Targets -> Stuff] /\ \A f \in Targets : cmd[c].before[f] \in Content(f)
    /\ cmd[c].result \in IF cmd[c].at \in Busy THEN {None} ELSE {"failed", "broken"}
    /\ cmd[c].owned = cmd[c].before["owned"]
    /\ Sensible(cmd[c].op, cmd[c].plan, cmd[c].before)

(* How far it is with a file that nobody else has changed.                 *)
Handled(c, f) ==
  LET done == cmd[c].moved[f]
      before == cmd[c].before[f]
  IN  IF f \in DOMAIN cmd[c].moved
      THEN /\ IF done.backup = "none" THEN before = None ELSE before # None /\ kept[f] = before
           /\ disk[f] = IF done.activated THEN cmd[c].plan[f]
                        ELSE IF done.backup = "moved" THEN None ELSE before
      ELSE disk[f] = before
HandledOK(c) ==
  cmd[c].at \in Rolling =>
    \A f \in Targets \ touched :
      cmd[c].result # "broken" \/ f \notin DOMAIN cmd[c].plan =>
        Handled(c, f) /\ kept[f] \in {None, cmd[c].before[f]}

(* Which files it is through with.                                         *)
OrderOK(c) ==
  cmd[c].at \in Busy =>
    /\ \A f \in DOMAIN cmd[c].moved :
         IF f \in cmd[c].todo
         THEN cmd[c].at = "activating" /\ f = First(cmd[c].todo) /\ ~cmd[c].moved[f].activated
         ELSE cmd[c].moved[f].activated
    /\ \A f \in Targets \ DOMAIN cmd[c].moved : kept[f] = None
    /\ \A f \in DOMAIN cmd[c].plan \ (cmd[c].todo \cup DOMAIN cmd[c].moved \cup touched) :
         cmd[c].plan[f] = cmd[c].before[f]
    /\ cmd[c].at = "activating" => cmd[c].todo # {} /\ First(cmd[c].todo) \in DOMAIN cmd[c].moved

(* Without --force no file of the user is in the plan.                     *)
MineOK(c) ==
  ~cmd[c].force =>
    /\ cmd[c].at \in Rolling =>
         \A f \in ({"package", "workflow"} \cap DOMAIN cmd[c].plan) \ touched :
            disk[f] # Mine /\ kept[f] # Mine
    /\ cmd[c].at = "removing" /\ cmd[c].owned.workflow # None /\ "workflow" \notin touched =>
         disk["workflow"] # Mine

(* Whatever the user has changed: a file that the command has not written, *)
(* or has taken back, is what it found or what the user made of it.        *)
Unwritten(c, f) ==
  IF f \in DOMAIN cmd[c].moved THEN ~cmd[c].moved[f].activated /\ cmd[c].result # "broken"
  ELSE cmd[c].result # "broken" \/ f \notin DOMAIN cmd[c].plan
UserOK(c) ==
  cmd[c].at \in Rolling =>
    /\ \A f \in {"package", "workflow"} :
         /\ Unwritten(c, f) => disk[f] \in {cmd[c].before[f], Mine, None}
         /\ kept[f] \in {cmd[c].before[f], Mine, None}
         /\ cmd[c].at \in Busy /\ f \in DOMAIN cmd[c].plan \ cmd[c].todo =>
              disk[f] \in {cmd[c].plan[f], Mine, None}
    /\ HooksIn(kept["settings"]) => HooksIn(cmd[c].before["settings"])
    /\ Unwritten(c, "settings") /\ HooksIn(disk["settings"]) => HooksIn(cmd[c].before["settings"])

(* uninstall after the files of the package.                               *)
LateOK(c) ==
  cmd[c].at \in Late =>
    /\ cmd[c].op = "uninstall" /\ cmd[c].result = None /\ kept = NoBackups
    /\ cmd[c].owned = disk["owned"] /\ cmd[c].owned # None
    /\ cmd[c].before \in [Targets -> Stuff]
    /\ disk["record"] = None /\ disk["package"] \in {None, Mine}
    /\ cmd[c].at = "unhooking" =>
         /\ cmd[c].before["settings"] \in Settings
         /\ "settings" \notin touched => disk["settings"] = cmd[c].before["settings"]

CommandOK(c) == PlanOK(c) /\ HandledOK(c) /\ OrderOK(c) /\ MineOK(c) /\ UserOK(c) /\ LateOK(c)
CommandInv == \A c \in Commands : CommandOK(c)

(* What is in a profile is recorded.                                       *)
Known(d) ==
  /\ d["workflow"] \notin {None, Mine} => d["owned"] # None /\ d["owned"].workflow # None
  /\ HooksIn(d["settings"]) => d["owned"] # None
  /\ d["owned"] # None => d["owned"].hooks
(* A command that died, or could not undo its steps, may have left files   *)
(* that nothing records; an uninstall that could not has left no others.   *)
Harmed ==
  Died \/ \E c \in Commands : cmd[c].result = "broken" /\ ~(inside = c /\ cmd[c].op = "uninstall")
KnownOK(c) ==
  /\ cmd[c].at \in Rolling => Known(cmd[c].before)
  /\ cmd[c].at \in Late => Known(disk)
  /\ cmd[c].at \in {"reading", "unhooking", "unrecording"} => disk["workflow"] \in {None, Mine}
  /\ cmd[c].at = "unrecording" => ~HooksIn(disk["settings"])
KnownInv ==
  ~Harmed => (inside = None => Known(disk)) /\ \A c \in Commands : KnownOK(c)

InstallInv == InstallTypeOK /\ CommandInv /\ KnownInv

-----------------------------------------------------------------------------
(* What the types say of the variables and of the commands.                *)
LEMMA Fields ==
  ASSUME InstallTypeOK
  PROVE  /\ disk \in [Targets -> Stuff] /\ kept \in [Targets -> Stuff]
         /\ DOMAIN cmd = Commands /\ cmd = [c \in Commands |-> cmd[c]]
         /\ \A c \in Commands : IsCommand(cmd[c])
         /\ \A c \in Commands : inside = c <=> cmd[c].at \notin {"new", "gone", "dead"}
         /\ \A c \in Commands : c # None
BY InstallAssumption DEF InstallTypeOK

(* What one file may hold is among what files may hold.                    *)
LEMMA Contents ==
  ASSUME NEW f \in Targets, NEW x \in Content(f)
  PROVE  x \in Stuff
BY DEF Stuff

(* A file gets something it may hold.                                      *)
LEMMA Filled ==
  ASSUME NEW d, d \in [Targets -> Stuff], NEW f \in Targets, NEW x \in Content(f)
  PROVE  /\ [d EXCEPT ![f] = x] \in [Targets -> Stuff] /\ [d EXCEPT ![f] = x][f] = x
         /\ \A g \in Targets \ {f} : [d EXCEPT ![f] = x][g] = d[g]
BY Contents

(* A file may be missing; at first none has a backup.                      *)
LEMMA Emptied ==
  /\ \A f \in Targets : None \in Content(f)
  /\ NoBackups \in [Targets -> Stuff] /\ \A f \in Targets : NoBackups[f] = None
<1>1. \A f \in Targets : None \in Content(f)
  BY DEF Targets, Content, Workflow
<1> QED
  BY <1>1, Contents DEF NoBackups

(* Some files have a first one,                                            *)
LEMMA FirstOf ==
  ASSUME NEW S \in SUBSET Targets, S # {}
  PROVE  First(S) \in S
<1>0. /\ Rank["package"] = 1 /\ Rank["record"] = 2 /\ Rank["workflow"] = 3
      /\ Rank["settings"] = 4 /\ Rank["owned"] = 5
  BY DEF Rank
<1> DEFINE best(f) == f \in S /\ \A g \in S : Rank[f] <= Rank[g]
<1>1. ASSUME "package" \in S PROVE \E f \in S : best(f)
  <2>1. best("package")
    BY <1>0, <1>1 DEF Targets
  <2> QED
    BY <2>1
<1>2. ASSUME "record" \in S, "package" \notin S PROVE \E f \in S : best(f)
  <2>1. best("record")
    BY <1>0, <1>2 DEF Targets
  <2> QED
    BY <2>1
<1>3. ASSUME "workflow" \in S, "package" \notin S, "record" \notin S PROVE \E f \in S : best(f)
  <2>1. best("workflow")
    BY <1>0, <1>3 DEF Targets
  <2> QED
    BY <2>1
<1>4. ASSUME "settings" \in S, "package" \notin S, "record" \notin S, "workflow" \notin S
      PROVE  \E f \in S : best(f)
  <2>1. best("settings")
    BY <1>0, <1>4 DEF Targets
  <2> QED
    BY <2>1
<1>5. ASSUME "owned" \in S, "package" \notin S, "record" \notin S, "workflow" \notin S, "settings" \notin S
      PROVE \E f \in S : best(f)
  <2>1. best("owned")
    BY <1>0, <1>5 DEF Targets
  <2> QED
    BY <2>1
<1>6. \E f \in S : best(f)
  BY <1>1, <1>2, <1>3, <1>4, <1>5 DEF Targets
<1> QED
  BY <1>6 DEF First

(* and a last one.                                                         *)
LEMMA LastOf ==
  ASSUME NEW S \in SUBSET Targets, S # {}
  PROVE  Last(S) \in S
<1>0. /\ Rank["package"] = 1 /\ Rank["record"] = 2 /\ Rank["workflow"] = 3
      /\ Rank["settings"] = 4 /\ Rank["owned"] = 5
  BY DEF Rank
<1> DEFINE best(f) == f \in S /\ \A g \in S : Rank[g] <= Rank[f]
<1>1. ASSUME "owned" \in S PROVE \E f \in S : best(f)
  <2>1. best("owned")
    BY <1>0, <1>1 DEF Targets
  <2> QED
    BY <2>1
<1>2. ASSUME "settings" \in S, "owned" \notin S PROVE \E f \in S : best(f)
  <2>1. best("settings")
    BY <1>0, <1>2 DEF Targets
  <2> QED
    BY <2>1
<1>3. ASSUME "workflow" \in S, "owned" \notin S, "settings" \notin S
      PROVE \E f \in S : best(f)
  <2>1. best("workflow")
    BY <1>0, <1>3 DEF Targets
  <2> QED
    BY <2>1
<1>4. ASSUME "record" \in S, "owned" \notin S, "settings" \notin S, "workflow" \notin S
      PROVE  \E f \in S : best(f)
  <2>1. best("record")
    BY <1>0, <1>4 DEF Targets
  <2> QED
    BY <2>1
<1>5. ASSUME "package" \in S, "owned" \notin S, "settings" \notin S, "workflow" \notin S, "record" \notin S
      PROVE  \E f \in S : best(f)
  <2>1. best("package")
    BY <1>0, <1>5 DEF Targets
  <2> QED
    BY <2>1
<1>6. \E f \in S : best(f)
  BY <1>1, <1>2, <1>3, <1>4, <1>5 DEF Targets
<1> QED
  BY <1>6 DEF Last

(* A command that has not begun, or is over, is of the type of commands.   *)
LEMMA IdleType ==
  ASSUME NEW at \in Places
  PROVE  /\ IsCommand([Idle EXCEPT !.at = at]) /\ [Idle EXCEPT !.at = at].at = at
         /\ [Idle EXCEPT !.at = at].result = None /\ [Idle EXCEPT !.at = at].op = None
BY DEF Idle, IsCommand, Nothing

(* What a step makes of the command under way.                             *)
Becomes(c, x) ==
  /\ cmd' = [b \in Commands |-> IF b = c THEN x ELSE cmd[b]]
  /\ IsCommand(x)

(* One command changes, and stays of the type of commands.                 *)
LEMMA Onward ==
  ASSUME InstallTypeOK, NEW c \in Commands, NEW x, Becomes(c, x)
  PROVE  /\ cmd'[c] = x /\ \A b \in Commands \ {c} : cmd'[b] = cmd[b]
         /\ cmd' = [b \in Commands |-> cmd'[b]] /\ \A b \in Commands : IsCommand(cmd'[b])
BY Fields DEF Becomes

(* The plans.                                                              *)
Typed(plan) ==
  /\ DOMAIN plan \subseteq Targets /\ plan = [f \in DOMAIN plan |-> plan[f]]
  /\ \A f \in DOMAIN plan : plan[f] \in Content(f)
Spares(plan) == \A f \in {"package", "workflow"} \cap DOMAIN plan : disk[f] # Mine

(* Hooking keeps what the user wrote into the settings.                    *)
LEMMA HookedFacts ==
  ASSUME InstallTypeOK
  PROVE  /\ Hooked \in Settings /\ Hooked.hooks /\ Hooked.written = WrittenIn(disk["settings"])
<1>1. disk["settings"] \in Settings \cup {None}
  BY DEF InstallTypeOK, Targets, Content
<1>2. 0 \in 0 .. MaxEdits
  BY InstallAssumption
<1> QED
  BY <1>1, <1>2 DEF Hooked, Settings, WrittenIn

(* What each file may hold, and what the workflow manifest says.           *)
LEMMA Found ==
  ASSUME InstallTypeOK
  PROVE  /\ disk["package"] \in Versions \cup {Mine, None} /\ disk["record"] \in Versions \cup {None}
         /\ disk["workflow"] \in Workflow /\ disk["settings"] \in Settings \cup {None}
         /\ disk["owned"] \in Owned \cup {None} /\ kept["settings"] \in Settings \cup {None}
         /\ Recorded \in Versions \cup {Derived, None} /\ Recorded # Mine
<1>1. /\ disk["package"] \in Versions \cup {Mine, None} /\ disk["record"] \in Versions \cup {None}
      /\ disk["workflow"] \in Workflow /\ disk["settings"] \in Settings \cup {None}
      /\ disk["owned"] \in Owned \cup {None} /\ kept["settings"] \in Settings \cup {None}
  BY DEF InstallTypeOK, Targets, Content
<1> QED
  BY <1>1, InstallAssumption DEF Recorded, Owned

(* What an install plans to write is sensible,                             *)
LEMMA InstallFacts ==
  ASSUME InstallTypeOK, NEW v \in Versions
  PROVE  /\ Typed(InstallPlan(v)) /\ Sensible("install", InstallPlan(v), disk)
         /\ Replaceable(v) => Spares(InstallPlan(v))
<1> DEFINE plan == InstallPlan(v)
<1>1. /\ DOMAIN plan = Targets /\ plan = [f \in DOMAIN plan |-> plan[f]]
      /\ plan["package"] = v /\ plan["record"] = v /\ plan["workflow"] = v
      /\ plan["settings"] = Hooked /\ plan["owned"] = [workflow |-> v, hooks |-> TRUE]
  BY DEF InstallPlan, Targets
<1>2. v # Mine /\ v # None /\ [workflow |-> v, hooks |-> TRUE] \in Owned
  BY InstallAssumption DEF Owned
<1> HIDE DEF plan
<1>3. Typed(plan)
  BY <1>1, <1>2, HookedFacts DEF Typed, Targets, Content, Workflow
<1>4. Sensible("install", plan, disk)
  BY <1>1, <1>2, HookedFacts DEF Sensible, Targets
<1>5. Replaceable(v) => Spares(plan)
  BY <1>2, Found, InstallAssumption DEF Replaceable, PackageIsOurs, WorkflowIsOurs, Spares
<1> QED
  BY <1>3, <1>4, <1>5 DEF plan

(* and so is what a seeding plans,                                         *)
LEMMA EnsureFacts ==
  ASSUME InstallTypeOK
  PROVE  Typed(EnsurePlan) /\ Sensible("ensure", EnsurePlan, disk) /\ Spares(EnsurePlan)
<1> DEFINE plan == EnsurePlan
           owned == [workflow |-> IF Seeds THEN Rendered ELSE Recorded, hooks |-> TRUE]
<1>1. /\ DOMAIN plan = {"settings", "owned"} \cup (IF Seeds THEN {"workflow"} ELSE {})
      /\ plan = [f \in DOMAIN plan |-> plan[f]]
      /\ Seeds => plan["workflow"] = Rendered
      /\ plan["settings"] = Hooked /\ plan["owned"] = owned
  BY DEF EnsurePlan
<1>2. Seeds => /\ Rendered \in Versions \cup {Derived} /\ Rendered # Mine /\ Rendered # None
               /\ disk["workflow"] = None
  BY Found, InstallAssumption DEF Seeds, Rendered
<1>3. /\ owned \in Owned /\ owned.hooks /\ owned.workflow = IF Seeds THEN Rendered ELSE Recorded
  BY <1>2, Found DEF Owned
<1> HIDE DEF plan, owned
<1>4. Typed(plan)
  BY <1>1, <1>2, <1>3, HookedFacts DEF Typed, Targets, Content, Workflow
<1>5. Sensible("ensure", plan, disk)
  BY <1>1, <1>2, <1>3, HookedFacts DEF Sensible, Recorded
<1>6. Spares(plan)
  BY <1>1, <1>2, InstallAssumption DEF Spares
<1> QED
  BY <1>4, <1>5, <1>6 DEF plan

(* and what an uninstall plans.                                            *)
LEMMA RemoveFacts ==
  ASSUME InstallTypeOK
  PROVE  /\ Typed(RemovePlan) /\ Sensible("uninstall", RemovePlan, disk)
         /\ Removable => Spares(RemovePlan)
<1> DEFINE plan == RemovePlan
<1>1. /\ DOMAIN plan = {g \in {"package", "record"} : disk[g] # None}
      /\ plan = [f \in DOMAIN plan |-> plan[f]] /\ \A f \in DOMAIN plan : plan[f] = None
  BY DEF RemovePlan
<1> HIDE DEF plan
<1>2. Typed(plan)
  BY <1>1, Emptied DEF Typed, Targets
<1>3. Sensible("uninstall", plan, disk)
  BY <1>1, InstallAssumption DEF Sensible
<1>4. Removable => Spares(plan)
  BY <1>1, Found, InstallAssumption DEF Removable, PackageIsOurs, Spares
<1> QED
  BY <1>2, <1>3, <1>4 DEF plan

-----------------------------------------------------------------------------
(* What each step makes of its command.                                    *)
Fixed(c, fields) == \A f \in fields : cmd'[c][f] = cmd[c][f]
Asked == {"op", "force", "plan", "owned", "before"}
UserRests == UNCHANGED <<source, written, edits, touched>>
Goes(c) ==
  /\ cmd' = [b \in Commands |-> cmd'[b]] /\ IsCommand(cmd'[c])
  /\ \A b \in Commands \ {c} : cmd'[b] = cmd[b]

(* A command that has looked has its plan and what it found.               *)
LEMMA StageFacts ==
  ASSUME InstallTypeOK, NEW c \in Commands, StageInstall(c) \/ StageEnsure(c) \/ StageUninstall(c)
  PROVE  /\ Goes(c) /\ cmd[c].at = "new" /\ inside = None /\ inside' = c
         /\ UNCHANGED <<disk, kept, stray, failures, written, edits, touched>> /\ source' \in BOOLEAN
         /\ cmd'[c].at = "replacing"
         /\ cmd'[c].todo = DOMAIN cmd'[c].plan /\ DOMAIN cmd'[c].moved = {}
         /\ cmd'[c].owned = disk["owned"] /\ cmd'[c].before = disk /\ cmd'[c].result = None
         /\ Sensible(cmd'[c].op, cmd'[c].plan, disk)
         /\ ~cmd'[c].force => Spares(cmd'[c].plan)
<1>1. ASSUME NEW what \in {"install", "ensure", "uninstall"}, NEW force \in BOOLEAN, NEW plan, Typed(plan),
             Sensible(what, plan, disk), ~force => Spares(plan), Stage(c, what, force, plan),
             source' \in BOOLEAN
      PROVE  /\ Goes(c) /\ cmd[c].at = "new" /\ inside = None /\ inside' = c
             /\ UNCHANGED <<disk, kept, stray, failures, written, edits, touched>> /\ source' \in BOOLEAN
             /\ cmd'[c].at = "replacing"
             /\ cmd'[c].todo = DOMAIN cmd'[c].plan /\ DOMAIN cmd'[c].moved = {}
             /\ cmd'[c].owned = disk["owned"] /\ cmd'[c].before = disk /\ cmd'[c].result = None
             /\ Sensible(cmd'[c].op, cmd'[c].plan, disk)
             /\ ~cmd'[c].force => Spares(cmd'[c].plan)
  <2> DEFINE x == [Idle EXCEPT !.at = "replacing", !.op = what, !.force = force, !.plan = plan,
                               !.todo = DOMAIN plan, !.owned = disk["owned"], !.before = disk]
  <2>1. /\ x.at = "replacing" /\ x.op = what /\ x.force = force /\ x.plan = plan /\ x.todo = DOMAIN plan
        /\ x.owned = disk["owned"] /\ x.before = disk /\ x.result = None /\ DOMAIN x.moved = {}
    BY DEF Idle, Nothing
  <2>2. disk \in [Targets -> Stuff] /\ disk["owned"] \in Owned \cup {None}
    BY Fields, Found
  <2>3. plan \in [DOMAIN plan -> Stuff]
    BY <1>1, Contents DEF Typed
  <2>4. IsCommand(x)
    BY <1>1, <2>2, <2>3 DEF Idle, Nothing, IsCommand, Places, Typed
  <2>5. cmd' = [cmd EXCEPT ![c] = x]
    BY <1>1 DEF Stage
  <2> HIDE DEF x
  <2>6. cmd'[c] = x /\ Goes(c)
    BY <2>4, <2>5, Fields DEF Goes
  <2> QED
    BY <1>1, <2>1, <2>6 DEF Stage
<1>2. CASE StageInstall(c)
  BY <1>1, <1>2, InstallFacts DEF StageInstall
<1>3. CASE StageEnsure(c)
  BY <1>1, <1>3, EnsureFacts DEF StageEnsure, InstallTypeOK
<1>4. CASE StageUninstall(c)
  BY <1>1, <1>4, RemoveFacts DEF StageUninstall, InstallTypeOK
<1> QED
  BY <1>2, <1>3, <1>4

(* What backing up the next file changes, whether or not the plan needs    *)
(* it.                                                                     *)
LEMMA BackupFacts ==
  ASSUME InstallTypeOK, NEW c \in Commands, StageBackup(c)
  PROVE  LET f == First(cmd[c].todo)
             moved == cmd'[c].moved
         IN  /\ Goes(c) /\ Fixed(c, Asked \cup {"result"}) /\ cmd[c].at = "replacing"
             /\ UNCHANGED <<stray, inside, failures>> /\ UserRests
             /\ f \in cmd[c].todo /\ f \in Targets /\ f \in DOMAIN cmd[c].plan
             /\ kept' = [kept EXCEPT ![f] = disk[f]]
             /\ \/ /\ cmd[c].plan[f] = None /\ disk[f] = None /\ disk' = disk
                   /\ moved = cmd[c].moved
                   /\ cmd'[c].todo = cmd[c].todo \ {f} /\ cmd'[c].at = "replacing"
                \/ /\ DOMAIN moved = DOMAIN cmd[c].moved \cup {f}
                   /\ \A g \in DOMAIN cmd[c].moved \ {f} : moved[g] = cmd[c].moved[g]
                   /\ moved[f].backup = "none" <=> disk[f] = None
                   /\ moved[f].activated \in BOOLEAN /\ moved[f].backup \in {"none", "moved", "copied"}
                   /\ disk' = IF moved[f].backup = "moved" THEN [disk EXCEPT ![f] = None] ELSE disk
                   /\ moved[f].activated => cmd[c].plan[f] = None /\ moved[f].backup = "moved"
                   /\ cmd'[c].todo = IF moved[f].activated THEN cmd[c].todo \ {f} ELSE cmd[c].todo
                   /\ cmd'[c].at = IF moved[f].activated THEN "replacing" ELSE "activating"
<1> DEFINE f == First(cmd[c].todo)
           removal == cmd[c].plan[f] = None
           backup == IF disk[f] = None THEN "none" ELSE IF Far(c, f) THEN "copied" ELSE "moved"
           over == removal /\ backup # "copied"
           moved == IF removal /\ backup = "none" THEN cmd[c].moved
                    ELSE With(cmd[c].moved, f, [backup |-> backup, activated |-> over])
           todo == IF over THEN cmd[c].todo \ {f} ELSE cmd[c].todo
           at == IF over THEN "replacing" ELSE "activating"
           x == [cmd[c] EXCEPT !.moved = moved, !.todo = todo, !.at = at]
<1>1. IsCommand(cmd[c]) /\ cmd[c].at = "replacing" /\ cmd[c].todo # {}
  BY Fields DEF StageBackup
<1>2. cmd[c].todo \in SUBSET Targets /\ cmd[c].todo \subseteq DOMAIN cmd[c].plan
  BY <1>1 DEF IsCommand
<1>3. f \in cmd[c].todo /\ f \in Targets /\ f \in DOMAIN cmd[c].plan
  BY <1>1, <1>2, FirstOf
<1>4. cmd' = [cmd EXCEPT ![c].moved = moved, ![c].todo = todo, ![c].at = at]
  BY DEF StageBackup
<1>5. /\ kept' = [kept EXCEPT ![f] = disk[f]]
      /\ disk' = IF backup = "moved" THEN [disk EXCEPT ![f] = None] ELSE disk
  BY DEF StageBackup
<1>6. /\ backup \in {"none", "moved", "copied"} /\ over \in BOOLEAN
      /\ (backup = "none") <=> (disk[f] = None)
  <2>1. CASE disk[f] = None
    <3>1. backup = "none"
      BY <2>1
    <3> HIDE DEF backup
    <3> QED
      BY <2>1, <3>1
  <2>2. CASE disk[f] # None /\ Far(c, f)
    <3>1. backup = "copied"
      BY <2>2
    <3> HIDE DEF backup
    <3> QED
      BY <2>2, <3>1
  <2>3. CASE disk[f] # None /\ ~Far(c, f)
    <3>1. backup = "moved"
      BY <2>3
    <3> HIDE DEF backup
    <3> QED
      BY <2>3, <3>1
  <2> QED
    BY <2>1, <2>2, <2>3
<1> HIDE DEF backup, over, f
<1>7. /\ moved \in [DOMAIN moved -> FileBackup]
      /\ ~(removal /\ backup = "none") =>
           /\ DOMAIN moved = DOMAIN cmd[c].moved \cup {f}
           /\ moved[f].backup = backup /\ moved[f].activated = over
           /\ \A g \in DOMAIN cmd[c].moved \ {f} : moved[g] = cmd[c].moved[g]
      /\ DOMAIN moved \subseteq DOMAIN cmd[c].plan
  <2>1. [backup |-> backup, activated |-> over] \in FileBackup
    BY <1>6 DEF FileBackup
  <2>2. /\ cmd[c].moved \in [DOMAIN cmd[c].moved -> FileBackup]
        /\ DOMAIN cmd[c].moved \subseteq DOMAIN cmd[c].plan
    BY <1>1 DEF IsCommand
  <2> QED
    BY <1>3, <2>1, <2>2 DEF With
<1>8. todo \in SUBSET DOMAIN cmd[c].plan /\ at \in Places
  BY <1>2 DEF Places
<1> HIDE DEF moved, todo, at
<1>9. /\ x.moved = moved /\ x.todo = todo /\ x.at = at
      /\ \A g \in Asked \cup {"result"} : x[g] = cmd[c][g]
  BY <1>1 DEF IsCommand, Asked
<1>10. IsCommand(x)
  BY <1>1, <1>7, <1>8 DEF IsCommand
<1>a. cmd' = [cmd EXCEPT ![c] = x]
  BY <1>4, Fields
<1> HIDE DEF x
<1>11. cmd'[c] = x /\ Goes(c)
  BY <1>a, <1>10, Fields DEF Goes
<1>12. Fixed(c, Asked \cup {"result"})
  BY <1>9, <1>11 DEF Fixed
<1>13. UNCHANGED <<stray, inside, failures>> /\ UserRests
  BY DEF StageBackup, mine, UserRests
<1>14. CASE removal /\ backup = "none"
  <2>1. over
    BY <1>14 DEF over
  <2>2. x.moved = cmd[c].moved /\ x.todo = cmd[c].todo \ {f} /\ x.at = "replacing" /\ disk' = disk
    BY <1>5, <1>9, <1>14, <2>1 DEF moved, todo, at
  <2> QED
    BY <1>1, <1>3, <1>5, <1>6, <1>11, <1>12, <1>13, <1>14, <2>2 DEF f
<1>15. CASE ~(removal /\ backup = "none")
  <2>1. over => removal /\ backup = "moved"
    BY <1>6, <1>15 DEF over
  <2>2. /\ DOMAIN x.moved = DOMAIN cmd[c].moved \cup {f}
        /\ x.moved[f].backup = backup /\ x.moved[f].activated = over
        /\ \A g \in DOMAIN cmd[c].moved \ {f} : x.moved[g] = cmd[c].moved[g]
        /\ x.todo = IF over THEN cmd[c].todo \ {f} ELSE cmd[c].todo
        /\ x.at = IF over THEN "replacing" ELSE "activating"
    BY <1>7, <1>9, <1>15 DEF todo, at
  <2> QED
    BY <1>1, <1>3, <1>5, <1>6, <1>11, <1>12, <1>13, <2>1, <2>2 DEF f
<1> QED
  BY <1>14, <1>15

(* The command c becomes x.                                                *)
LEMMA Updated ==
  ASSUME InstallTypeOK, NEW c \in Commands, NEW x, IsCommand(x), cmd' = [cmd EXCEPT ![c] = x]
  PROVE  cmd'[c] = x /\ Goes(c)
BY Fields DEF Goes

(* What putting the next file in its place changes.                        *)
LEMMA ActivateFacts ==
  ASSUME InstallTypeOK, NEW c \in Commands, OrderOK(c), Activate(c)
  PROVE  LET f == First(cmd[c].todo)
             moved == cmd'[c].moved
         IN  /\ Goes(c) /\ Fixed(c, Asked \cup {"result"}) /\ cmd[c].at = "activating"
             /\ UNCHANGED <<kept, stray, inside, failures>> /\ UserRests
             /\ f \in cmd[c].todo /\ f \in Targets /\ f \in DOMAIN cmd[c].plan /\ f \in DOMAIN cmd[c].moved
             /\ disk' = [disk EXCEPT ![f] = cmd[c].plan[f]] /\ cmd[c].plan[f] \in Content(f)
             /\ DOMAIN moved = DOMAIN cmd[c].moved
             /\ \A g \in DOMAIN cmd[c].moved \ {f} : moved[g] = cmd[c].moved[g]
             /\ moved[f].backup = cmd[c].moved[f].backup /\ moved[f].activated
             /\ cmd'[c].todo = cmd[c].todo \ {f} /\ cmd'[c].at = "replacing"
<1> DEFINE f == First(cmd[c].todo)
           moved == [cmd[c].moved EXCEPT ![f].activated = TRUE]
           todo == cmd[c].todo \ {f}
           x == [cmd[c] EXCEPT !.moved = moved, !.todo = todo, !.at = "replacing"]
<1>1. IsCommand(cmd[c]) /\ cmd[c].at = "activating"
  BY Fields DEF Activate
<1>2. cmd[c].todo \in SUBSET Targets /\ cmd[c].todo \subseteq DOMAIN cmd[c].plan
  BY <1>1 DEF IsCommand
<1>3. cmd[c].todo # {} /\ f \in DOMAIN cmd[c].moved
  BY <1>1 DEF OrderOK, Busy
<1>4. f \in cmd[c].todo /\ f \in Targets /\ f \in DOMAIN cmd[c].plan
  BY <1>2, <1>3, FirstOf
<1>5. cmd' = [cmd EXCEPT ![c].moved[f].activated = TRUE, ![c].todo = @ \ {f}, ![c].at = "replacing"]
  BY DEF Activate
<1>6. disk' = [disk EXCEPT ![f] = cmd[c].plan[f]]
  BY DEF Activate
<1> HIDE DEF f
<1>7. cmd[c].moved \in [DOMAIN cmd[c].moved -> FileBackup] /\ DOMAIN cmd[c].moved \subseteq DOMAIN cmd[c].plan
  BY <1>1 DEF IsCommand
<1>8. /\ moved \in [DOMAIN moved -> FileBackup] /\ DOMAIN moved = DOMAIN cmd[c].moved
      /\ \A g \in DOMAIN cmd[c].moved \ {f} : moved[g] = cmd[c].moved[g]
      /\ moved[f].backup = cmd[c].moved[f].backup /\ moved[f].activated
  BY <1>3, <1>7 DEF FileBackup
<1>9. cmd' = [cmd EXCEPT ![c] = x]
  BY <1>5, Fields
<1> HIDE DEF moved
<1>10. /\ x.moved = moved /\ x.todo = todo /\ x.at = "replacing"
       /\ \A g \in Asked \cup {"result"} : x[g] = cmd[c][g]
  BY <1>1 DEF IsCommand, Asked
<1>11. IsCommand(x)
  BY <1>1, <1>2, <1>7, <1>8 DEF IsCommand, Places
<1> HIDE DEF x
<1>12. cmd'[c] = x /\ Goes(c)
  BY <1>9, <1>11, Updated
<1>13. Fixed(c, Asked \cup {"result"})
  BY <1>10, <1>12 DEF Fixed
<1>14. UNCHANGED <<kept, stray, inside, failures>> /\ UserRests
  BY DEF Activate, mine, UserRests
<1>15. cmd[c].plan[f] \in Content(f)
  BY <1>1, <1>4 DEF IsCommand
<1> QED
  BY <1>1, <1>3, <1>4, <1>6, <1>8, <1>10, <1>12, <1>13, <1>14, <1>15 DEF f

(* What a failing step changes.                                            *)
LEMMA FailFacts ==
  ASSUME InstallTypeOK, NEW c \in Commands, Fail(c)
  PROVE  /\ Goes(c) /\ Fixed(c, Asked \cup {"todo", "moved"}) /\ cmd[c].at \in Busy
         /\ cmd'[c].at = "undoing" /\ cmd'[c].result = "failed"
         /\ UNCHANGED <<disk, kept, stray, inside>> /\ failures' = failures + 1 /\ UserRests
<1> DEFINE x == [cmd[c] EXCEPT !.at = "undoing", !.result = "failed"]
<1>1. IsCommand(cmd[c]) /\ cmd[c].at \in Busy
  BY Fields DEF Fail, Busy
<1>2. cmd' = [cmd EXCEPT ![c].at = "undoing", ![c].result = "failed"]
  BY DEF Fail
<1>3. cmd' = [cmd EXCEPT ![c] = x]
  BY <1>2, Fields
<1>4. /\ x.at = "undoing" /\ x.result = "failed"
      /\ \A g \in Asked \cup {"todo", "moved"} : x[g] = cmd[c][g]
  BY <1>1 DEF IsCommand, Asked
<1>5. IsCommand(x)
  BY <1>1 DEF IsCommand, Places
<1> HIDE DEF x
<1>6. cmd'[c] = x /\ Goes(c)
  BY <1>3, <1>5, Updated
<1>7. Fixed(c, Asked \cup {"todo", "moved"})
  BY <1>4, <1>6 DEF Fixed
<1> QED
  BY <1>1, <1>4, <1>6, <1>7 DEF Fail, mine, UserRests

(* What UndoFile and UndoFileFails have in common.                         *)
TakesBack(c, x, result) ==
  LET f == Undone(c)
      moved == cmd'[c].moved
  IN  /\ Goes(c) /\ Fixed(c, Asked \cup {"todo", "at"}) /\ cmd[c].at = "undoing"
      /\ UNCHANGED <<kept, stray, inside>> /\ failures' \in Nat /\ UserRests
      /\ f \in Targets /\ f \in DOMAIN cmd[c].moved /\ f \in DOMAIN cmd[c].plan
      /\ cmd[c].moved[f].backup \in {"none", "moved", "copied"} /\ cmd[c].moved[f].activated \in BOOLEAN
      /\ disk' = [disk EXCEPT ![f] = x] /\ x \in {disk[f], None, kept[f]}
      /\ DOMAIN moved = DOMAIN cmd[c].moved \ {f}
      /\ \A g \in DOMAIN moved : moved[g] = cmd[c].moved[g]
      /\ cmd'[c].result = result

(* What undoing, done or failed, changes in its command.                   *)
LEMMA TakingBack ==
  ASSUME InstallTypeOK, NEW c \in Commands, NEW result \in {cmd[c].result, "broken"},
         cmd[c].at = "undoing", DOMAIN cmd[c].moved # {},
         cmd' = [cmd EXCEPT ![c] = [cmd[c] EXCEPT !.moved = Without(cmd[c].moved, Undone(c)),
                                                  !.result = result]]
  PROVE  LET f == Undone(c)
             moved == cmd'[c].moved
         IN  /\ Goes(c) /\ Fixed(c, Asked \cup {"todo", "at"})
             /\ f \in Targets /\ f \in DOMAIN cmd[c].moved /\ f \in DOMAIN cmd[c].plan
             /\ cmd[c].moved[f].backup \in {"none", "moved", "copied"} /\ cmd[c].moved[f].activated \in BOOLEAN
             /\ DOMAIN moved = DOMAIN cmd[c].moved \ {f}
             /\ \A g \in DOMAIN moved : moved[g] = cmd[c].moved[g]
             /\ cmd'[c].result = result
<1> DEFINE f == Undone(c)
           moved == Without(cmd[c].moved, f)
           x == [cmd[c] EXCEPT !.moved = moved, !.result = result]
<1>1. IsCommand(cmd[c])
  BY Fields
<1>2. /\ cmd[c].moved \in [DOMAIN cmd[c].moved -> FileBackup]
      /\ DOMAIN cmd[c].moved \subseteq DOMAIN cmd[c].plan
      /\ DOMAIN cmd[c].plan \in SUBSET Targets
  BY <1>1 DEF IsCommand
<1>3. f \in DOMAIN cmd[c].moved
  BY <1>2, LastOf DEF Undone
<1> HIDE DEF f
<1>4. /\ DOMAIN moved = DOMAIN cmd[c].moved \ {f} /\ moved \in [DOMAIN moved -> FileBackup]
      /\ \A g \in DOMAIN moved : moved[g] = cmd[c].moved[g]
  BY <1>2 DEF Without
<1>5. cmd[c].moved[f].backup \in {"none", "moved", "copied"} /\ cmd[c].moved[f].activated \in BOOLEAN
  BY <1>2, <1>3 DEF FileBackup
<1>6. cmd' = [cmd EXCEPT ![c] = x]
  BY DEF f
<1> HIDE DEF moved
<1>7. /\ x.moved = moved /\ x.result = result /\ \A g \in Asked \cup {"todo", "at"} : x[g] = cmd[c][g]
  BY <1>1 DEF IsCommand, Asked
<1>8. IsCommand(x)
  BY <1>1, <1>2, <1>4 DEF IsCommand
<1> HIDE DEF x
<1>9. cmd'[c] = x /\ Goes(c)
  BY <1>6, <1>8, Updated
<1>10. Fixed(c, Asked \cup {"todo", "at"})
  BY <1>7, <1>9 DEF Fixed
<1> QED
  BY <1>2, <1>3, <1>4, <1>5, <1>7, <1>9, <1>10 DEF f

(* What undoing a file changes.                                            *)
LEMMA UndoFacts ==
  ASSUME InstallTypeOK, NEW c \in Commands, UndoFile(c)
  PROVE  LET f == Undone(c)
             m == cmd[c].moved[f]
         IN  TakesBack(c, IF Restores(m) THEN kept[f]
                          ELSE IF m.backup = "none" /\ m.activated THEN None ELSE disk[f], cmd[c].result)
<1> DEFINE f == Undone(c)
           m == cmd[c].moved[f]
           x == IF Restores(m) THEN kept[f] ELSE IF m.backup = "none" /\ m.activated THEN None ELSE disk[f]
<1>1. cmd' = [cmd EXCEPT ![c].moved = Without(@, f)]
  BY DEF UndoFile
<1>2. disk' = CASE Restores(m) -> [disk EXCEPT ![f] = kept[f]]
                [] m.backup = "none" /\ m.activated -> [disk EXCEPT ![f] = None]
                [] OTHER -> disk
  BY DEF UndoFile
<1> HIDE DEF f
<1>3. cmd' = [cmd EXCEPT ![c] = [cmd[c] EXCEPT !.moved = Without(cmd[c].moved, f), !.result = cmd[c].result]]
  <2>1. [cmd[c] EXCEPT !.moved = Without(cmd[c].moved, f), !.result = cmd[c].result]
        = [cmd[c] EXCEPT !.moved = Without(cmd[c].moved, f)]
    BY Fields DEF IsCommand
  <2> QED
    BY <1>1, <2>1, Fields
<1>4. disk' = [disk EXCEPT ![f] = x]
  <2>1. [disk EXCEPT ![f] = disk[f]] = disk
    BY Fields
  <2>2. Restores(m) => ~(m.backup = "none" /\ m.activated)
    BY DEF Restores
  <2> HIDE DEF m
  <2>3. CASE Restores(m)
    BY <1>2, <2>2, <2>3
  <2>4. CASE ~Restores(m) /\ m.backup = "none" /\ m.activated
    BY <1>2, <2>4
  <2>5. CASE ~Restores(m) /\ ~(m.backup = "none" /\ m.activated)
    <3>1. disk' = disk /\ x = disk[f]
      BY <1>2, <2>5
    <3> QED
      BY <2>1, <3>1
  <2> QED
    BY <2>3, <2>4, <2>5
<1>5. x \in {disk[f], None, kept[f]}
  OBVIOUS
<1> HIDE DEF x
<1>6. cmd[c].at = "undoing" /\ DOMAIN cmd[c].moved # {}
  BY DEF UndoFile
<1>7. UNCHANGED <<kept, stray, inside>> /\ failures' \in Nat /\ UserRests
  BY DEF UndoFile, mine, UserRests, InstallTypeOK
<1>8. TakesBack(c, x, cmd[c].result)
  BY <1>3, <1>4, <1>5, <1>6, <1>7, TakingBack DEF TakesBack, f
<1> QED
  BY <1>8 DEF x, f

(* What failing to undo a file may have changed.                           *)
LEMMA UndoFailsFacts ==
  ASSUME InstallTypeOK, NEW c \in Commands, UndoFileFails(c)
  PROVE  LET f == Undone(c)
             m == cmd[c].moved[f]
         IN  \E x \in {disk[f], None, kept[f]} :
               /\ TakesBack(c, x, "broken")
               /\ x = disk[f] \/ (x = None /\ m.activated) \/ (x = kept[f] /\ Restores(m))
<1> DEFINE f == Undone(c)
           m == cmd[c].moved[f]
<1>1. PICK x \in {disk[f]} \cup (IF m.activated THEN {None} ELSE {})
                           \cup (IF Restores(m) THEN {kept[f]} ELSE {}) :
        disk' = [disk EXCEPT ![f] = x]
  BY DEF UndoFileFails
<1>2. x \in {disk[f], None, kept[f]}
  BY <1>1
<1>3. x = disk[f] \/ (x = None /\ m.activated) \/ (x = kept[f] /\ Restores(m))
  BY <1>1
<1>4. cmd' = [cmd EXCEPT ![c].moved = Without(@, f), ![c].result = "broken"]
  BY DEF UndoFileFails
<1> HIDE DEF f
<1>5. cmd' = [cmd EXCEPT ![c] = [cmd[c] EXCEPT !.moved = Without(cmd[c].moved, f), !.result = "broken"]]
  BY <1>4, Fields
<1>6. cmd[c].at = "undoing" /\ DOMAIN cmd[c].moved # {}
  BY DEF UndoFileFails
<1>7. UNCHANGED <<kept, stray, inside>> /\ failures' \in Nat /\ UserRests
  BY DEF UndoFileFails, mine, UserRests, InstallTypeOK
<1>8. TakesBack(c, x, "broken")
  BY <1>1, <1>2, <1>5, <1>6, <1>7, TakingBack DEF TakesBack, f
<1> QED
  BY <1>2, <1>3, <1>8 DEF f

(* A command that ends, or dies.                                           *)
Leaves(c, at) ==
  /\ Goes(c) /\ cmd'[c].at = at
  /\ kept' = NoBackups /\ inside' = None /\ touched' = {}
  /\ UNCHANGED <<source, written, edits>>

(* What the end of a command changes,                                      *)
LEMMA EndFacts ==
  ASSUME InstallTypeOK, NEW c \in Commands, NEW result \in {"ok", "failed", "broken", None}, Ends(c, result)
  PROVE  Leaves(c, "gone") /\ cmd'[c].result = result /\ cmd'[c].op = None /\ stray' = stray
<1> DEFINE x == [Idle EXCEPT !.at = "gone", !.result = result]
<1>1. x.at = "gone" /\ x.result = result /\ x.op = None /\ IsCommand(x)
  BY DEF Idle, IsCommand, Nothing, Places
<1>2. cmd' = [cmd EXCEPT ![c] = x]
  BY DEF Ends
<1> HIDE DEF x
<1>3. cmd'[c] = x /\ Goes(c)
  BY <1>1, <1>2, Updated
<1> QED
  BY <1>1, <1>3 DEF Ends, Leaves

(* of one that has undone its steps, has done its plan, has removed the    *)
(* workflow manifest, finds none, or dies.                                 *)
LEMMA UndoEndsFacts ==
  ASSUME InstallTypeOK, NEW c \in Commands, UndoEnds(c)
  PROVE  /\ Leaves(c, "gone") /\ cmd'[c].result = cmd[c].result /\ cmd'[c].op = None
         /\ cmd[c].at = "undoing" /\ DOMAIN cmd[c].moved = {}
         /\ UNCHANGED <<disk, failures, stray>>
BY EndFacts, Fields DEF UndoEnds, IsCommand

LEMMA CommitFacts ==
  ASSUME InstallTypeOK, NEW c \in Commands, Commit(c)
  PROVE  /\ Leaves(c, "gone") /\ cmd'[c].result = "ok" /\ cmd'[c].op = None
         /\ cmd[c].at = "replacing" /\ cmd[c].todo = {}
         /\ cmd[c].op = "uninstall" => cmd[c].owned = None
         /\ UNCHANGED <<disk, failures, stray>>
BY EndFacts DEF Commit

LEMMA UnrecordFacts ==
  ASSUME InstallTypeOK, NEW c \in Commands, Unrecord(c)
  PROVE  /\ Leaves(c, "gone") /\ cmd'[c].result = "ok" /\ cmd'[c].op = None
         /\ cmd[c].at = "unrecording" /\ disk' = [disk EXCEPT !["owned"] = None]
         /\ UNCHANGED <<failures, stray>>
BY EndFacts DEF Unrecord

LEMMA StopFacts ==
  ASSUME InstallTypeOK, NEW c \in Commands, Stop(c)
  PROVE  /\ Leaves(c, "gone") /\ cmd'[c].result = "failed" /\ cmd'[c].op = None
         /\ cmd[c].at \in Late /\ failures' \in Nat
         /\ UNCHANGED <<disk, stray>>
BY EndFacts DEF Stop, Late, InstallTypeOK

LEMMA CrashFacts ==
  ASSUME InstallTypeOK, NEW c \in Commands, CommandDies(c)
  PROVE  /\ Leaves(c, "dead") /\ cmd'[c].result = None /\ cmd'[c].op = cmd[c].op
         /\ inside = c /\ UNCHANGED <<disk, failures>>
         /\ stray' = IF kept["settings"] = None THEN stray ELSE stray \cup {kept["settings"].written}
         /\ stray' \subseteq 0 .. MaxEdits
<1> DEFINE x == [Idle EXCEPT !.at = "dead", !.op = cmd[c].op]
<1>1. IsCommand(cmd[c])
  BY Fields
<1>2. x.at = "dead" /\ x.result = None /\ x.op = cmd[c].op /\ IsCommand(x)
  BY <1>1 DEF Idle, IsCommand, Nothing, Places
<1>3. cmd' = [cmd EXCEPT ![c] = x]
  BY DEF CommandDies
<1> HIDE DEF x
<1>4. cmd'[c] = x /\ Goes(c)
  BY <1>2, <1>3, Updated
<1>5. stray' = IF kept["settings"] = None THEN stray ELSE stray \cup {kept["settings"].written}
  BY DEF CommandDies
<1>6. stray' \subseteq 0 .. MaxEdits
  BY <1>5, Found DEF InstallTypeOK, Settings
<1> QED
  BY <1>2, <1>4, <1>5, <1>6 DEF CommandDies, Leaves

(* The end of an uninstall.                                                *)
LEMMA RemovalFacts ==
  ASSUME InstallTypeOK, NEW c \in Commands, CommitRemoval(c)
  PROVE  /\ Goes(c) /\ Fixed(c, Asked \cup {"result", "todo"})
         /\ cmd[c].at = "replacing" /\ cmd[c].todo = {} /\ cmd'[c].at = "looking"
         /\ cmd[c].op = "uninstall" /\ cmd[c].owned # None
         /\ kept' = NoBackups /\ UNCHANGED <<disk, stray, inside, failures>> /\ UserRests
<1> DEFINE x == [cmd[c] EXCEPT !.at = "looking", !.moved = Nothing]
<1>1. IsCommand(cmd[c])
  BY Fields
<1>2. cmd' = [cmd EXCEPT ![c].at = "looking", ![c].moved = Nothing]
  BY DEF CommitRemoval
<1>3. cmd' = [cmd EXCEPT ![c] = x]
  BY <1>2, Fields
<1>4. x.at = "looking" /\ \A g \in Asked \cup {"result", "todo"} : x[g] = cmd[c][g]
  BY <1>1 DEF IsCommand, Asked
<1>5. IsCommand(x)
  BY <1>1 DEF IsCommand, Places, Nothing
<1> HIDE DEF x
<1>6. cmd'[c] = x /\ Goes(c)
  BY <1>3, <1>5, Updated
<1>7. Fixed(c, Asked \cup {"result", "todo"})
  BY <1>4, <1>6 DEF Fixed
<1> QED
  BY <1>4, <1>6, <1>7 DEF CommitRemoval, mine, UserRests

(* A step of an uninstall after the package changes where it is.           *)
LEMMA Moves ==
  ASSUME InstallTypeOK, NEW c \in Commands, NEW at \in Places, cmd' = [cmd EXCEPT ![c].at = at]
  PROVE  /\ Goes(c) /\ Fixed(c, Asked \cup {"result", "todo", "moved"}) /\ cmd'[c].at = at
<1> DEFINE x == [cmd[c] EXCEPT !.at = at]
<1>1. IsCommand(cmd[c])
  BY Fields
<1>2. cmd' = [cmd EXCEPT ![c] = x]
  BY Fields
<1>3. x.at = at /\ \A g \in Asked \cup {"result", "todo", "moved"} : x[g] = cmd[c][g]
  BY <1>1 DEF IsCommand, Asked
<1>4. IsCommand(x)
  BY <1>1 DEF IsCommand
<1> HIDE DEF x
<1>5. cmd'[c] = x /\ Goes(c)
  BY <1>2, <1>4, Updated
<1> QED
  BY <1>3, <1>5 DEF Fixed

(* What each of those steps changes.                                       *)
LEMMA LookFacts ==
  ASSUME InstallTypeOK, NEW c \in Commands, LookAgain(c)
  PROVE  /\ Goes(c) /\ Fixed(c, Asked \cup {"result", "todo", "moved"})
         /\ cmd[c].at = "looking" /\ cmd'[c].at = "removing"
         /\ cmd[c].owned.workflow # None => cmd[c].force \/ disk["workflow"] \in {None, cmd[c].owned.workflow}
         /\ touched' = touched \ {"workflow"}
         /\ UNCHANGED <<disk, kept, stray, source, inside, failures, written, edits>>
BY Moves DEF LookAgain, MayRemove, Places

LEMMA RemoveWorkflowFacts ==
  ASSUME InstallTypeOK, NEW c \in Commands, RemoveWorkflow(c)
  PROVE  /\ Goes(c) /\ Fixed(c, Asked \cup {"result", "todo", "moved"})
         /\ cmd[c].at = "removing" /\ cmd'[c].at = "reading"
         /\ disk' = IF cmd[c].owned.workflow = None THEN disk ELSE [disk EXCEPT !["workflow"] = None]
         /\ UNCHANGED <<kept, stray, inside, failures>> /\ UserRests
BY Moves DEF RemoveWorkflow, Places, mine, UserRests

LEMMA ReadFacts ==
  ASSUME InstallTypeOK, NEW c \in Commands, LateOK(c), ReadSettings(c)
  PROVE  /\ Goes(c) /\ Fixed(c, (Asked \ {"before"}) \cup {"result", "todo", "moved"})
         /\ cmd[c].at = "reading" /\ cmd'[c].before \in [Targets -> Stuff]
         /\ cmd'[c].before["settings"] = disk["settings"]
         /\ cmd'[c].at = IF cmd[c].owned.hooks /\ disk["settings"] # None THEN "unhooking" ELSE "unrecording"
         /\ touched' = touched \ {"settings"}
         /\ UNCHANGED <<disk, kept, stray, source, inside, failures, written, edits>>
<1> DEFINE before == [cmd[c].before EXCEPT !["settings"] = disk["settings"]]
           at == IF cmd[c].owned.hooks /\ disk["settings"] # None THEN "unhooking" ELSE "unrecording"
           x == [cmd[c] EXCEPT !.before = before, !.at = at]
<1>1. IsCommand(cmd[c]) /\ cmd[c].at = "reading"
  BY Fields DEF ReadSettings
<1>2. cmd' = [cmd EXCEPT ![c].before["settings"] = disk["settings"], ![c].at = at]
  BY DEF ReadSettings
<1>3. cmd' = [cmd EXCEPT ![c] = x]
  BY <1>2, Fields
<1>4. cmd[c].before \in [Targets -> Stuff]
  BY <1>1 DEF LateOK, Late
<1>5. before \in [Targets -> Stuff] /\ before["settings"] = disk["settings"] /\ DOMAIN before = Targets
  BY <1>4, Fields DEF Targets
<1>6. at \in Places
  BY DEF Places
<1> HIDE DEF before, at
<1>7. /\ x.before = before /\ x.at = at
      /\ \A g \in (Asked \ {"before"}) \cup {"result", "todo", "moved"} : x[g] = cmd[c][g]
  BY <1>1 DEF IsCommand, Asked
<1>8. IsCommand(x)
  BY <1>1, <1>5, <1>6 DEF IsCommand
<1> HIDE DEF x
<1>9. cmd'[c] = x /\ Goes(c)
  BY <1>3, <1>8, Updated
<1>10. Fixed(c, (Asked \ {"before"}) \cup {"result", "todo", "moved"})
  BY <1>7, <1>9 DEF Fixed
<1> QED
  BY <1>1, <1>5, <1>7, <1>9, <1>10 DEF at, ReadSettings

LEMMA UnhookFacts ==
  ASSUME InstallTypeOK, NEW c \in Commands, LateOK(c), Unhook(c)
  PROVE  /\ Goes(c) /\ Fixed(c, Asked \cup {"result", "todo", "moved"})
         /\ cmd[c].at = "unhooking" /\ cmd'[c].at = "unrecording"
         /\ \E x \in Settings :
              /\ disk' = [disk EXCEPT !["settings"] = x]
              /\ x.written = cmd[c].before["settings"].written /\ ~x.hooks
         /\ UNCHANGED <<kept, stray, inside, failures>> /\ UserRests
<1> DEFINE x == [cmd[c].before["settings"] EXCEPT !.hooks = FALSE]
<1>1. cmd[c].before["settings"] \in Settings
  BY DEF Unhook, LateOK, Late
<1>2. x \in Settings /\ x.written = cmd[c].before["settings"].written /\ ~x.hooks
  BY <1>1 DEF Settings
<1>3. disk' = [disk EXCEPT !["settings"] = x]
  BY DEF Unhook
<1> HIDE DEF x
<1> QED
  BY <1>2, <1>3, Moves DEF Unhook, Places, mine, UserRests

-----------------------------------------------------------------------------
(* Types.                                                                  *)
LEMMA Typing ==
  ASSUME InstallTypeOK, NEW c \in Commands, Goes(c), inside \in {c, None}, inside' \in {c, None},
         inside' = c <=> cmd'[c].at \notin {"new", "gone", "dead"},
         disk' \in [Targets -> Stuff], \A f \in Targets : disk'[f] \in Content(f),
         kept' \in [Targets -> Stuff], \A f \in Targets : kept'[f] \in Content(f),
         stray' \subseteq 0 .. MaxEdits, source' \in BOOLEAN, failures' \in Nat,
         UNCHANGED <<written, edits>>, touched' \subseteq touched,
         inside' = None => kept' = NoBackups /\ touched' = {}
  PROVE  InstallTypeOK'
<1>1. cmd' = [b \in Commands |-> cmd'[b]] /\ \A b \in Commands : IsCommand(cmd'[b])
  BY Fields DEF Goes
<1>2. \A b \in Commands : inside' = b <=> cmd'[b].at \notin {"new", "gone", "dead"}
  BY Fields DEF Goes
<1>3. inside' \in Commands \cup {None} /\ touched' \subseteq {"package", "workflow", "settings"}
  BY DEF InstallTypeOK
<1>4. {failures', written', edits'} \subseteq Nat /\ written' <= MaxEdits
  BY DEF InstallTypeOK
<1>5. /\ {disk', kept'} \subseteq [Targets -> Stuff]
      /\ \A f \in Targets : disk'[f] \in Content(f) /\ kept'[f] \in Content(f)
  OBVIOUS
<1>6. inside' = None => kept' = [f \in Targets |-> None] /\ touched' = {}
  BY DEF NoBackups
<1> QED
  BY <1>1, <1>2, <1>3, <1>4, <1>5, <1>6 DEF InstallTypeOK, IsCommand

(* Who is inside is the only one with anything to do.                      *)
LEMMA OthersRest ==
  ASSUME InstallTypeOK, NEW c \in Commands, Goes(c), inside \in {c, None}, NEW b \in Commands \ {c}
  PROVE  cmd'[b] = cmd[b] /\ cmd[b].at \in {"new", "gone", "dead"}
BY Fields DEF Goes

(* A command that is not under way claims nothing about the files.         *)
LEMMA Resting ==
  ASSUME NEW c \in Commands, cmd'[c].at \in {"gone", "dead"} \/ (cmd'[c].at = "new" /\ cmd'[c].result = None)
  PROVE  CommandOK(c)' /\ KnownOK(c)'
BY DEF CommandOK, PlanOK, HandledOK, OrderOK, MineOK, UserOK, LateOK, KnownOK, Rolling, Busy, Late

(* Looking establishes the invariant of a command,                         *)
LEMMA StageKeeps ==
  ASSUME InstallTypeOK, NEW c \in Commands, StageInstall(c) \/ StageEnsure(c) \/ StageUninstall(c)
  PROVE  InstallTypeOK' /\ CommandOK(c)'
<1>1. /\ Goes(c) /\ cmd[c].at = "new" /\ inside = None /\ inside' = c
      /\ UNCHANGED <<disk, kept, stray, failures, written, edits, touched>> /\ source' \in BOOLEAN
      /\ cmd'[c].at = "replacing"
      /\ cmd'[c].todo = DOMAIN cmd'[c].plan /\ DOMAIN cmd'[c].moved = {}
      /\ cmd'[c].owned = disk["owned"] /\ cmd'[c].before = disk /\ cmd'[c].result = None
      /\ Sensible(cmd'[c].op, cmd'[c].plan, disk)
      /\ ~cmd'[c].force => Spares(cmd'[c].plan)
  BY StageFacts
<1>2. /\ disk \in [Targets -> Stuff] /\ kept = [f \in Targets |-> None]
      /\ \A f \in Targets : disk[f] \in Content(f)
      /\ touched = {}
  BY <1>1 DEF InstallTypeOK
<1>3. InstallTypeOK'
  <2>1. \A f \in Targets : kept'[f] \in Content(f)
    BY <1>1 DEF InstallTypeOK
  <2> QED
    BY <1>1, <1>2, <2>1, Typing, Fields DEF InstallTypeOK
<1>4. DOMAIN cmd'[c].plan \subseteq Targets
  BY <1>1 DEF Goes, IsCommand
<1>5. PlanOK(c)'
  BY <1>1, <1>2 DEF PlanOK, Rolling, Busy
<1>6. HandledOK(c)'
  BY <1>1, <1>2 DEF HandledOK, Handled
<1>7. OrderOK(c)'
  BY <1>1, <1>2, <1>4 DEF OrderOK
<1>8. MineOK(c)'
  <2>1. {"package", "workflow"} \subseteq Targets /\ None # Mine
    BY InstallAssumption DEF Targets
  <2> QED
    BY <1>1, <1>2, <2>1 DEF MineOK, Spares
<1>9. UserOK(c)'
  <2>1. {"package", "workflow", "settings"} \subseteq Targets
    BY DEF Targets
  <2> QED
    BY <1>1, <1>2, <2>1 DEF UserOK, HooksIn
<1>10. LateOK(c)'
  BY <1>1 DEF LateOK, Late
<1> QED
  BY <1>3, <1>5, <1>6, <1>7, <1>8, <1>9, <1>10 DEF CommandOK

(* and a backup keeps it,                                                  *)
LEMMA BackupKeeps ==
  ASSUME InstallTypeOK, NEW c \in Commands, CommandOK(c), StageBackup(c)
  PROVE  InstallTypeOK' /\ CommandOK(c)'
<1> DEFINE f == First(cmd[c].todo)
           old == cmd[c].moved
           moved == cmd'[c].moved
<1>1. /\ Goes(c) /\ Fixed(c, Asked \cup {"result"}) /\ cmd[c].at = "replacing"
      /\ UNCHANGED <<stray, inside, failures>> /\ UserRests
      /\ f \in cmd[c].todo /\ f \in Targets /\ f \in DOMAIN cmd[c].plan
      /\ kept' = [kept EXCEPT ![f] = disk[f]]
  BY BackupFacts
<1>2. \/ /\ cmd[c].plan[f] = None /\ disk[f] = None /\ disk' = disk
         /\ moved = old
         /\ cmd'[c].todo = cmd[c].todo \ {f} /\ cmd'[c].at = "replacing"
      \/ /\ DOMAIN moved = DOMAIN old \cup {f}
         /\ \A g \in DOMAIN old \ {f} : moved[g] = old[g]
         /\ moved[f].backup = "none" <=> disk[f] = None
         /\ moved[f].activated \in BOOLEAN /\ moved[f].backup \in {"none", "moved", "copied"}
         /\ disk' = IF moved[f].backup = "moved" THEN [disk EXCEPT ![f] = None] ELSE disk
         /\ moved[f].activated => cmd[c].plan[f] = None /\ moved[f].backup = "moved"
         /\ cmd'[c].todo = IF moved[f].activated THEN cmd[c].todo \ {f} ELSE cmd[c].todo
         /\ cmd'[c].at = IF moved[f].activated THEN "replacing" ELSE "activating"
  BY BackupFacts
<1>3. cmd'[c].todo # cmd[c].todo \ {f} => f = First(cmd'[c].todo) /\ cmd'[c].todo = cmd[c].todo
  BY <1>2
<1> HIDE DEF f
<1>4. /\ cmd'[c].plan = cmd[c].plan /\ cmd'[c].before = cmd[c].before /\ cmd'[c].owned = cmd[c].owned
      /\ cmd'[c].op = cmd[c].op /\ cmd'[c].force = cmd[c].force /\ cmd'[c].result = cmd[c].result
      /\ touched' = touched /\ inside = c /\ inside' = c /\ cmd'[c].at \in Busy /\ cmd[c].at \in Busy
      /\ cmd'[c].at \in Rolling /\ cmd[c].at \in Rolling
  BY <1>1, <1>2, Fields DEF Fixed, Asked, UserRests, Busy, Rolling
<1>5. disk \in [Targets -> Stuff] /\ kept \in [Targets -> Stuff] /\ disk[f] \in Content(f)
  BY <1>1 DEF InstallTypeOK
<1>6. /\ kept' \in [Targets -> Stuff] /\ kept'[f] = disk[f] /\ \A g \in Targets \ {f} : kept'[g] = kept[g]
  BY <1>1, <1>5, Filled
<1>7. /\ disk' \in [Targets -> Stuff] /\ \A g \in Targets \ {f} : disk'[g] = disk[g]
      /\ disk'[f] = IF f \in DOMAIN moved /\ moved[f].backup = "moved" THEN None ELSE disk[f]
  <2>1. /\ [disk EXCEPT ![f] = None] \in [Targets -> Stuff] /\ [disk EXCEPT ![f] = None][f] = None
        /\ \A g \in Targets \ {f} : [disk EXCEPT ![f] = None][g] = disk[g]
    BY <1>1, <1>5, Filled, Emptied
  <2>2. CASE moved = old /\ disk' = disk /\ disk[f] = None
    BY <2>2, <1>5
  <2> QED
    BY <1>2, <1>5, <2>1, <2>2
<1>8. InstallTypeOK'
  <2>1. \A g \in Targets : disk'[g] \in Content(g) /\ kept'[g] \in Content(g)
    BY <1>5, <1>6, <1>7, Emptied DEF InstallTypeOK
  <2>2. inside # None
    BY <1>4, Fields
  <2> QED
    BY <1>1, <1>4, <1>6, <1>7, <2>1, <2>2, Typing DEF InstallTypeOK, UserRests, Busy
<1>9. f \notin DOMAIN old /\ cmd[c].result = None /\ cmd[c].result # "broken"
  <2>1. f \notin DOMAIN old
    BY <1>1, <1>4 DEF CommandOK, OrderOK
  <2> QED
    BY <1>4, <2>1, InstallAssumption DEF CommandOK, PlanOK
<1>10. \A g \in DOMAIN old : g # f /\ g \in DOMAIN moved /\ moved[g] = old[g]
  BY <1>2, <1>9
<1>11. /\ DOMAIN moved \subseteq DOMAIN old \cup {f}
       /\ \A g \in Targets \ {f} : g \in DOMAIN moved <=> g \in DOMAIN old
  BY <1>2
<1>12. PlanOK(c)'
  BY <1>4, <1>9 DEF CommandOK, PlanOK, Rolling
<1>13. HandledOK(c)'
  <2>1. ASSUME NEW g \in Targets \ touched
        PROVE  Handled(c, g)' /\ kept'[g] \in {None, cmd'[c].before[g]}
    <3>1. Handled(c, g) /\ kept[g] \in {None, cmd[c].before[g]}
      BY <1>4, <1>9, <2>1 DEF CommandOK, HandledOK
    <3>2. CASE g # f
      BY <1>4, <1>6, <1>7, <1>10, <1>11, <3>1, <3>2 DEF Handled
    <3>3. CASE g = f
      <4>1. disk[f] = cmd[c].before[f] /\ kept'[f] = disk[f]
        BY <1>6, <1>9, <3>1, <3>3 DEF Handled
      <4>2. Handled(c, g)'
        BY <1>2, <1>4, <1>7, <1>9, <3>3, <4>1 DEF Handled
      <4> QED
        BY <1>4, <3>3, <4>1, <4>2
    <3> QED
      BY <3>2, <3>3
  <2> QED
    BY <1>4, <2>1 DEF HandledOK
<1>14. OrderOK(c)'
  <2>1. ASSUME NEW g \in DOMAIN moved
        PROVE  IF g \in cmd'[c].todo
               THEN cmd'[c].at = "activating" /\ g = First(cmd'[c].todo) /\ ~moved[g].activated
               ELSE moved[g].activated
    <3>1. CASE g # f
      <4>1. g \in DOMAIN old /\ moved[g] = old[g]
        BY <1>10, <1>11, <3>1
      <4>2. g \notin cmd[c].todo /\ old[g].activated
        BY <1>1, <1>4, <4>1 DEF CommandOK, OrderOK
      <4>3. g \notin cmd'[c].todo
        BY <1>2, <4>2
      <4> QED
        BY <4>1, <4>2, <4>3
    <3>2. CASE g = f
      BY <1>1, <1>2, <1>3, <1>9, <2>1, <3>2
    <3> QED
      BY <3>1, <3>2
  <2>2. \A g \in Targets \ DOMAIN moved : kept'[g] = None
    BY <1>2, <1>4, <1>6, <1>10 DEF CommandOK, OrderOK
  <2>3. ASSUME NEW g \in DOMAIN cmd[c].plan \ (cmd'[c].todo \cup DOMAIN moved \cup touched)
        PROVE  cmd[c].plan[g] = cmd[c].before[g]
    <3>1. CASE g # f
      BY <1>2, <1>4, <1>10, <2>3, <3>1 DEF CommandOK, OrderOK
    <3>2. CASE g = f
      <4>1. Handled(c, f)
        BY <1>1, <1>4, <1>9, <2>3, <3>2 DEF CommandOK, HandledOK
      <4>2. cmd[c].plan[f] = None /\ disk[f] = None
        BY <1>2, <2>3, <3>2
      <4> QED
        BY <1>9, <3>2, <4>1, <4>2 DEF Handled
    <3> QED
      BY <3>1, <3>2
  <2>4. cmd'[c].at = "activating" => cmd'[c].todo # {} /\ First(cmd'[c].todo) \in DOMAIN moved
    BY <1>1, <1>2, <1>3
  <2> QED
    BY <1>4, <2>1, <2>2, <2>3, <2>4 DEF OrderOK
<1>15. MineOK(c)'
  <2>1. None # Mine
    BY InstallAssumption
  <2>2. cmd'[c].at # "removing" /\ {"package", "workflow"} \subseteq Targets
    BY <1>4 DEF Busy, Targets
  <2> QED
    BY <1>1, <1>4, <1>6, <1>7, <2>1, <2>2 DEF CommandOK, MineOK
<1>16. UserOK(c)'
  <2>1. ASSUME NEW g \in {"package", "workflow"}
        PROVE  /\ Unwritten(c, g)' => disk'[g] \in {cmd[c].before[g], Mine, None}
               /\ kept'[g] \in {cmd[c].before[g], Mine, None}
               /\ g \in DOMAIN cmd[c].plan \ cmd'[c].todo => disk'[g] \in {cmd[c].plan[g], Mine, None}
    <3>1. g \in Targets
      BY DEF Targets
    <3>2. CASE g # f
      <4>1. Unwritten(c, g)' => Unwritten(c, g)
        BY <1>4, <1>10, <1>11, <3>1, <3>2 DEF Unwritten
      <4>2. g \notin cmd'[c].todo => g \notin cmd[c].todo
        BY <1>2, <3>2
      <4> QED
        BY <1>4, <1>6, <1>7, <3>1, <3>2, <4>1, <4>2 DEF CommandOK, UserOK
    <3>3. CASE g = f
      <4>1. Unwritten(c, f)
        BY <1>9 DEF Unwritten
      <4>2. disk[f] \in {cmd[c].before[f], Mine, None}
        BY <1>4, <3>3, <4>1 DEF CommandOK, UserOK
      <4>3. f \notin cmd'[c].todo => disk'[f] = None
        BY <1>1, <1>2, <1>7
      <4> QED
        BY <1>6, <1>7, <3>3, <4>2, <4>3
    <3> QED
      BY <3>2, <3>3
  <2>2. HooksIn(kept'["settings"]) => HooksIn(cmd[c].before["settings"])
    <3>1. CASE "settings" = f
      <4>1. Unwritten(c, f)
        BY <1>9 DEF Unwritten
      <4> QED
        BY <1>4, <1>6, <3>1, <4>1 DEF CommandOK, UserOK
    <3>2. CASE "settings" # f
      BY <1>4, <1>6, <3>2 DEF CommandOK, UserOK, Targets
    <3> QED
      BY <3>1, <3>2
  <2>3. ASSUME Unwritten(c, "settings")', HooksIn(disk'["settings"]) PROVE HooksIn(cmd[c].before["settings"])
    <3>1. Unwritten(c, "settings")
      BY <1>4, <1>9, <1>10, <1>11, <2>3 DEF Unwritten, Targets
    <3>2. disk'["settings"] = disk["settings"]
      BY <1>7, <2>3 DEF HooksIn, Targets
    <3> QED
      BY <1>4, <2>3, <3>1, <3>2 DEF CommandOK, UserOK
  <2> QED
    BY <1>4, <2>1, <2>2, <2>3 DEF UserOK
<1>17. LateOK(c)'
  BY <1>4 DEF LateOK, Busy, Late
<1> QED
  BY <1>8, <1>12, <1>13, <1>14, <1>15, <1>16, <1>17 DEF CommandOK

(* and putting a file in its place,                                        *)
LEMMA ActivateKeeps ==
  ASSUME InstallTypeOK, NEW c \in Commands, CommandOK(c), Activate(c)
  PROVE  InstallTypeOK' /\ CommandOK(c)'
<1> DEFINE f == First(cmd[c].todo)
           old == cmd[c].moved
           moved == cmd'[c].moved
<1>1. /\ Goes(c) /\ Fixed(c, Asked \cup {"result"}) /\ cmd[c].at = "activating"
      /\ UNCHANGED <<kept, stray, inside, failures>> /\ UserRests
      /\ f \in cmd[c].todo /\ f \in Targets /\ f \in DOMAIN cmd[c].plan /\ f \in DOMAIN old
      /\ disk' = [disk EXCEPT ![f] = cmd[c].plan[f]] /\ cmd[c].plan[f] \in Content(f)
      /\ DOMAIN moved = DOMAIN old
      /\ \A g \in DOMAIN old \ {f} : moved[g] = old[g]
      /\ moved[f].backup = old[f].backup /\ moved[f].activated
      /\ cmd'[c].todo = cmd[c].todo \ {f} /\ cmd'[c].at = "replacing"
  BY ActivateFacts DEF CommandOK
<1>2. /\ \A g \in DOMAIN old \ {f} : g \notin cmd[c].todo /\ old[g].activated
      /\ \A g \in Targets \ DOMAIN old : kept[g] = None
      /\ \A g \in DOMAIN cmd[c].plan \ (cmd[c].todo \cup DOMAIN old \cup touched) :
           cmd[c].plan[g] = cmd[c].before[g]
  BY <1>1 DEF CommandOK, OrderOK, Busy
<1> HIDE DEF f
<1>3. /\ cmd'[c].plan = cmd[c].plan /\ cmd'[c].before = cmd[c].before /\ cmd'[c].owned = cmd[c].owned
      /\ cmd'[c].op = cmd[c].op /\ cmd'[c].force = cmd[c].force /\ cmd'[c].result = cmd[c].result
      /\ touched' = touched /\ inside = c /\ inside' = c /\ cmd'[c].at \in Busy /\ cmd[c].at \in Busy
      /\ cmd'[c].at \in Rolling /\ cmd[c].at \in Rolling
  BY <1>1, Fields DEF Fixed, Asked, UserRests, Busy, Rolling
<1>4. /\ disk \in [Targets -> Stuff] /\ disk' \in [Targets -> Stuff]
      /\ disk'[f] = cmd[c].plan[f] /\ \A g \in Targets \ {f} : disk'[g] = disk[g]
  BY <1>1, Filled, Fields
<1>5. InstallTypeOK'
  <2>1. \A g \in Targets : disk'[g] \in Content(g)
    BY <1>1, <1>4 DEF InstallTypeOK
  <2>2. inside # None
    BY <1>3, Fields
  <2> QED
    BY <1>1, <1>3, <1>4, <2>1, <2>2, Typing DEF InstallTypeOK, UserRests, Busy
<1>6. cmd[c].result = None /\ cmd[c].result # "broken"
  BY <1>3, InstallAssumption DEF CommandOK, PlanOK
<1>7. PlanOK(c)'
  BY <1>3, <1>6 DEF CommandOK, PlanOK, Rolling
<1>8. HandledOK(c)'
  <2>1. ASSUME NEW g \in Targets \ touched
        PROVE  Handled(c, g)' /\ kept'[g] \in {None, cmd'[c].before[g]}
    <3>1. Handled(c, g) /\ kept[g] \in {None, cmd[c].before[g]}
      BY <1>3, <1>6, <2>1 DEF CommandOK, HandledOK
    <3>2. CASE g # f
      BY <1>1, <1>3, <1>4, <3>1, <3>2 DEF Handled
    <3>3. CASE g = f
      BY <1>1, <1>3, <1>4, <3>1, <3>3 DEF Handled
    <3> QED
      BY <3>2, <3>3
  <2> QED
    BY <1>3, <2>1 DEF HandledOK
<1>9. OrderOK(c)'
  <2>1. \A g \in DOMAIN moved : g \notin cmd'[c].todo /\ moved[g].activated
    BY <1>1, <1>2
  <2>2. \A g \in Targets \ DOMAIN moved : kept'[g] = None
    BY <1>1, <1>2
  <2>3. \A g \in DOMAIN cmd[c].plan \ (cmd'[c].todo \cup DOMAIN moved \cup touched) :
          cmd[c].plan[g] = cmd[c].before[g]
    BY <1>1, <1>2
  <2> QED
    BY <1>1, <1>3, <2>1, <2>2, <2>3 DEF OrderOK
<1>10. MineOK(c)'
  <2>1. f \in {"package", "workflow"} => cmd[c].plan[f] # Mine
    BY <1>1, <1>3 DEF CommandOK, PlanOK, Sensible
  <2>2. cmd'[c].at # "removing" /\ {"package", "workflow"} \subseteq Targets
    BY <1>3 DEF Busy, Targets
  <2> QED
    BY <1>1, <1>3, <1>4, <2>1, <2>2 DEF CommandOK, MineOK
<1>11. UserOK(c)'
  <2>1. \A g \in Targets : Unwritten(c, g)' => g # f /\ Unwritten(c, g)
    BY <1>1, <1>3 DEF Unwritten
  <2>2. {"package", "workflow", "settings"} \subseteq Targets
    BY DEF Targets
  <2>3. ASSUME NEW g \in {"package", "workflow"}
        PROVE  /\ Unwritten(c, g)' => disk'[g] \in {cmd[c].before[g], Mine, None}
               /\ kept'[g] \in {cmd[c].before[g], Mine, None}
               /\ g \in DOMAIN cmd[c].plan \ cmd'[c].todo => disk'[g] \in {cmd[c].plan[g], Mine, None}
    <3>1. CASE g # f
      BY <1>1, <1>3, <1>4, <2>1, <2>2, <3>1 DEF CommandOK, UserOK
    <3>2. CASE g = f
      BY <1>1, <1>3, <1>4, <2>1, <2>2, <3>2 DEF CommandOK, UserOK
    <3> QED
      BY <3>1, <3>2
  <2>4. HooksIn(kept'["settings"]) => HooksIn(cmd[c].before["settings"])
    BY <1>1, <1>3 DEF CommandOK, UserOK
  <2>5. Unwritten(c, "settings")' /\ HooksIn(disk'["settings"]) => HooksIn(cmd[c].before["settings"])
    BY <1>3, <1>4, <2>1, <2>2 DEF CommandOK, UserOK
  <2> QED
    BY <1>3, <2>3, <2>4, <2>5 DEF UserOK
<1>12. LateOK(c)'
  BY <1>3 DEF LateOK, Busy, Late
<1> QED
  BY <1>5, <1>7, <1>8, <1>9, <1>10, <1>11, <1>12 DEF CommandOK

(* and a failing step,                                                     *)
LEMMA FailKeeps ==
  ASSUME InstallTypeOK, NEW c \in Commands, CommandOK(c), Fail(c)
  PROVE  InstallTypeOK' /\ CommandOK(c)'
<1>1. /\ Goes(c) /\ Fixed(c, Asked \cup {"todo", "moved"}) /\ cmd[c].at \in Busy
      /\ cmd'[c].at = "undoing" /\ cmd'[c].result = "failed"
      /\ UNCHANGED <<disk, kept, stray, inside>> /\ failures' = failures + 1 /\ UserRests
  BY FailFacts
<1>2. /\ cmd'[c].plan = cmd[c].plan /\ cmd'[c].before = cmd[c].before /\ cmd'[c].owned = cmd[c].owned
      /\ cmd'[c].op = cmd[c].op /\ cmd'[c].force = cmd[c].force /\ cmd'[c].moved = cmd[c].moved
      /\ touched' = touched /\ inside = c /\ inside' = c
      /\ cmd'[c].at \in Rolling /\ cmd[c].at \in Rolling /\ cmd'[c].at \notin Busy \cup Late
  BY <1>1, Fields DEF Fixed, Asked, UserRests, Busy, Rolling, Late
<1>3. cmd[c].result # "broken"
  BY <1>1, <1>2, InstallAssumption DEF CommandOK, PlanOK
<1>4. InstallTypeOK'
  <2>1. inside # None
    BY <1>2, Fields
  <2> QED
    BY <1>1, <1>2, <2>1, Typing DEF InstallTypeOK, UserRests
<1>5. PlanOK(c)'
  BY <1>1, <1>2 DEF CommandOK, PlanOK
<1>6. HandledOK(c)'
  <2>1. \A f : Handled(c, f) => Handled(c, f)'
    BY <1>1, <1>2 DEF Handled
  <2> QED
    BY <1>1, <1>2, <1>3, <2>1 DEF CommandOK, HandledOK
<1>7. OrderOK(c)' /\ LateOK(c)'
  BY <1>2 DEF OrderOK, LateOK
<1>8. MineOK(c)'
  BY <1>1, <1>2 DEF CommandOK, MineOK
<1>9. UserOK(c)'
  <2>1. \A f : Unwritten(c, f)' => Unwritten(c, f)
    BY <1>2, <1>3 DEF Unwritten
  <2> QED
    BY <1>1, <1>2, <2>1 DEF CommandOK, UserOK
<1> QED
  BY <1>4, <1>5, <1>6, <1>7, <1>8, <1>9 DEF CommandOK

(* and undoing a file, or failing to,                                      *)
LEMMA TakingBackKeeps ==
  ASSUME InstallTypeOK, NEW c \in Commands, CommandOK(c), NEW x, NEW result, TakesBack(c, x, result),
         result = "broken"
         \/ /\ result = cmd[c].result
            /\ LET m == cmd[c].moved[Undone(c)]
               IN  x = IF Restores(m) THEN kept[Undone(c)]
                       ELSE IF m.backup = "none" /\ m.activated THEN None ELSE disk[Undone(c)]
  PROVE  InstallTypeOK' /\ CommandOK(c)'
<1> DEFINE f == Undone(c)
           old == cmd[c].moved
           moved == cmd'[c].moved
<1>1. /\ Goes(c) /\ Fixed(c, Asked \cup {"todo", "at"}) /\ cmd[c].at = "undoing"
      /\ UNCHANGED <<kept, stray, inside>> /\ failures' \in Nat /\ UserRests
      /\ f \in Targets /\ f \in DOMAIN old /\ f \in DOMAIN cmd[c].plan
      /\ old[f].backup \in {"none", "moved", "copied"} /\ old[f].activated \in BOOLEAN
      /\ disk' = [disk EXCEPT ![f] = x] /\ x \in {disk[f], None, kept[f]}
      /\ DOMAIN moved = DOMAIN old \ {f} /\ \A g \in DOMAIN moved : moved[g] = old[g]
      /\ cmd'[c].result = result
  BY DEF TakesBack
<1>2. result # "broken" =>
        /\ result = cmd[c].result
        /\ x = IF Restores(old[f]) THEN kept[f]
               ELSE IF old[f].backup = "none" /\ old[f].activated THEN None ELSE disk[f]
  OBVIOUS
<1> HIDE DEF f
<1>3. /\ cmd'[c].plan = cmd[c].plan /\ cmd'[c].before = cmd[c].before /\ cmd'[c].owned = cmd[c].owned
      /\ cmd'[c].op = cmd[c].op /\ cmd'[c].force = cmd[c].force /\ cmd'[c].at = "undoing"
      /\ touched' = touched /\ inside = c /\ inside' = c
      /\ cmd'[c].at \in Rolling /\ cmd[c].at \in Rolling /\ cmd'[c].at \notin Busy \cup Late
      /\ cmd[c].at \notin Busy
  BY <1>1, Fields DEF Fixed, Asked, UserRests, Busy, Rolling, Late
<1>4. /\ disk \in [Targets -> Stuff] /\ kept \in [Targets -> Stuff]
      /\ \A g \in Targets : disk[g] \in Content(g) /\ kept[g] \in Content(g)
  BY DEF InstallTypeOK
<1>5. /\ x \in Content(f) /\ disk' \in [Targets -> Stuff]
      /\ disk'[f] = x /\ \A g \in Targets \ {f} : disk'[g] = disk[g]
  <2>1. x \in Content(f)
    BY <1>1, <1>4, Emptied
  <2> QED
    BY <1>1, <1>4, <2>1, Filled
<1>6. InstallTypeOK'
  <2>1. \A g \in Targets : disk'[g] \in Content(g)
    BY <1>1, <1>4, <1>5
  <2>2. inside # None
    BY <1>3, Fields
  <2> QED
    BY <1>1, <1>3, <1>4, <1>5, <2>1, <2>2, Typing DEF InstallTypeOK, UserRests
<1>7. PlanOK(c)'
  <2>1. cmd'[c].result \in {"failed", "broken"}
    BY <1>1, <1>2, <1>3 DEF CommandOK, PlanOK
  <2> QED
    BY <1>3, <2>1 DEF CommandOK, PlanOK
<1>8. HandledOK(c)'
  <2>1. ASSUME NEW g \in Targets \ touched, result # "broken" \/ g \notin DOMAIN cmd[c].plan
        PROVE  Handled(c, g)' /\ kept'[g] \in {None, cmd'[c].before[g]}
    <3>1. Handled(c, g) /\ kept[g] \in {None, cmd[c].before[g]}
      BY <1>2, <1>3, <2>1 DEF CommandOK, HandledOK
    <3>2. CASE g # f
      BY <1>1, <1>3, <1>5, <3>1, <3>2 DEF Handled
    <3>3. CASE g = f
      <4>1. result # "broken"
        BY <1>1, <2>1, <3>3
      <4>2. x = cmd[c].before[f]
        BY <1>1, <1>2, <3>1, <3>3, <4>1 DEF Handled, Restores
      <4> QED
        BY <1>1, <1>3, <1>5, <3>1, <3>3, <4>2 DEF Handled
    <3> QED
      BY <3>2, <3>3
  <2> QED
    BY <1>1, <1>3, <2>1 DEF HandledOK
<1>9. OrderOK(c)' /\ LateOK(c)'
  BY <1>3 DEF OrderOK, LateOK
<1>10. MineOK(c)'
  <2>1. None # Mine
    BY InstallAssumption
  <2>2. cmd'[c].at # "removing" /\ {"package", "workflow"} \subseteq Targets
    BY <1>3 DEF Targets
  <2> QED
    BY <1>1, <1>3, <1>5, <2>1, <2>2 DEF CommandOK, MineOK
<1>11. UserOK(c)'
  <2>1. {"package", "workflow", "settings"} \subseteq Targets
    BY DEF Targets
  <2>2. ASSUME NEW g \in Targets \ {f}, Unwritten(c, g)' PROVE Unwritten(c, g)
    BY <1>1, <1>2, <1>3, <2>2 DEF Unwritten
  <2>3. ASSUME NEW g \in {f}, Unwritten(c, g)'
        PROVE  x \in {None, kept[f]} \/ (x = disk[f] /\ Unwritten(c, f))
    <3>1. result # "broken"
      BY <1>1, <1>3, <2>3 DEF Unwritten
    <3> QED
      BY <1>1, <1>2, <3>1 DEF Restores, Unwritten
  <2>4. ASSUME NEW g \in {"package", "workflow"}
        PROVE  /\ Unwritten(c, g)' => disk'[g] \in {cmd[c].before[g], Mine, None}
               /\ kept'[g] \in {cmd[c].before[g], Mine, None}
    <3>1. CASE g # f
      BY <1>1, <1>3, <1>5, <2>1, <2>2, <3>1 DEF CommandOK, UserOK
    <3>2. CASE g = f
      BY <1>1, <1>3, <1>5, <2>1, <2>3, <3>2 DEF CommandOK, UserOK
    <3> QED
      BY <3>1, <3>2
  <2>5. HooksIn(kept'["settings"]) => HooksIn(cmd[c].before["settings"])
    BY <1>1, <1>3 DEF CommandOK, UserOK
  <2>6. ASSUME Unwritten(c, "settings")', HooksIn(disk'["settings"]) PROVE HooksIn(cmd[c].before["settings"])
    <3>1. CASE "settings" # f
      BY <1>3, <1>5, <2>1, <2>2, <2>6, <3>1 DEF CommandOK, UserOK
    <3>2. CASE "settings" = f
      BY <1>3, <1>5, <2>3, <2>6, <3>2 DEF CommandOK, UserOK, HooksIn
    <3> QED
      BY <3>1, <3>2
  <2> QED
    BY <1>3, <2>4, <2>5, <2>6 DEF UserOK
<1> QED
  BY <1>6, <1>7, <1>8, <1>9, <1>10, <1>11 DEF CommandOK

(* What a command knows when it is through with its plan.                  *)
LEMMA Through ==
  ASSUME InstallTypeOK, NEW c \in Commands, CommandOK(c), cmd[c].at = "replacing", cmd[c].todo = {}
  PROVE  /\ cmd[c].result = None
         /\ \A f \in Targets \ touched :
              /\ disk[f] = IF f \in DOMAIN cmd[c].plan THEN cmd[c].plan[f] ELSE cmd[c].before[f]
              /\ kept[f] \in {None, cmd[c].before[f]}
<1>1. IsCommand(cmd[c]) /\ cmd[c].at \in Busy /\ cmd[c].at \in Rolling
  BY Fields DEF Busy, Rolling
<1>2. cmd[c].result = None /\ cmd[c].result # "broken"
  BY <1>1, InstallAssumption DEF CommandOK, PlanOK
<1>3. ASSUME NEW f \in Targets \ touched
      PROVE  /\ disk[f] = IF f \in DOMAIN cmd[c].plan THEN cmd[c].plan[f] ELSE cmd[c].before[f]
             /\ kept[f] \in {None, cmd[c].before[f]}
  <2>1. Handled(c, f) /\ kept[f] \in {None, cmd[c].before[f]}
    BY <1>1, <1>2, <1>3 DEF CommandOK, HandledOK
  <2>2. CASE f \in DOMAIN cmd[c].moved
    <3>1. cmd[c].moved[f].activated
      BY <1>1, <2>2 DEF CommandOK, OrderOK
    <3>2. f \in DOMAIN cmd[c].plan
      BY <1>1, <2>2 DEF IsCommand
    <3> QED
      BY <2>1, <2>2, <3>1, <3>2 DEF Handled
  <2>3. CASE f \notin DOMAIN cmd[c].moved
    <3>1. disk[f] = cmd[c].before[f]
      BY <2>1, <2>3 DEF Handled
    <3>2. f \in DOMAIN cmd[c].plan => cmd[c].plan[f] = cmd[c].before[f]
      BY <1>1, <1>3, <2>3 DEF CommandOK, OrderOK
    <3> QED
      BY <2>1, <3>1, <3>2
  <2> QED
    BY <2>2, <2>3
<1> QED
  BY <1>2, <1>3

(* An uninstall then has no file of the package left but the user's.       *)
LEMMA PackageGone ==
  ASSUME InstallTypeOK, NEW c \in Commands, CommandOK(c), cmd[c].at = "replacing", cmd[c].todo = {},
         cmd[c].op = "uninstall"
  PROVE  /\ disk["record"] = None /\ disk["package"] \in {None, Mine}
         /\ disk["owned"] = cmd[c].before["owned"] /\ disk["owned"] = cmd[c].owned
         /\ \A f \in {"workflow", "settings"} : f \notin DOMAIN cmd[c].plan
         /\ cmd[c].before \in [Targets -> Stuff]
<1>1. cmd[c].at \in Busy /\ cmd[c].at \in Rolling
  BY DEF Busy, Rolling
<1>2. /\ DOMAIN cmd[c].plan \subseteq {"package", "record"}
      /\ \A f \in {"package", "record"} :
           IF f \in DOMAIN cmd[c].plan THEN cmd[c].plan[f] = None ELSE cmd[c].before[f] = None
      /\ cmd[c].before \in [Targets -> Stuff] /\ cmd[c].owned = cmd[c].before["owned"]
  BY <1>1 DEF CommandOK, PlanOK, Sensible
<1>3. "record" \in Targets \ touched /\ "owned" \in Targets \ touched /\ "package" \in Targets
  BY DEF InstallTypeOK, Targets
<1>4. disk["record"] = None
  BY <1>2, <1>3, Through
<1>5. disk["owned"] = cmd[c].before["owned"]
  BY <1>2, <1>3, Through
<1>6. disk["package"] \in {None, Mine}
  <2>1. CASE "package" \in DOMAIN cmd[c].plan
    BY <1>1, <1>2, <2>1 DEF CommandOK, UserOK
  <2>2. CASE "package" \notin DOMAIN cmd[c].plan
    <3>1. Unwritten(c, "package")
      BY <1>1, <2>2, Fields DEF Unwritten, IsCommand
    <3> QED
      BY <1>1, <1>2, <2>2, <3>1 DEF CommandOK, UserOK
  <2> QED
    BY <2>1, <2>2
<1> QED
  BY <1>2, <1>4, <1>5, <1>6

(* and the end of the command,                                             *)
LEMMA LeaveKeeps ==
  ASSUME InstallTypeOK, NEW c \in Commands, NEW at \in {"gone", "dead"}, Leaves(c, at), inside = c,
         disk' \in [Targets -> Stuff], \A f \in Targets : disk'[f] \in Content(f),
         stray' \subseteq 0 .. MaxEdits, failures' \in Nat
  PROVE  InstallTypeOK' /\ CommandOK(c)' /\ KnownOK(c)'
<1>1. /\ Goes(c) /\ cmd'[c].at = at /\ kept' = NoBackups /\ inside' = None /\ touched' = {}
      /\ UNCHANGED <<source, written, edits>>
  BY DEF Leaves
<1>2. InstallTypeOK'
  <2>1. inside' # c
    BY <1>1, Fields
  <2>2. kept' \in [Targets -> Stuff] /\ \A f \in Targets : kept'[f] \in Content(f)
    BY <1>1, Emptied
  <2>3. source' \in BOOLEAN
    BY <1>1 DEF InstallTypeOK
  <2> QED
    BY <1>1, <2>1, <2>2, <2>3, Typing
<1> QED
  BY <1>1, <1>2, Resting

(* and going on from the package to the profile.                           *)
LEMMA RemovalKeeps ==
  ASSUME InstallTypeOK, NEW c \in Commands, CommandOK(c), CommitRemoval(c)
  PROVE  InstallTypeOK' /\ CommandOK(c)'
<1>1. /\ Goes(c) /\ Fixed(c, Asked \cup {"result", "todo"})
      /\ cmd[c].at = "replacing" /\ cmd[c].todo = {} /\ cmd'[c].at = "looking"
      /\ cmd[c].op = "uninstall" /\ cmd[c].owned # None
      /\ kept' = NoBackups /\ UNCHANGED <<disk, stray, inside, failures>> /\ UserRests
  BY RemovalFacts
<1>2. /\ cmd'[c].before = cmd[c].before /\ cmd'[c].owned = cmd[c].owned /\ cmd'[c].op = cmd[c].op
      /\ cmd'[c].force = cmd[c].force /\ cmd'[c].result = cmd[c].result
      /\ inside = c /\ inside' = c
      /\ cmd'[c].at \notin Rolling \cup {"new", "removing", "unhooking"} /\ cmd'[c].at \notin Busy
  BY <1>1, Fields DEF Fixed, Asked, Rolling, Busy
<1>3. InstallTypeOK'
  <2>1. inside # None
    BY <1>2, Fields
  <2>2. kept' \in [Targets -> Stuff] /\ \A f \in Targets : kept'[f] \in Content(f)
    BY <1>1, Emptied
  <2> QED
    BY <1>1, <1>2, <2>1, <2>2, Typing DEF InstallTypeOK, UserRests
<1>4. LateOK(c)'
  BY <1>1, <1>2, Through, PackageGone DEF LateOK
<1>5. PlanOK(c)' /\ HandledOK(c)' /\ OrderOK(c)' /\ MineOK(c)' /\ UserOK(c)'
  BY <1>2 DEF PlanOK, HandledOK, OrderOK, MineOK, UserOK
<1> QED
  BY <1>3, <1>4, <1>5 DEF CommandOK

(* The steps after that.                                                   *)
LateStep(c) == LookAgain(c) \/ RemoveWorkflow(c) \/ ReadSettings(c) \/ Unhook(c)

(* What the steps of an uninstall in a profile have in common.             *)
LEMMA LateFacts ==
  ASSUME InstallTypeOK, NEW c \in Commands, CommandOK(c), LateStep(c)
  PROVE  /\ Goes(c) /\ cmd[c].at \in Late /\ cmd'[c].at \in Late /\ inside = c /\ inside' = c
         /\ cmd'[c].op = cmd[c].op /\ cmd'[c].force = cmd[c].force /\ cmd'[c].result = cmd[c].result
         /\ cmd'[c].owned = cmd[c].owned
         /\ UNCHANGED <<kept, stray, failures, source, written, edits>> /\ touched' \subseteq touched
         /\ cmd[c].owned \in Owned
         /\ disk' \in [Targets -> Stuff] /\ \A f \in Targets : disk'[f] \in Content(f)
         /\ \A f \in Targets \ {"workflow", "settings"} : disk'[f] = disk[f]
<1>0. /\ cmd[c].owned # None => cmd[c].owned \in Owned
      /\ disk \in [Targets -> Stuff] /\ \A f \in Targets : disk[f] \in Content(f)
      /\ cmd[c].at \in Late => inside = c /\ cmd[c].owned # None
  BY Fields DEF IsCommand, Late, CommandOK, LateOK, InstallTypeOK
<1>1. CASE LookAgain(c)
  BY <1>0, <1>1, LookFacts DEF Late, Fixed, Asked
<1>2. CASE RemoveWorkflow(c)
  <2>1. /\ [disk EXCEPT !["workflow"] = None] \in [Targets -> Stuff]
        /\ [disk EXCEPT !["workflow"] = None]["workflow"] = None
        /\ \A g \in Targets \ {"workflow"} : [disk EXCEPT !["workflow"] = None][g] = disk[g]
    BY <1>0, Filled, Emptied DEF Targets
  <2>2. /\ disk' \in [Targets -> Stuff] /\ \A f \in Targets : disk'[f] \in Content(f)
        /\ \A f \in Targets \ {"workflow", "settings"} : disk'[f] = disk[f]
    BY <1>0, <1>2, <2>1, RemoveWorkflowFacts, Emptied
  <2> QED
    BY <1>0, <1>2, <2>2, RemoveWorkflowFacts DEF Late, Fixed, Asked, UserRests
<1>3. CASE ReadSettings(c)
  BY <1>0, <1>3, ReadFacts DEF Late, Fixed, Asked, CommandOK
<1>4. CASE Unhook(c)
  <2>1. PICK x \in Settings : disk' = [disk EXCEPT !["settings"] = x]
    BY <1>4, UnhookFacts DEF CommandOK
  <2>2. x \in Content("settings")
    BY <2>1 DEF Content
  <2>3. /\ disk' \in [Targets -> Stuff] /\ disk'["settings"] = x
        /\ \A g \in Targets \ {"settings"} : disk'[g] = disk[g]
    BY <1>0, <2>1, <2>2, Filled DEF Targets
  <2>4. \A f \in Targets : disk'[f] \in Content(f)
    BY <1>0, <2>2, <2>3
  <2> QED
    BY <1>0, <1>4, <2>3, <2>4, UnhookFacts DEF Late, Fixed, Asked, UserRests, CommandOK
<1> QED
  BY <1>1, <1>2, <1>3, <1>4 DEF LateStep

(* They keep the invariant of their command.                               *)
LEMMA LateKeeps ==
  ASSUME InstallTypeOK, NEW c \in Commands, CommandOK(c), LateStep(c)
  PROVE  InstallTypeOK' /\ CommandOK(c)'
<1>1. /\ Goes(c) /\ cmd[c].at \in Late /\ cmd'[c].at \in Late /\ inside = c /\ inside' = c
      /\ cmd'[c].op = cmd[c].op /\ cmd'[c].force = cmd[c].force /\ cmd'[c].result = cmd[c].result
      /\ cmd'[c].owned = cmd[c].owned
      /\ UNCHANGED <<kept, stray, failures, source, written, edits>> /\ touched' \subseteq touched
      /\ cmd[c].owned \in Owned
      /\ disk' \in [Targets -> Stuff] /\ \A f \in Targets : disk'[f] \in Content(f)
      /\ \A f \in Targets \ {"workflow", "settings"} : disk'[f] = disk[f]
  BY LateFacts
<1>2. cmd'[c].at \notin Rolling \cup {"new", "gone", "dead"} /\ cmd'[c].at \notin Busy
  BY <1>1 DEF Late, Rolling, Busy
<1>3. InstallTypeOK'
  <2>1. inside # None
    BY <1>1, Fields
  <2> QED
    BY <1>1, <1>2, <2>1, Typing DEF InstallTypeOK
<1>4. /\ cmd[c].op = "uninstall" /\ cmd[c].result = None /\ kept = NoBackups
      /\ cmd[c].owned = disk["owned"] /\ cmd[c].owned # None
      /\ cmd[c].before \in [Targets -> Stuff]
      /\ disk["record"] = None /\ disk["package"] \in {None, Mine}
  BY <1>1 DEF CommandOK, LateOK
<1>5. disk'["record"] = None /\ disk'["package"] \in {None, Mine} /\ disk'["owned"] = disk["owned"]
  BY <1>1, <1>4 DEF Targets
<1>6. /\ cmd'[c].before \in [Targets -> Stuff]
      /\ cmd'[c].at = "unhooking" =>
           cmd'[c].before["settings"] \in Settings /\ disk'["settings"] = cmd'[c].before["settings"]
  <2>1. CASE LookAgain(c)
    BY <1>4, <2>1, LookFacts DEF Fixed, Asked
  <2>2. CASE RemoveWorkflow(c)
    BY <1>4, <2>2, RemoveWorkflowFacts DEF Fixed, Asked
  <2>3. CASE ReadSettings(c)
    BY <1>1, <2>3, ReadFacts, Found DEF CommandOK
  <2>4. CASE Unhook(c)
    BY <1>4, <2>4, UnhookFacts DEF Fixed, Asked, CommandOK
  <2> QED
    BY <2>1, <2>2, <2>3, <2>4 DEF LateStep
<1>7. LateOK(c)'
  BY <1>1, <1>4, <1>5, <1>6 DEF LateOK
<1>8. MineOK(c)'
  <2>1. ASSUME cmd'[c].at = "removing", ~cmd[c].force, cmd[c].owned.workflow # None
        PROVE  disk'["workflow"] # Mine
    <3>1. LookAgain(c)
      BY <2>1, RemoveWorkflowFacts, ReadFacts, UnhookFacts DEF LateStep, CommandOK
    <3>2. disk["workflow"] \in {None, cmd[c].owned.workflow} /\ disk' = disk
      BY <2>1, <3>1, LookFacts
    <3>3. cmd[c].owned.workflow \in Versions \cup {Derived, None}
      BY <1>1 DEF Owned
    <3> QED
      BY <3>2, <3>3, InstallAssumption
  <2> QED
    BY <1>1, <1>2, <2>1 DEF MineOK
<1>9. PlanOK(c)' /\ HandledOK(c)' /\ OrderOK(c)' /\ UserOK(c)'
  BY <1>2 DEF PlanOK, HandledOK, OrderOK, UserOK
<1> QED
  BY <1>3, <1>7, <1>8, <1>9 DEF CommandOK

(* What the user may do.                                                   *)
UserStep == WriteSettings \/ \E f \in {"package", "workflow"} : Edit(f)
Changes(f, x) ==
  /\ disk' = [disk EXCEPT ![f] = x]
  /\ touched' = IF inside = None THEN {} ELSE touched \cup {f}
  /\ UNCHANGED <<kept, stray, source, inside, cmd, failures>>
  /\ {written', edits'} \subseteq Nat /\ written' <= MaxEdits
  /\ IF f = "settings" THEN x \in Settings /\ x.written = written' /\ (x.hooks <=> HooksIn(disk[f]))
     ELSE x \in {Mine, None} /\ written' = written

(* The user changes one file, and it counts as touched.                    *)
LEMMA UserFacts ==
  ASSUME InstallTypeOK, UserStep
  PROVE  \E f \in {"package", "workflow", "settings"} : \E x \in Content(f) : Changes(f, x)
<1>1. CASE WriteSettings
  <2> DEFINE x == [written |-> written + 1, hooks |-> disk["settings"] # None /\ disk["settings"].hooks]
  <2>1. written + 1 \in Nat /\ edits \in Nat /\ written + 1 <= MaxEdits /\ MaxEdits \in Nat
    BY <1>1, InstallAssumption DEF WriteSettings, InstallTypeOK
  <2>2. (disk["settings"] # None /\ disk["settings"].hooks) \in BOOLEAN
    OBVIOUS
  <2>3. x \in Settings /\ x.written = written + 1
    BY <2>1, <2>2 DEF Settings
  <2>4. x.hooks <=> HooksIn(disk["settings"])
    BY DEF HooksIn
  <2>5. disk' = [disk EXCEPT !["settings"] = x]
    BY <1>1 DEF WriteSettings
  <2> HIDE DEF x
  <2>6. x \in Content("settings") /\ Changes("settings", x)
    BY <1>1, <2>1, <2>3, <2>4, <2>5 DEF WriteSettings, Changes, Content
  <2> QED
    BY <2>6
<1>2. ASSUME NEW f \in {"package", "workflow"}, Edit(f)
      PROVE  \E x \in Content(f) : Changes(f, x)
  <2>1. PICK x \in {Mine, None} : disk' = [disk EXCEPT ![f] = x]
    BY <1>2 DEF Edit
  <2>2. {written', edits'} \subseteq Nat /\ written' <= MaxEdits
    BY <1>2 DEF Edit, InstallTypeOK
  <2>3. x \in Content(f)
    BY DEF Content, Workflow
  <2> QED
    BY <1>2, <2>1, <2>2, <2>3 DEF Edit, Changes
<1> QED
  BY <1>1, <1>2 DEF UserStep

(* The user keeps the invariant of every command.                          *)
LEMMA UserKeeps ==
  ASSUME InstallTypeOK, CommandInv, UserStep
  PROVE  InstallTypeOK' /\ CommandInv'
<1>1. PICK f \in {"package", "workflow", "settings"} : \E x \in Content(f) : Changes(f, x)
  BY UserFacts
<1>2. PICK x \in Content(f) : Changes(f, x)
  BY <1>1
<1>3. /\ disk \in [Targets -> Stuff] /\ \A g \in Targets : disk[g] \in Content(g)
      /\ f \in Targets /\ {"package", "workflow", "settings"} \subseteq Targets
  BY DEF InstallTypeOK, Targets
<1>4. /\ disk' \in [Targets -> Stuff] /\ disk'[f] = x /\ \A g \in Targets \ {f} : disk'[g] = disk[g]
  BY <1>2, <1>3, Filled DEF Changes
<1>5. /\ UNCHANGED <<kept, stray, source, inside, cmd, failures>>
      /\ {written', edits'} \subseteq Nat /\ written' <= MaxEdits
      /\ touched' = IF inside = None THEN {} ELSE touched \cup {f}
      /\ f # "settings" => x \in {Mine, None}
      /\ HooksIn(disk'["settings"]) => HooksIn(disk["settings"])
  BY <1>2, <1>3, <1>4 DEF Changes, HooksIn
<1>6. InstallTypeOK'
  <2>1. \A g \in Targets : disk'[g] \in Content(g) /\ kept'[g] \in Content(g)
    BY <1>3, <1>4, <1>5 DEF InstallTypeOK
  <2>2. touched' \subseteq {"package", "workflow", "settings"} /\ (inside' = None => touched' = {})
    BY <1>5 DEF InstallTypeOK
  <2>3. cmd' = [c \in Commands |-> cmd'[c]] /\ \A c \in Commands : IsCommand(cmd'[c])
    BY <1>5, Fields
  <2>4. \A c \in Commands : inside' = c <=> cmd'[c].at \notin {"new", "gone", "dead"}
    BY <1>5, Fields
  <2>5. {disk', kept'} \subseteq [Targets -> Stuff]
    BY <1>4, <1>5 DEF InstallTypeOK
  <2>6. failures' \in Nat /\ stray' \subseteq 0 .. MaxEdits /\ source' \in BOOLEAN
        /\ inside' \in Commands \cup {None} /\ (inside' = None => kept' = [g \in Targets |-> None])
    BY <1>5 DEF InstallTypeOK
  <2> QED
    BY <1>5, <2>1, <2>2, <2>3, <2>4, <2>5, <2>6 DEF InstallTypeOK, IsCommand
<1>7. ASSUME NEW c \in Commands PROVE CommandOK(c)'
  <2>1. CommandOK(c) /\ cmd'[c] = cmd[c] /\ IsCommand(cmd[c])
    BY <1>5, Fields DEF CommandInv
  <2>2. cmd[c].at \in Rolling \cup Busy \cup Late => touched' = touched \cup {f}
    BY <1>5, Fields DEF Rolling, Busy, Late
  <2>3. PlanOK(c)'
    BY <2>1 DEF CommandOK, PlanOK
  <2>4. HandledOK(c)'
    <3>1. ASSUME NEW g \in Targets \ {f}, Handled(c, g) PROVE Handled(c, g)'
      BY <1>4, <1>5, <2>1, <3>1 DEF Handled
    <3> QED
      BY <1>5, <2>1, <2>2, <3>1 DEF CommandOK, HandledOK
  <2>5. OrderOK(c)'
    BY <1>5, <2>1, <2>2 DEF CommandOK, OrderOK
  <2>6. MineOK(c)'
    BY <1>3, <1>4, <1>5, <2>1, <2>2 DEF CommandOK, MineOK, Late
  <2>7. UserOK(c)'
    <3>1. ASSUME NEW g \in {"package", "workflow"}
          PROVE  disk'[g] = disk[g] \/ disk'[g] \in {Mine, None}
      BY <1>3, <1>4, <1>5
    <3>2. \A g : Unwritten(c, g)' => Unwritten(c, g)
      BY <2>1 DEF Unwritten
    <3> QED
      BY <1>5, <2>1, <3>1, <3>2 DEF CommandOK, UserOK
  <2>8. LateOK(c)'
    <3>1. /\ disk'["record"] = disk["record"] /\ disk'["owned"] = disk["owned"]
          /\ disk'["package"] \in {disk["package"], Mine, None}
          /\ "settings" = f \/ disk'["settings"] = disk["settings"]
      BY <1>3, <1>4, <1>5 DEF Targets
    <3> QED
      BY <1>5, <2>1, <2>2, <3>1 DEF CommandOK, LateOK
  <2> QED
    BY <2>3, <2>4, <2>5, <2>6, <2>7, <2>8 DEF CommandOK
<1> QED
  BY <1>6, <1>7 DEF CommandInv

-----------------------------------------------------------------------------
(* Types and commands, in every step.                                      *)
LEMMA Initially == InstallInit => InstallInv
<1> SUFFICES ASSUME InstallInit PROVE InstallInv
  OBVIOUS
<1>1. PICK s \in {None, [written |-> 0, hooks |-> FALSE]}, v \in Versions \cup {None} :
        /\ disk = [package |-> v, record |-> v, workflow |-> v,
                   settings |-> IF v = None THEN s ELSE [written |-> 0, hooks |-> TRUE],
                   owned |-> IF v = None THEN None ELSE [workflow |-> v, hooks |-> TRUE]]
        /\ source = (v # None)
  BY DEF InstallInit
<1>2. /\ kept = NoBackups /\ stray = {} /\ inside = None /\ cmd = [c \in Commands |-> Idle]
      /\ failures = 0 /\ written = 0 /\ edits = 0 /\ touched = {}
  BY DEF InstallInit
<1>3. 0 \in 0 .. MaxEdits /\ 0 <= MaxEdits
  BY InstallAssumption
<1>4. /\ disk = [f \in Targets |-> disk[f]]
      /\ disk["package"] = v /\ disk["record"] = v /\ disk["workflow"] = v
      /\ disk["settings"] = IF v = None THEN s ELSE [written |-> 0, hooks |-> TRUE]
      /\ disk["owned"] = IF v = None THEN None ELSE [workflow |-> v, hooks |-> TRUE]
  BY <1>1 DEF Targets
<1>5. \A f \in Targets : disk[f] \in Content(f)
  <2>1. /\ [written |-> 0, hooks |-> TRUE] \in Settings /\ [written |-> 0, hooks |-> FALSE] \in Settings
        /\ v # None => [workflow |-> v, hooks |-> TRUE] \in Owned
    BY <1>3 DEF Settings, Owned
  <2> QED
    BY <1>4, <2>1 DEF Targets, Content, Workflow
<1>6. /\ IsCommand(Idle) /\ Idle.at = "new" /\ Idle.result = None /\ Idle.op = None
  BY DEF Idle, IsCommand, Nothing, Places
<1>7. \A c \in Commands : cmd[c] = Idle /\ c # None
  BY <1>2, InstallAssumption
<1>8. InstallTypeOK
  <2>1. disk \in [Targets -> Stuff]
    BY <1>4, <1>5, Contents
  <2>2. source \in BOOLEAN
    BY <1>1
  <2>3. \A c \in Commands : IsCommand(cmd[c]) /\ (inside = c <=> cmd[c].at \notin {"new", "gone", "dead"})
    BY <1>2, <1>6, <1>7
  <2>4. cmd = [c \in Commands |-> cmd[c]] /\ kept = [f \in Targets |-> None]
    BY <1>2 DEF NoBackups
  <2> QED
    BY <1>2, <1>3, <1>5, <2>1, <2>2, <2>3, <2>4, Emptied DEF InstallTypeOK
<1>9. \A c \in Commands : CommandOK(c) /\ KnownOK(c)
  BY <1>6, <1>7 DEF CommandOK, PlanOK, HandledOK, OrderOK, MineOK, UserOK, LateOK, KnownOK, Rolling, Busy, Late
<1>10. Known(disk)
  <2>1. CASE v = None
    BY <1>1, <1>4, <2>1 DEF Known, HooksIn
  <2>2. CASE v # None
    <3>1. /\ [workflow |-> v, hooks |-> TRUE] \in Owned
          /\ [workflow |-> v, hooks |-> TRUE].workflow = v /\ [workflow |-> v, hooks |-> TRUE].hooks
      BY <1>1, <2>2 DEF Owned
    <3> DEFINE owned == [workflow |-> v, hooks |-> TRUE]
    <3>2. disk["owned"] = owned /\ disk["workflow"] = v /\ owned \in Owned /\ owned.workflow = v /\ owned.hooks
      BY <1>4, <2>2, <3>1
    <3> HIDE DEF owned
    <3>3. owned # None
      BY <3>2, InstallAssumption
    <3> QED
      BY <2>2, <3>2, <3>3 DEF Known
  <2> QED
    BY <2>1, <2>2
<1> QED
  BY <1>8, <1>9, <1>10 DEF InstallInv, CommandInv, KnownInv

(* A step of one command keeps the invariant of the others: they are not   *)
(* under way.                                                              *)
LEMMA OthersOK ==
  ASSUME InstallTypeOK, CommandInv, NEW c \in Commands, Goes(c), inside \in {c, None}
  PROVE  \A b \in Commands \ {c} : CommandOK(b)' /\ KnownOK(b)'
<1> SUFFICES ASSUME NEW b \in Commands \ {c} PROVE CommandOK(b)' /\ KnownOK(b)'
  OBVIOUS
<1>1. cmd'[b] = cmd[b] /\ cmd[b].at \in {"new", "gone", "dead"}
  BY OthersRest
<1>2. cmd[b].at = "new" => cmd[b].result = None
  BY DEF CommandInv, CommandOK, PlanOK
<1> QED
  BY <1>1, <1>2, Resting

(* The steps by which a command leaves.                                    *)
LeaveStep(c) == UndoEnds(c) \/ Commit(c) \/ Unrecord(c) \/ Stop(c) \/ CommandDies(c)

(* What every end of a command has in common.                              *)
LEMMA LeaveFacts ==
  ASSUME InstallTypeOK, NEW c \in Commands, LeaveStep(c)
  PROVE  /\ inside = c /\ \E at \in {"gone", "dead"} : Leaves(c, at)
         /\ disk' \in [Targets -> Stuff] /\ \A f \in Targets : disk'[f] \in Content(f)
         /\ stray \subseteq stray' /\ stray' \subseteq 0 .. MaxEdits /\ failures' \in Nat
         /\ disk' = disk \/ disk' = [disk EXCEPT !["owned"] = None]
<1>1. /\ disk \in [Targets -> Stuff] /\ \A f \in Targets : disk[f] \in Content(f)
      /\ stray \subseteq 0 .. MaxEdits /\ failures \in Nat
  BY DEF InstallTypeOK
<1>2. /\ [disk EXCEPT !["owned"] = None] \in [Targets -> Stuff]
      /\ \A f \in Targets : [disk EXCEPT !["owned"] = None][f] \in Content(f)
  BY <1>1, Emptied, Filled DEF Targets
<1>3. CASE UndoEnds(c)
  BY <1>1, <1>3, UndoEndsFacts, Fields
<1>4. CASE Commit(c)
  BY <1>1, <1>4, CommitFacts, Fields
<1>5. CASE Unrecord(c)
  BY <1>1, <1>2, <1>5, UnrecordFacts, Fields
<1>6. CASE Stop(c)
  BY <1>1, <1>6, StopFacts, Fields DEF Late
<1>7. CASE CommandDies(c)
  BY <1>1, <1>7, CrashFacts, Fields
<1> QED
  BY <1>3, <1>4, <1>5, <1>6, <1>7 DEF LeaveStep

StageStep(c) == StageInstall(c) \/ StageEnsure(c) \/ StageUninstall(c)
RollingStep(c) ==
  \/ StageStep(c) \/ StageBackup(c) \/ Activate(c) \/ Fail(c) \/ UndoFile(c) \/ UndoFileFails(c)
  \/ CommitRemoval(c) \/ LateStep(c)

(* A step is one of the user or of a command that goes on or ends.         *)
LEMMA Splits ==
  ASSUME [InstallNext]_installVars
  PROVE  UserStep \/ UNCHANGED installVars \/ \E c \in Commands : RollingStep(c) \/ LeaveStep(c)
BY DEF InstallNext, Step, UserStep, RollingStep, StageStep, LateStep, LeaveStep

(* A command that goes on keeps its invariant, and the lock.               *)
LEMMA CommandKeeps ==
  ASSUME InstallTypeOK, CommandInv, NEW c \in Commands, RollingStep(c)
  PROVE  InstallTypeOK' /\ CommandOK(c)' /\ Goes(c) /\ inside \in {c, None} /\ inside' = c
<1>0. CommandOK(c)
  BY DEF CommandInv
<1>1. CASE StageStep(c)
  BY <1>1, StageKeeps, StageFacts DEF StageStep
<1>2. CASE StageBackup(c)
  <2>1. Goes(c) /\ cmd[c].at = "replacing" /\ inside' = inside
    BY <1>2, BackupFacts
  <2> QED
    BY <1>0, <1>2, <2>1, BackupKeeps, Fields
<1>3. CASE Activate(c)
  <2>1. Goes(c) /\ cmd[c].at = "activating" /\ inside' = inside
    BY <1>0, <1>3, ActivateFacts DEF CommandOK
  <2> QED
    BY <1>0, <1>3, <2>1, ActivateKeeps, Fields
<1>4. CASE Fail(c)
  BY <1>0, <1>4, FailKeeps, FailFacts, Fields DEF Busy
<1>5. CASE UndoFile(c)
  <2> DEFINE m == cmd[c].moved[Undone(c)]
             x == IF Restores(m) THEN kept[Undone(c)]
                  ELSE IF m.backup = "none" /\ m.activated THEN None ELSE disk[Undone(c)]
  <2>1. TakesBack(c, x, cmd[c].result)
    BY <1>5, UndoFacts
  <2>2. InstallTypeOK' /\ CommandOK(c)'
    BY <1>0, <2>1, TakingBackKeeps
  <2>3. Goes(c) /\ cmd[c].at = "undoing" /\ inside' = inside
    BY <2>1 DEF TakesBack
  <2> QED
    BY <2>2, <2>3, Fields
<1>6. CASE UndoFileFails(c)
  <2>1. PICK x : TakesBack(c, x, "broken")
    BY <1>6, UndoFailsFacts
  <2>2. InstallTypeOK' /\ CommandOK(c)'
    BY <1>0, <2>1, TakingBackKeeps
  <2>3. Goes(c) /\ cmd[c].at = "undoing" /\ inside' = inside
    BY <2>1 DEF TakesBack
  <2> QED
    BY <2>2, <2>3, Fields
<1>7. CASE CommitRemoval(c)
  BY <1>0, <1>7, RemovalKeeps, RemovalFacts, Fields
<1>8. CASE LateStep(c)
  BY <1>0, <1>8, LateKeeps, LateFacts
<1> QED
  BY <1>1, <1>2, <1>3, <1>4, <1>5, <1>6, <1>7, <1>8 DEF RollingStep

(* Every step keeps the invariant of every command.                        *)
LEMMA CommandStep ==
  ASSUME InstallTypeOK, CommandInv, [InstallNext]_installVars
  PROVE  InstallTypeOK' /\ CommandInv'
<1>1. CASE UserStep
  BY <1>1, UserKeeps
<1>2. CASE UNCHANGED installVars
  <2>1. InstallTypeOK'
    BY <1>2 DEF installVars, InstallTypeOK, IsCommand
  <2>2. ASSUME NEW c \in Commands PROVE CommandOK(c)'
    <3>1. CommandOK(c)
      BY DEF CommandInv
    <3> QED
      BY <1>2, <3>1 DEF installVars, CommandOK, PlanOK, HandledOK, Handled,
         OrderOK, MineOK, UserOK, Unwritten, LateOK
  <2> QED
    BY <2>1, <2>2 DEF CommandInv
<1>3. ASSUME NEW c \in Commands, RollingStep(c) PROVE InstallTypeOK' /\ CommandInv'
  BY <1>3, CommandKeeps, OthersOK DEF CommandInv
<1>4. ASSUME NEW c \in Commands, LeaveStep(c) PROVE InstallTypeOK' /\ CommandInv'
  <2>1. PICK at \in {"gone", "dead"} : Leaves(c, at)
    BY <1>4, LeaveFacts
  <2>2. InstallTypeOK' /\ CommandOK(c)'
    BY <1>4, <2>1, LeaveFacts, LeaveKeeps
  <2>3. \A b \in Commands \ {c} : CommandOK(b)'
    BY <1>4, <2>1, LeaveFacts, OthersOK DEF Leaves
  <2> QED
    BY <2>2, <2>3 DEF CommandInv
<1> QED
  BY <1>1, <1>2, <1>3, <1>4, Splits

-----------------------------------------------------------------------------
(* What is in a profile is recorded.                                       *)
LEMMA KnownFields ==
  ASSUME NEW d, NEW e, Known(d), e["owned"] = d["owned"],
         e["workflow"] \in {d["workflow"], Mine, None}, HooksIn(e["settings"]) => HooksIn(d["settings"])
  PROVE  Known(e)
BY DEF Known

(* A command that has not touched the workflow and the settings, or has    *)
(* put them back, leaves them recorded if they were.                       *)
LEMMA StillKnown ==
  ASSUME InstallTypeOK, NEW c \in Commands, CommandOK(c), cmd[c].at \in Rolling, Known(cmd[c].before),
         Unwritten(c, "workflow"), Unwritten(c, "settings"), disk["owned"] = cmd[c].before["owned"]
  PROVE  Known(disk)
<1>1. /\ disk["workflow"] \in {cmd[c].before["workflow"], Mine, None}
      /\ HooksIn(disk["settings"]) => HooksIn(cmd[c].before["settings"])
  BY DEF CommandOK, UserOK
<1> QED
  BY <1>1, KnownFields

(* What is in the profile is recorded when an uninstall turns to it,       *)
LEMMA RemovalKnown ==
  ASSUME InstallTypeOK, NEW c \in Commands, CommandOK(c), cmd[c].at \in Rolling, Known(cmd[c].before),
         cmd[c].op = "uninstall"
  PROVE  Known(disk)
<1>1. DOMAIN cmd[c].plan \subseteq {"package", "record"} /\ DOMAIN cmd[c].moved \subseteq DOMAIN cmd[c].plan
  BY Fields DEF CommandOK, PlanOK, Sensible, IsCommand
<1>2. "owned" \in Targets \ touched
  BY DEF InstallTypeOK, Targets
<1>3. disk["owned"] = cmd[c].before["owned"]
  <2>1. Handled(c, "owned")
    BY <1>1, <1>2 DEF CommandOK, HandledOK
  <2> QED
    BY <1>1, <2>1 DEF Handled
<1>4. Unwritten(c, "workflow") /\ Unwritten(c, "settings")
  BY <1>1 DEF Unwritten
<1> QED
  BY <1>3, <1>4, StillKnown

(* when a command has undone all of its steps,                             *)
LEMMA UndoneKnown ==
  ASSUME InstallTypeOK, NEW c \in Commands, CommandOK(c), cmd[c].at = "undoing", Known(cmd[c].before),
         DOMAIN cmd[c].moved = {}, cmd[c].result # "broken"
  PROVE  Known(disk)
<1>1. cmd[c].at \in Rolling /\ "owned" \in Targets \ touched
  BY DEF InstallTypeOK, Targets, Rolling
<1>2. disk["owned"] = cmd[c].before["owned"]
  BY <1>1 DEF CommandOK, HandledOK, Handled
<1>3. Unwritten(c, "workflow") /\ Unwritten(c, "settings")
  BY DEF Unwritten
<1> QED
  BY <1>1, <1>2, <1>3, StillKnown

(* when it has done all of its plan,                                       *)
LEMMA CommitKnown ==
  ASSUME InstallTypeOK, NEW c \in Commands, CommandOK(c), cmd[c].at = "replacing", cmd[c].todo = {},
         Known(cmd[c].before)
  PROVE  Known(disk)
<1> DEFINE plan == cmd[c].plan
           before == cmd[c].before
<1>1. cmd[c].at \in Rolling /\ "owned" \in Targets \ touched /\ "workflow" \in Targets
  BY DEF InstallTypeOK, Targets, Rolling
<1>2. CASE cmd[c].op = "uninstall"
  BY <1>1, <1>2, RemovalKnown
<1>3. CASE cmd[c].op # "uninstall"
  <2>1. /\ "owned" \in DOMAIN plan /\ plan["owned"] \in Owned /\ plan["owned"].hooks
        /\ IF "workflow" \in DOMAIN plan THEN plan["owned"].workflow # None
           ELSE plan["owned"].workflow = IF before["owned"] = None THEN None ELSE before["owned"].workflow
    BY <1>1, <1>3 DEF CommandOK, PlanOK, Sensible
  <2>2. disk["owned"] = plan["owned"] /\ disk["owned"] # None
    BY <1>1, <2>1, Through, InstallAssumption
  <2>3. ASSUME disk["workflow"] \notin {None, Mine} PROVE plan["owned"].workflow # None
    <3>1. CASE "workflow" \notin DOMAIN plan
      <4>1. Unwritten(c, "workflow")
        <5>1. "workflow" \notin DOMAIN cmd[c].moved
          BY <3>1, Fields DEF IsCommand
        <5> QED
          BY <3>1, <5>1 DEF Unwritten
      <4>2. before["workflow"] \notin {None, Mine}
        BY <1>1, <2>3, <4>1 DEF CommandOK, UserOK
      <4> QED
        BY <2>1, <3>1, <4>2 DEF Known
    <3> QED
      BY <2>1, <3>1
  <2> QED
    BY <2>1, <2>2, <2>3 DEF Known
<1> QED
  BY <1>2, <1>3

(* What went wrong stays so.                                               *)
LEMMA HarmedStays ==
  ASSUME InstallTypeOK, CommandInv, [InstallNext]_installVars, Harmed
  PROVE  Harmed'
<1>1. ASSUME NEW c \in Commands, Goes(c), inside \in {c, None}, inside' \in {c, None},
             cmd[c].at \notin {"gone", "dead"},
             cmd[c].result = "broken" /\ inside = c /\ cmd[c].op # "uninstall" => Harmed'
      PROVE  Harmed'
  <2>1. CASE Died
    <3>1. PICK d \in Commands : cmd[d].at = "dead" /\ cmd[d].op # "uninstall"
      BY <2>1 DEF Died
    <3>2. cmd'[d] = cmd[d]
      BY <1>1, <3>1 DEF Goes
    <3> QED
      BY <3>1, <3>2 DEF Harmed, Died
  <2>2. CASE ~Died
    <3>1. PICK b \in Commands : cmd[b].result = "broken" /\ ~(inside = b /\ cmd[b].op = "uninstall")
      BY <2>2 DEF Harmed
    <3>2. CASE b # c
      <4>1. cmd'[b] = cmd[b] /\ inside' # b
        BY <1>1, <3>2, Fields DEF Goes
      <4> QED
        BY <3>1, <4>1 DEF Harmed
    <3>3. CASE b = c
      <4>1. cmd[c].at # "new"
        BY <3>1, <3>3, InstallAssumption DEF CommandInv, CommandOK, PlanOK
      <4> QED
        BY <1>1, <3>1, <3>3, <4>1, Fields
    <3> QED
      BY <3>2, <3>3
  <2> QED
    BY <2>1, <2>2
<1>2. CASE UserStep
  <2>1. cmd' = cmd /\ inside' = inside
    BY <1>2, UserFacts DEF Changes
  <2> QED
    BY <2>1 DEF Harmed, Died
<1>3. CASE UNCHANGED installVars
  BY <1>3 DEF installVars, Harmed, Died
<1>4. ASSUME NEW c \in Commands, cmd[c].result = "broken", inside = c PROVE cmd[c].at = "undoing"
  <2>1. CommandOK(c) /\ cmd[c].at \in Places \ {"new", "gone", "dead"}
    BY <1>4, Fields DEF CommandInv, IsCommand
  <2>2. cmd[c].at \in Rolling \cup Late
    BY <2>1 DEF Places, Rolling, Late
  <2> QED
    BY <1>4, <2>1, <2>2, InstallAssumption DEF CommandOK, PlanOK, LateOK, Rolling, Busy
<1>5. ASSUME NEW c \in Commands, RollingStep(c) PROVE Harmed'
  <2>1. Goes(c) /\ inside \in {c, None} /\ inside' = c
    BY <1>5, CommandKeeps
  <2>2. cmd[c].at \notin {"gone", "dead"}
    <3>1. inside = None => cmd[c].at = "new"
      <4>1. ASSUME ~StageStep(c) PROVE inside = c
        BY <1>5, <4>1, Fields, LateFacts
        DEF CommandInv, RollingStep, StageBackup, Activate, Fail, UndoFile, UndoFileFails, CommitRemoval
      <4> QED
        BY <4>1, StageFacts, Fields DEF StageStep
    <3> QED
      BY <2>1, <3>1, Fields
  <2>3. ASSUME cmd[c].result = "broken", inside = c, cmd[c].op # "uninstall" PROVE Harmed'
    <3>1. cmd[c].at = "undoing"
      BY <1>4, <2>3
    <3>2. UndoFile(c) \/ UndoFileFails(c)
      <4>1. ~StageStep(c)
        BY <3>1, StageFacts DEF StageStep
      <4>2. ~LateStep(c)
        BY <3>1, LateFacts DEF CommandInv, Late
      <4> QED
        BY <1>5, <3>1, <4>1, <4>2 DEF RollingStep, StageBackup, Activate, Fail, CommitRemoval
    <3>3. \E x : TakesBack(c, x, "broken")
      BY <2>3, <3>2, UndoFacts, UndoFailsFacts
    <3>4. cmd'[c].result = "broken" /\ cmd'[c].op # "uninstall"
      BY <2>3, <3>3 DEF TakesBack, Fixed, Asked
    <3> QED
      BY <3>4 DEF Harmed
  <2> QED
    BY <1>1, <2>1, <2>2, <2>3
<1>6. ASSUME NEW c \in Commands, LeaveStep(c) PROVE Harmed'
  <2>1. PICK at \in {"gone", "dead"} : Leaves(c, at)
    BY <1>6, LeaveFacts
  <2>2. inside = c /\ Goes(c) /\ inside' = None
    BY <1>6, <2>1, LeaveFacts DEF Leaves
  <2>3. ASSUME cmd[c].result = "broken", cmd[c].op # "uninstall" PROVE Harmed'
    <3>1. cmd[c].at = "undoing"
      BY <1>4, <2>2, <2>3
    <3>2. UndoEnds(c) \/ CommandDies(c)
      BY <1>6, <3>1, StopFacts DEF LeaveStep, Commit, Unrecord, Late
    <3>3. CASE UndoEnds(c)
      <4>1. cmd'[c].result = "broken" /\ inside' # c
        BY <2>2, <2>3, <3>3, UndoEndsFacts, Fields
      <4> QED
        BY <4>1 DEF Harmed
    <3>4. CASE CommandDies(c)
      <4>1. cmd'[c].at = "dead" /\ cmd'[c].op # "uninstall"
        BY <2>3, <3>4, CrashFacts DEF Leaves
      <4> QED
        BY <4>1 DEF Harmed, Died
    <3> QED
      BY <3>2, <3>3, <3>4
  <2> QED
    BY <1>1, <2>2, <2>3, Fields
<1> QED
  BY <1>2, <1>3, <1>5, <1>6, Splits

(* and after each step of an uninstall in the profile.                     *)
LEMMA LateKnown ==
  ASSUME InstallTypeOK, NEW c \in Commands, CommandOK(c), KnownOK(c), LateStep(c)
  PROVE  KnownOK(c)'
<1>1. /\ cmd[c].at \in Late /\ cmd'[c].at \in Late /\ cmd[c].owned \in Owned
      /\ \A f \in Targets \ {"workflow", "settings"} : disk'[f] = disk[f]
  BY LateFacts
<1>2. /\ Known(disk) /\ cmd[c].owned = disk["owned"] /\ disk["owned"] # None
      /\ cmd[c].at \in {"reading", "unhooking", "unrecording"} => disk["workflow"] \in {None, Mine}
      /\ disk'["owned"] = disk["owned"] /\ disk \in [Targets -> Stuff]
  BY <1>1, Fields DEF KnownOK, CommandOK, LateOK, Targets
<1>3. ASSUME Known(disk'),
             cmd'[c].at \in {"reading", "unhooking", "unrecording"} => disk'["workflow"] \in {None, Mine},
             cmd'[c].at = "unrecording" => ~HooksIn(disk'["settings"])
      PROVE  KnownOK(c)'
  <2>1. cmd'[c].at \notin Rolling
    BY <1>1 DEF Late, Rolling
  <2>2. Known(disk)'
    BY <1>3 DEF Known
  <2> QED
    BY <1>3, <2>1, <2>2 DEF KnownOK
<1>4. CASE LookAgain(c)
  BY <1>2, <1>3, <1>4, LookFacts
<1>5. CASE RemoveWorkflow(c)
  <2>1. /\ cmd'[c].at = "reading"
        /\ disk' = IF cmd[c].owned.workflow = None THEN disk ELSE [disk EXCEPT !["workflow"] = None]
    BY <1>5, RemoveWorkflowFacts
  <2>2. disk'["workflow"] \in {None, Mine} /\ disk'["settings"] = disk["settings"]
    BY <1>2, <2>1 DEF Known, Targets
  <2>3. Known(disk')
    BY <1>2, <2>2 DEF Known
  <2> QED
    BY <1>3, <2>1, <2>2, <2>3
<1>6. CASE ReadSettings(c)
  <2>1. /\ cmd[c].at = "reading" /\ disk' = disk
        /\ cmd'[c].at = IF cmd[c].owned.hooks /\ disk["settings"] # None THEN "unhooking" ELSE "unrecording"
    BY <1>6, ReadFacts DEF CommandOK
  <2>2. cmd'[c].at = "unrecording" => ~HooksIn(disk["settings"])
    BY <1>2, <2>1 DEF Known, HooksIn
  <2> QED
    BY <1>2, <1>3, <2>1, <2>2
<1>7. CASE Unhook(c)
  <2>1. PICK x \in Settings : disk' = [disk EXCEPT !["settings"] = x] /\ ~x.hooks
    BY <1>7, UnhookFacts DEF CommandOK
  <2>2. disk'["settings"] = x /\ disk'["workflow"] = disk["workflow"]
    BY <1>2, <2>1 DEF Targets
  <2>3. ~HooksIn(disk'["settings"]) /\ cmd[c].at = "unhooking"
    BY <1>7, <2>1, <2>2 DEF HooksIn, Unhook
  <2>4. Known(disk')
    BY <1>2, <2>2, <2>3 DEF Known
  <2> QED
    BY <1>2, <1>3, <2>2, <2>3, <2>4
<1> QED
  BY <1>4, <1>5, <1>6, <1>7 DEF LateStep

(* So every step keeps what is in the profile recorded.                    *)
LEMMA KnownStep ==
  ASSUME InstallInv, [InstallNext]_installVars
  PROVE  KnownInv'
<1> SUFFICES ASSUME ~Harmed' PROVE (inside' = None => Known(disk)') /\ \A c \in Commands : KnownOK(c)'
  BY DEF KnownInv
<1>1. InstallTypeOK /\ CommandInv /\ (\A c \in Commands : CommandOK(c)) /\ ~Harmed
  BY HarmedStays DEF InstallInv, CommandInv
<1>2. (inside = None => Known(disk)) /\ \A c \in Commands : KnownOK(c)
  BY <1>1 DEF InstallInv, KnownInv
<1>3. CASE UserStep
  <2>1. PICK f \in {"package", "workflow", "settings"} : \E x \in Content(f) : Changes(f, x)
    BY <1>1, <1>3, UserFacts
  <2>2. PICK x \in Content(f) : Changes(f, x)
    BY <2>1
  <2>3. /\ disk \in [Targets -> Stuff] /\ f \in Targets /\ cmd' = cmd /\ inside' = inside
        /\ disk' = [disk EXCEPT ![f] = x] /\ {"workflow", "settings", "owned"} \subseteq Targets
    BY <1>1, <2>2, Fields DEF Targets, Changes
  <2>4. /\ disk'["owned"] = disk["owned"] /\ disk'["workflow"] \in {disk["workflow"], Mine, None}
        /\ HooksIn(disk'["settings"]) => HooksIn(disk["settings"])
    BY <2>2, <2>3 DEF Changes, HooksIn
  <2>5. Known(disk) => Known(disk)'
    BY <2>4 DEF Known
  <2> QED
    BY <1>2, <2>3, <2>4, <2>5 DEF KnownOK
<1>4. CASE UNCHANGED installVars
  BY <1>2, <1>4 DEF installVars, KnownOK, Known
<1>5. ASSUME NEW c \in Commands, RollingStep(c)
      PROVE  (inside' = None => Known(disk)') /\ \A b \in Commands : KnownOK(b)'
  <2>1. Goes(c) /\ inside \in {c, None} /\ inside' = c /\ c # None
    BY <1>1, <1>5, CommandKeeps, Fields
  <2>2. \A b \in Commands \ {c} : KnownOK(b)'
    BY <1>1, <2>1, OthersOK
  <2>3. ASSUME cmd'[c].at \in Rolling, Known(cmd'[c].before) PROVE KnownOK(c)'
    <3>1. cmd'[c].at \notin Late
      BY <2>3 DEF Rolling, Late
    <3> QED
      BY <2>3, <3>1 DEF KnownOK, Known, Late
  <2>4. CASE StageStep(c)
    <3>1. inside = None /\ cmd'[c].before = disk /\ cmd'[c].at = "replacing"
      BY <1>1, <2>4, StageFacts DEF StageStep
    <3> QED
      BY <1>2, <2>1, <2>2, <2>3, <3>1 DEF Rolling
  <2>5. ASSUME cmd[c].at \in Rolling, cmd'[c].at \in Rolling, cmd'[c].before = cmd[c].before PROVE KnownOK(c)'
    BY <1>2, <2>3, <2>5 DEF KnownOK
  <2>6. CASE StageBackup(c)
    BY <1>1, <2>1, <2>2, <2>5, <2>6, BackupFacts DEF Fixed, Asked, Rolling
  <2>7. CASE Activate(c)
    BY <1>1, <2>1, <2>2, <2>5, <2>7, ActivateFacts DEF Fixed, Asked, Rolling, CommandOK
  <2>8. CASE Fail(c)
    BY <1>1, <2>1, <2>2, <2>5, <2>8, FailFacts DEF Fixed, Asked, Rolling, Busy
  <2>9. CASE UndoFile(c) \/ UndoFileFails(c)
    <3>1. \E x, result : TakesBack(c, x, result)
      BY <1>1, <2>9, UndoFacts, UndoFailsFacts
    <3> QED
      BY <2>1, <2>2, <2>5, <3>1 DEF TakesBack, Fixed, Asked, Rolling
  <2>10. CASE CommitRemoval(c)
    <3>1. /\ cmd[c].at = "replacing" /\ cmd[c].todo = {} /\ cmd'[c].at = "looking" /\ disk' = disk
      BY <1>1, <2>10, RemovalFacts
    <3>2. Known(disk)
      BY <1>1, <1>2, <3>1, CommitKnown DEF KnownOK, Rolling
    <3>3. KnownOK(c)'
      BY <3>1, <3>2 DEF KnownOK, Known, Rolling
    <3> QED
      BY <2>1, <2>2, <3>3
  <2>11. CASE LateStep(c)
    BY <1>1, <1>2, <2>1, <2>2, <2>11, LateKnown
  <2> QED
    BY <1>5, <2>4, <2>6, <2>7, <2>8, <2>9, <2>10, <2>11 DEF RollingStep
<1>6. ASSUME NEW c \in Commands, LeaveStep(c)
      PROVE  (inside' = None => Known(disk)') /\ \A b \in Commands : KnownOK(b)'
  <2>1. PICK at \in {"gone", "dead"} : Leaves(c, at)
    BY <1>1, <1>6, LeaveFacts
  <2>2. inside = c /\ Goes(c) /\ inside' = None /\ c # None
    BY <1>1, <1>6, <2>1, LeaveFacts, Fields DEF Leaves
  <2>3. \A b \in Commands : KnownOK(b)'
    BY <1>1, <1>6, <2>1, <2>2, LeaveFacts, LeaveKeeps, OthersOK
  <2>4. CommandOK(c) /\ KnownOK(c)
    BY <1>1, <1>2
  <2>5. ASSUME disk' = disk, Known(disk) PROVE Known(disk)'
    BY <2>5 DEF Known
  <2>6. CASE UndoEnds(c)
    <3>1. /\ cmd[c].at = "undoing" /\ DOMAIN cmd[c].moved = {} /\ disk' = disk
          /\ cmd'[c].result = cmd[c].result
      BY <1>1, <2>6, UndoEndsFacts
    <3>2. cmd[c].result # "broken"
      BY <2>2, <3>1 DEF Harmed
    <3>3. Known(disk)
      BY <1>1, <2>4, <3>1, <3>2, UndoneKnown DEF KnownOK, Rolling
    <3> QED
      BY <2>3, <2>5, <3>1, <3>3
  <2>7. CASE Commit(c)
    <3>1. cmd[c].at = "replacing" /\ cmd[c].todo = {} /\ disk' = disk
      BY <1>1, <2>7, CommitFacts
    <3>2. Known(disk)
      BY <1>1, <2>4, <3>1, CommitKnown DEF KnownOK, Rolling
    <3> QED
      BY <2>3, <2>5, <3>1, <3>2
  <2>8. CASE Unrecord(c)
    <3>1. cmd[c].at = "unrecording" /\ disk' = [disk EXCEPT !["owned"] = None]
      BY <1>1, <2>8, UnrecordFacts
    <3>2. disk["workflow"] \in {None, Mine} /\ ~HooksIn(disk["settings"])
      BY <2>4, <3>1 DEF KnownOK
    <3>3. disk'["owned"] = None /\ disk'["workflow"] = disk["workflow"] /\ disk'["settings"] = disk["settings"]
      BY <1>1, <3>1, Fields DEF Targets
    <3> QED
      BY <2>3, <3>2, <3>3 DEF Known
  <2>9. CASE Stop(c)
    BY <1>1, <2>3, <2>4, <2>5, <2>9, StopFacts DEF KnownOK
  <2>10. CASE CommandDies(c)
    <3>1. cmd'[c].at = "dead" /\ cmd'[c].op = cmd[c].op /\ disk' = disk
      BY <1>1, <2>10, CrashFacts DEF Leaves
    <3>2. cmd[c].op = "uninstall"
      BY <3>1 DEF Harmed, Died
    <3>3. cmd[c].at \in Rolling \cup Late
      <4>1. cmd[c].at \in Places \ {"new", "gone", "dead"}
        BY <1>1, <2>2, Fields DEF IsCommand
      <4> QED
        BY <4>1 DEF Places, Rolling, Late
    <3>4. Known(disk)
      BY <1>1, <2>4, <3>2, <3>3, RemovalKnown DEF KnownOK
    <3> QED
      BY <2>3, <2>5, <3>1, <3>4
  <2> QED
    BY <1>6, <2>6, <2>7, <2>8, <2>9, <2>10 DEF LeaveStep
<1> QED
  BY <1>3, <1>4, <1>5, <1>6, Splits

(* The invariant holds of every reachable state.                           *)
LEMMA Invariance == InstallSpec => []InstallInv
<1>1. ASSUME InstallInv, [InstallNext]_installVars PROVE InstallInv'
  BY <1>1, CommandStep, KnownStep DEF InstallInv
<1> QED
  BY Initially, <1>1, PTL DEF InstallSpec

-----------------------------------------------------------------------------
(* Files, backups and commands stay of their types; the command that has   *)
(* the lock, and no other, is under way.                                   *)
THEOREM InstallTypeCorrect == InstallSpec => []InstallTypeOK
<1>1. InstallInv => InstallTypeOK
  BY DEF InstallInv
<1> QED
  BY Invariance, <1>1, PTL

(* A command that reports success has replaced every file of its plan, and *)
(* one that failed and was undone has left every file as it found it, in   *)
(* whatever order its steps failed and whatever the user did to other      *)
(* files (replace_all, remove_all, rollback).                              *)
THEOREM AllIsDoneOrNothing == InstallSpec => AllOrNothing
<1>1. ASSUME InstallInv
      PROVE  \A c \in Commands :
               \A f \in Targets \ touched :
                 /\ (Commit(c) \/ CommitRemoval(c)) =>
                      disk[f] = IF f \in DOMAIN cmd[c].plan THEN cmd[c].plan[f] ELSE cmd[c].before[f]
                 /\ (UndoEnds(c) /\ cmd[c].result = "failed") => disk[f] = cmd[c].before[f]
  <2>1. ASSUME NEW c \in Commands, NEW f \in Targets \ touched, Commit(c) \/ CommitRemoval(c)
        PROVE  disk[f] = IF f \in DOMAIN cmd[c].plan THEN cmd[c].plan[f] ELSE cmd[c].before[f]
    <3>1. cmd[c].at = "replacing" /\ cmd[c].todo = {}
      BY <2>1 DEF Commit, CommitRemoval
    <3> QED
      BY <1>1, <2>1, <3>1, Through DEF InstallInv, CommandInv
  <2>2. ASSUME NEW c \in Commands, NEW f \in Targets \ touched, UndoEnds(c), cmd[c].result = "failed"
        PROVE  disk[f] = cmd[c].before[f]
    <3>1. cmd[c].at \in Rolling /\ DOMAIN cmd[c].moved = {} /\ cmd[c].result # "broken"
      BY <2>2, InstallAssumption DEF UndoEnds, Rolling
    <3>2. Handled(c, f)
      BY <1>1, <2>2, <3>1 DEF InstallInv, CommandInv, CommandOK, HandledOK
    <3> QED
      BY <3>1, <3>2 DEF Handled
  <2> QED
    BY <2>1, <2>2
<1>2. InstallInv /\ [InstallNext]_installVars =>
        [\A c \in Commands :
           \A f \in Targets \ touched :
             /\ (Commit(c) \/ CommitRemoval(c)) =>
                  disk[f] = IF f \in DOMAIN cmd[c].plan THEN cmd[c].plan[f] ELSE cmd[c].before[f]
             /\ (UndoEnds(c) /\ cmd[c].result = "failed") => disk[f] = cmd[c].before[f]]_installVars
  BY <1>1
<1> QED
  BY Invariance, <1>2, PTL DEF AllOrNothing, InstallSpec

(* Without --force a command neither replaces nor removes a file the user  *)
(* has made his own before the command looked at it (preflight_existing,   *)
(* preflight_workflow_target, preflight_uninstall).                        *)
THEOREM UsersFilesKept == InstallSpec => KeepsMine
<1>1. ASSUME InstallInv, [InstallNext]_installVars, NEW f \in {"package", "workflow"},
             disk[f] = Mine, disk'[f] # Mine
      PROVE  cmd' = cmd \/ f \in touched \/ \E c \in Commands : inside = c /\ cmd[c].force
  <2>1. InstallTypeOK /\ \A c \in Commands : CommandOK(c)
    BY <1>1 DEF InstallInv, CommandInv
  <2>2. CASE UserStep \/ UNCHANGED installVars
    BY <2>1, <2>2, UserFacts DEF Changes, installVars
  <2>3. f \in Targets /\ f # "owned" /\ f # "settings" /\ disk \in [Targets -> Stuff]
    BY <2>1, Fields DEF Targets
  <2>4. ASSUME NEW c \in Commands, RollingStep(c), f \notin touched, ~cmd[c].force PROVE FALSE
    <3>1. ASSUME cmd[c].at \in Rolling, f \in DOMAIN cmd[c].plan PROVE FALSE
      BY <1>1, <2>1, <2>4, <3>1 DEF CommandOK, MineOK
    <3>2. CASE StageStep(c)
      BY <1>1, <2>1, <3>2, StageFacts DEF StageStep
    <3>3. CASE StageBackup(c)
      <4> DEFINE g == First(cmd[c].todo)
      <4>1. g \in DOMAIN cmd[c].plan /\ cmd[c].at \in Rolling
        BY <2>1, <3>3, BackupFacts DEF Rolling
      <4>2. disk' = disk \/ disk' = [disk EXCEPT ![g] = None]
        BY <3>3 DEF StageBackup
      <4> HIDE DEF g
      <4>3. f # g
        BY <3>1, <4>1
      <4> QED
        BY <1>1, <2>3, <4>2, <4>3
    <3>4. CASE Activate(c)
      <4> DEFINE g == First(cmd[c].todo)
      <4>1. /\ g \in DOMAIN cmd[c].plan /\ cmd[c].at \in Rolling
            /\ disk' = [disk EXCEPT ![g] = cmd[c].plan[g]]
        BY <2>1, <3>4, ActivateFacts DEF Rolling, CommandOK
      <4> HIDE DEF g
      <4>2. f # g
        BY <3>1, <4>1
      <4> QED
        BY <1>1, <2>3, <4>1, <4>2
    <3>5. CASE Fail(c)
      BY <1>1, <2>1, <3>5, FailFacts
    <3>6. CASE UndoFile(c) \/ UndoFileFails(c)
      <4> DEFINE g == Undone(c)
      <4>1. PICK x, result : TakesBack(c, x, result)
        BY <2>1, <3>6, UndoFacts, UndoFailsFacts
      <4>2. g \in DOMAIN cmd[c].plan /\ cmd[c].at \in Rolling /\ disk' = [disk EXCEPT ![g] = x]
        BY <4>1 DEF TakesBack, Rolling
      <4> HIDE DEF g
      <4>3. f # g
        BY <3>1, <4>2
      <4> QED
        BY <1>1, <2>3, <4>2, <4>3
    <3>7. CASE CommitRemoval(c)
      BY <1>1, <2>1, <3>7, RemovalFacts
    <3>8. CASE LookAgain(c)
      BY <1>1, <2>1, <3>8, LookFacts
    <3>9. CASE RemoveWorkflow(c)
      <4>1. /\ cmd[c].at = "removing"
            /\ disk' = IF cmd[c].owned.workflow = None THEN disk ELSE [disk EXCEPT !["workflow"] = None]
        BY <2>1, <3>9, RemoveWorkflowFacts
      <4>2. f = "workflow" /\ cmd[c].owned.workflow # None
        BY <1>1, <2>3, <4>1
      <4> QED
        BY <1>1, <2>1, <2>4, <4>1, <4>2 DEF CommandOK, MineOK
    <3>10. CASE ReadSettings(c)
      BY <1>1, <2>1, <3>10, ReadFacts DEF CommandOK
    <3>11. CASE Unhook(c)
      <4>1. PICK x \in Settings : disk' = [disk EXCEPT !["settings"] = x]
        BY <2>1, <3>11, UnhookFacts DEF CommandOK
      <4> QED
        BY <1>1, <2>3, <4>1
    <3> QED
      BY <2>4, <3>2, <3>3, <3>4, <3>5, <3>6, <3>7, <3>8, <3>9, <3>10, <3>11 DEF RollingStep, LateStep
  <2>5. ASSUME NEW c \in Commands, RollingStep(c), f \notin touched, cmd[c].force
        PROVE  inside = c
    <3>1. CASE StageStep(c)
      BY <1>1, <2>1, <3>1, StageFacts DEF StageStep
    <3>2. CASE ~StageStep(c)
      BY <2>1, <2>5, <3>2, Fields, LateFacts
      DEF RollingStep, StageBackup, Activate, Fail, UndoFile, UndoFileFails, CommitRemoval
    <3> QED
      BY <3>1, <3>2
  <2>6. ASSUME NEW c \in Commands, LeaveStep(c) PROVE FALSE
    <3>1. disk' = disk \/ disk' = [disk EXCEPT !["owned"] = None]
      BY <2>1, <2>6, LeaveFacts
    <3> QED
      BY <1>1, <2>3, <3>1
  <2> QED
    BY <1>1, <2>2, <2>4, <2>5, <2>6, Splits
<1>2. InstallInv /\ [InstallNext]_installVars =>
        [\A f \in {"package", "workflow"} :
           (disk[f] = Mine /\ disk'[f] # Mine) =>
             \/ cmd' = cmd
             \/ f \in touched
             \/ \E c \in Commands : inside = c /\ cmd[c].force]_installVars
  BY <1>1
<1> QED
  BY Invariance, <1>2, PTL DEF KeepsMine, InstallSpec

-----------------------------------------------------------------------------
(* Where the settings are that the user wrote last.                        *)
Has(x) == x # None /\ x.written = written

(* What the user wrote is saved as long as where it is saved stays.        *)
LEMMA StillSaved ==
  ASSUME EditsSaved, written' = written, stray \subseteq stray',
         Has(disk["settings"]) => Has(disk'["settings"]) \/ Has(kept'["settings"]),
         Has(kept["settings"]) => Has(disk'["settings"]) \/ Has(kept'["settings"]) \/ written \in stray'
  PROVE  EditsSaved'
BY DEF EditsSaved, Has

(* A command that has the settings in its plan puts back what it found, or *)
(* writes the same with its hooks.                                         *)
LEMMA PlannedSettings ==
  ASSUME InstallTypeOK, NEW c \in Commands, CommandOK(c), cmd[c].at \in Rolling,
               "settings" \in DOMAIN cmd[c].plan,
         written > 0
  PROVE  LET before == cmd[c].before["settings"]
         IN  Has(cmd[c].plan["settings"]) <=> Has(before)
<1>1. /\ cmd[c].plan["settings"] \in Settings
      /\ cmd[c].plan["settings"].written = WrittenIn(cmd[c].before["settings"])
  BY DEF CommandOK, PlanOK, Sensible
<1>2. cmd[c].plan["settings"] # None
  BY <1>1, InstallAssumption
<1> QED
  BY <1>1, <1>2 DEF Has, WrittenIn, InstallTypeOK

(* What a command under way has made of settings that nobody has touched.  *)
LEMMA HandledSettings ==
  ASSUME InstallTypeOK, NEW c \in Commands, CommandOK(c), cmd[c].at \in Rolling, "settings" \notin touched,
         cmd[c].result # "broken"
  PROVE  Handled(c, "settings") /\ kept["settings"] \in {None, cmd[c].before["settings"]}
BY DEF CommandOK, HandledOK, Targets

(* A command that goes on does not lose what the user wrote,               *)
LEMMA EditsStep ==
  ASSUME InstallTypeOK, NEW c \in Commands, CommandOK(c), RollingStep(c), written > 0, EditsSaved,
         "settings" \notin touched, cmd[c].result # "broken"
  PROVE  EditsSaved'
<1> DEFINE before == cmd[c].before["settings"]
           done == cmd[c].moved["settings"]
<1>0. /\ disk \in [Targets -> Stuff] /\ kept \in [Targets -> Stuff] /\ "settings" \in Targets
      /\ \A f \in Targets \ {"settings"} : f # "settings"
  BY Fields DEF Targets
<1>1. ASSUME UNCHANGED <<disk, kept, stray, written>> PROVE EditsSaved'
  BY <1>1, StillSaved
<1>2. CASE StageStep(c)
  BY <1>1, <1>2, StageFacts DEF StageStep
<1>3. CASE StageBackup(c)
  <2> DEFINE f == First(cmd[c].todo)
  <2>1. /\ cmd[c].at = "replacing" /\ f \in cmd[c].todo /\ f \in Targets /\ UNCHANGED <<stray, written>>
        /\ kept' = [kept EXCEPT ![f] = disk[f]]
    BY <1>3, BackupFacts DEF UserRests
  <2>2. disk' = disk \/ disk' = [disk EXCEPT ![f] = None]
    BY <1>3 DEF StageBackup
  <2> HIDE DEF f
  <2>3. CASE f = "settings"
    <3>1. f \notin DOMAIN cmd[c].moved
      BY <2>1 DEF CommandOK, OrderOK, Busy
    <3>2. kept["settings"] = None /\ kept'["settings"] = disk["settings"]
      BY <1>0, <2>1, <2>3, <3>1 DEF CommandOK, OrderOK, Busy
    <3> QED
      BY <2>1, <3>2, StillSaved DEF Has
  <2>4. CASE f # "settings"
    <3>1. kept'["settings"] = kept["settings"] /\ disk'["settings"] = disk["settings"]
      BY <1>0, <2>1, <2>2, <2>4
    <3> QED
      BY <2>1, <3>1, StillSaved
  <2> QED
    BY <2>3, <2>4
<1>4. CASE Activate(c)
  <2> DEFINE f == First(cmd[c].todo)
  <2>1. /\ cmd[c].at = "activating" /\ f \in cmd[c].todo /\ f \in Targets /\ f \in DOMAIN cmd[c].plan
        /\ UNCHANGED <<kept, stray, written>> /\ f \in DOMAIN cmd[c].moved
        /\ disk' = [disk EXCEPT ![f] = cmd[c].plan[f]]
    BY <1>4, ActivateFacts DEF UserRests, CommandOK
  <2>2. ~cmd[c].moved[f].activated /\ cmd[c].at \in Rolling
    BY <2>1 DEF CommandOK, OrderOK, Busy, Rolling
  <2> HIDE DEF f
  <2>3. CASE f = "settings"
    <3>1. disk["settings"] \in {None, before}
      BY <2>1, <2>2, <2>3, HandledSettings DEF Handled
    <3>2. Has(disk["settings"]) => Has(cmd[c].plan["settings"])
      BY <2>1, <2>2, <2>3, <3>1, PlannedSettings DEF Has
    <3>3. disk'["settings"] = cmd[c].plan["settings"]
      BY <1>0, <2>1, <2>3
    <3> QED
      BY <2>1, <3>2, <3>3, StillSaved
  <2>4. CASE f # "settings"
    <3>1. disk'["settings"] = disk["settings"]
      BY <1>0, <2>1, <2>4
    <3> QED
      BY <2>1, <3>1, StillSaved
  <2> QED
    BY <2>3, <2>4
<1>5. CASE Fail(c)
  BY <1>1, <1>5, FailFacts DEF UserRests
<1>6. ASSUME NEW x, NEW result, TakesBack(c, x, result),
             x = disk[Undone(c)] \/ (x = None /\ cmd[c].moved[Undone(c)].activated)
             \/ (x = kept[Undone(c)] /\ Restores(cmd[c].moved[Undone(c)]))
      PROVE  EditsSaved'
  <2> DEFINE f == Undone(c)
  <2>1. /\ UNCHANGED <<kept, stray, written>> /\ f \in Targets /\ f \in DOMAIN cmd[c].moved
        /\ f \in DOMAIN cmd[c].plan /\ disk' = [disk EXCEPT ![f] = x] /\ cmd[c].at \in Rolling
    BY <1>6 DEF TakesBack, UserRests, Rolling
  <2>2. x = disk[f] \/ (x = None /\ cmd[c].moved[f].activated) \/ (x = kept[f] /\ Restores(cmd[c].moved[f]))
    BY <1>6
  <2> HIDE DEF f
  <2>3. CASE f = "settings"
    <3>1. /\ IF done.backup = "none" THEN before = None ELSE before # None /\ kept["settings"] = before
          /\ disk["settings"] = IF done.activated THEN cmd[c].plan["settings"]
                                ELSE IF done.backup = "moved" THEN None ELSE before
      BY <2>1, <2>3, HandledSettings DEF Handled
    <3>2. disk'["settings"] = x
      BY <1>0, <2>1, <2>3
    <3>3. ASSUME Has(disk["settings"]) PROVE Has(x) \/ Has(kept["settings"])
      <4>1. CASE x = disk["settings"]
        BY <3>3, <4>1
      <4>2. CASE done.activated
        <5>1. Has(before)
          BY <2>1, <2>3, <3>1, <3>3, <4>2, PlannedSettings
        <5> QED
          BY <3>1, <5>1 DEF Has
      <4>3. CASE x = kept["settings"] /\ Restores(done) /\ ~done.activated
        BY <3>1, <3>3, <4>3 DEF Restores, Has
      <4> QED
        BY <2>2, <2>3, <4>1, <4>2, <4>3
    <3> QED
      BY <2>1, <3>2, <3>3, StillSaved
  <2>4. CASE f # "settings"
    <3>1. disk'["settings"] = disk["settings"]
      BY <1>0, <2>1, <2>4
    <3> QED
      BY <2>1, <3>1, StillSaved
  <2> QED
    BY <2>3, <2>4
<1>7. CASE UndoFile(c)
  BY <1>6, <1>7, UndoFacts
<1>8. CASE UndoFileFails(c)
  BY <1>6, <1>8, UndoFailsFacts
<1>9. CASE CommitRemoval(c)
  <2>1. /\ cmd[c].at = "replacing" /\ cmd[c].todo = {} /\ cmd[c].op = "uninstall"
        /\ UNCHANGED <<disk, stray, written>>
    BY <1>9, RemovalFacts DEF UserRests
  <2>2. disk["settings"] = before /\ kept["settings"] \in {None, before}
    BY <1>0, <2>1, Through, PackageGone
  <2> QED
    BY <2>1, <2>2, StillSaved DEF Has
<1>10. CASE LookAgain(c)
  BY <1>1, <1>10, LookFacts
<1>11. CASE RemoveWorkflow(c)
  <2>1. disk' = disk \/ disk' = [disk EXCEPT !["workflow"] = None]
    BY <1>11, RemoveWorkflowFacts
  <2>2. disk'["settings"] = disk["settings"] /\ UNCHANGED <<kept, stray, written>>
    BY <1>0, <1>11, <2>1, RemoveWorkflowFacts DEF UserRests
  <2> QED
    BY <2>2, StillSaved
<1>12. CASE ReadSettings(c)
  BY <1>1, <1>12, ReadFacts DEF CommandOK
<1>13. CASE Unhook(c)
  <2>1. PICK x \in Settings : disk' = [disk EXCEPT !["settings"] = x] /\ x.written = before.written
    BY <1>13, UnhookFacts DEF CommandOK
  <2>2. disk'["settings"] = x /\ UNCHANGED <<kept, stray, written>> /\ x # None
    BY <1>0, <1>13, <2>1, UnhookFacts, InstallAssumption DEF UserRests, CommandOK
  <2>3. disk["settings"] = before
    BY <1>13 DEF Unhook, CommandOK, LateOK, Late
  <2> QED
    BY <2>1, <2>2, <2>3, StillSaved DEF Has
<1> QED
  BY <1>2, <1>3, <1>4, <1>5, <1>7, <1>8, <1>9, <1>10, <1>11, <1>12, <1>13 DEF RollingStep, LateStep

(* and one that ends does not.                                             *)
LEMMA EditsLeave ==
  ASSUME InstallTypeOK, NEW c \in Commands, CommandOK(c), LeaveStep(c), written > 0, EditsSaved,
         "settings" \notin touched, cmd[c].result # "broken"
  PROVE  EditsSaved'
<1> DEFINE before == cmd[c].before["settings"]
<1>0. disk \in [Targets -> Stuff] /\ "settings" \in Targets /\ NoBackups["settings"] = None
  BY Fields DEF Targets, NoBackups
<1>1. CASE UndoEnds(c)
  <2>1. /\ cmd[c].at \in Rolling /\ DOMAIN cmd[c].moved = {} /\ UNCHANGED <<disk, stray, written>>
    BY <1>1, UndoEndsFacts DEF Leaves, Rolling
  <2>2. disk["settings"] = before /\ kept["settings"] \in {None, before}
    BY <2>1, HandledSettings DEF Handled
  <2> QED
    BY <2>1, <2>2, StillSaved DEF Has
<1>2. CASE Commit(c)
  <2>1. /\ cmd[c].at = "replacing" /\ cmd[c].at \in Rolling /\ cmd[c].todo = {}
        /\ UNCHANGED <<disk, stray, written>>
    BY <1>2, CommitFacts DEF Leaves, Rolling
  <2>2. /\ disk["settings"] = IF "settings" \in DOMAIN cmd[c].plan THEN cmd[c].plan["settings"] ELSE before
        /\ kept["settings"] \in {None, before}
    BY <1>0, <2>1, Through
  <2>3. Has(before) => Has(disk["settings"])
    BY <2>1, <2>2, PlannedSettings
  <2> QED
    BY <2>1, <2>2, <2>3, StillSaved DEF Has
<1>3. CASE Unrecord(c)
  <2>1. /\ cmd[c].at \in Late /\ disk' = [disk EXCEPT !["owned"] = None] /\ UNCHANGED <<stray, written>>
    BY <1>3, UnrecordFacts DEF Leaves, Late
  <2>2. disk'["settings"] = disk["settings"] /\ kept["settings"] = None
    BY <1>0, <2>1 DEF CommandOK, LateOK
  <2> QED
    BY <2>1, <2>2, StillSaved DEF Has
<1>4. CASE Stop(c)
  <2>1. cmd[c].at \in Late /\ UNCHANGED <<disk, stray, written>>
    BY <1>4, StopFacts DEF Leaves
  <2>2. kept["settings"] = None
    BY <1>0, <2>1 DEF CommandOK, LateOK
  <2> QED
    BY <2>1, <2>2, StillSaved DEF Has
<1>5. CASE CommandDies(c)
  <2>1. /\ UNCHANGED <<disk, written>>
        /\ stray' = IF kept["settings"] = None THEN stray ELSE stray \cup {kept["settings"].written}
    BY <1>5, CrashFacts DEF Leaves
  <2>2. stray \subseteq stray' /\ (Has(kept["settings"]) => written \in stray')
    BY <2>1 DEF Has
  <2> QED
    BY <2>1, <2>2, StillSaved
<1> QED
  BY <1>1, <1>2, <1>3, <1>4, <1>5 DEF LeaveStep

(* No command loses what the user, or Claude Code, last wrote into the     *)
(* settings, whichever of its steps fails and wherever it dies: it is in   *)
(* the file or in a backup, unless it was written after the command had    *)
(* read the settings, or the undoing failed (merge_hooks, remove_hooks,    *)
(* stage_backup, rollback).                                                *)
THEOREM UsersSettingsKept == InstallSpec => EditsKept
<1>1. ASSUME InstallInv, [InstallNext]_installVars, written > 0, EditsSaved, ~EditsSaved'
      PROVE  "settings" \in touched \/ Broken
  <2>1. InstallTypeOK /\ \A c \in Commands : CommandOK(c)
    BY <1>1 DEF InstallInv, CommandInv
  <2>2. CASE UserStep
    <3>1. PICK f \in {"package", "workflow", "settings"} : \E x \in Content(f) : Changes(f, x)
      BY <2>1, <2>2, UserFacts
    <3>2. PICK x \in Content(f) : Changes(f, x)
      BY <3>1
    <3>3. disk \in [Targets -> Stuff] /\ f \in Targets /\ "settings" \in Targets
      BY <2>1, Fields DEF Targets
    <3>4. CASE f = "settings"
      <4>1. disk'["settings"] = x /\ x \in Settings /\ x.written = written'
        BY <3>2, <3>3, <3>4 DEF Changes
      <4>2. x # None
        BY <4>1, InstallAssumption
      <4> QED
        BY <1>1, <4>1, <4>2 DEF EditsSaved
    <3>5. CASE f # "settings"
      <4>1. disk'["settings"] = disk["settings"] /\ kept' = kept /\ stray' = stray /\ written' = written
        BY <3>2, <3>3, <3>5 DEF Changes
      <4> QED
        BY <1>1, <4>1 DEF EditsSaved
    <3> QED
      BY <3>4, <3>5
  <2>3. CASE UNCHANGED installVars
    BY <1>1, <2>3 DEF installVars, EditsSaved
  <2>4. ASSUME NEW c \in Commands, RollingStep(c) \/ LeaveStep(c), "settings" \notin touched, ~Broken
        PROVE  FALSE
    <3>1. cmd[c].result # "broken"
      BY <2>4 DEF Broken
    <3> QED
      BY <1>1, <2>1, <2>4, <3>1, EditsStep, EditsLeave
  <2> QED
    BY <1>1, <2>2, <2>3, <2>4, Splits
<1>2. InstallInv /\ [InstallNext]_installVars =>
        [(written > 0 /\ EditsSaved /\ ~EditsSaved') => "settings" \in touched \/ Broken]_installVars
  BY <1>1
<1> QED
  BY Invariance, <1>2, PTL DEF EditsKept, InstallSpec

(* An uninstall that succeeds leaves nothing of NEOMAX, whatever was       *)
(* installed, seeded, undone or removed in part before it, unless a        *)
(* command died or could not undo its steps (verify_owned,                 *)
(* preflight_uninstall, uninstall).                                        *)
THEOREM UninstallLeavesNothing == InstallSpec => CleanRemoval
<1>1. ASSUME InstallInv, [InstallNext]_installVars, NEW c \in Commands, cmd[c].op = "uninstall", inside = c,
             cmd'[c].result = "ok", ~Broken, ~Died
      PROVE  /\ \A f \in Targets \ {"settings"} : disk'[f] \in {None, Mine}
             /\ disk'["settings"] # None => ~disk'["settings"].hooks
  <2>1. /\ InstallTypeOK /\ CommandInv /\ (\A b \in Commands : CommandOK(b)) /\ CommandOK(c)
        /\ disk \in [Targets -> Stuff] /\ IsCommand(cmd[c])
    BY <1>1, Fields DEF InstallInv, CommandInv
  <2>2. ~Harmed
    BY <1>1 DEF Harmed, Broken
  <2>3. KnownOK(c)
    BY <1>1, <2>2 DEF InstallInv, KnownInv
  <2>4. cmd[c].at \in Rolling \cup Late /\ cmd[c].result # "ok"
    <3>1. cmd[c].at \in Places \ {"new", "gone", "dead"}
      BY <1>1, <2>1, Fields DEF IsCommand
    <3>2. cmd[c].at \in Rolling \cup Late
      BY <3>1 DEF Places, Rolling, Late
    <3>3. CASE cmd[c].at \in Rolling
      BY <2>1, <3>3, InstallAssumption DEF CommandOK, PlanOK
    <3>4. CASE cmd[c].at \in Late
      BY <2>1, <3>4, InstallAssumption DEF CommandOK, LateOK
    <3> QED
      BY <3>2, <3>3, <3>4
  <2>5. PICK b \in Commands : RollingStep(b) \/ LeaveStep(b)
    <3>1. ~UserStep /\ ~UNCHANGED installVars
      BY <1>1, <2>1, <2>4, UserFacts DEF Changes, installVars
    <3> QED
      BY <1>1, <3>1, Splits
  <2>6. b = c
    <3>1. inside \in {b, None}
      BY <2>1, <2>5, CommandKeeps, LeaveFacts
    <3> QED
      BY <1>1, <2>1, <3>1, Fields
  <2>7. ASSUME disk["record"] = None, disk["package"] \in {None, Mine}, disk["workflow"] \in {None, Mine},
               disk'["owned"] = None, \A f \in Targets \ {"owned"} : disk'[f] = disk[f],
               ~HooksIn(disk["settings"])
        PROVE  /\ \A f \in Targets \ {"settings"} : disk'[f] \in {None, Mine}
               /\ disk'["settings"] # None => ~disk'["settings"].hooks
    BY <2>7 DEF Targets, HooksIn
  <2>8. Commit(c) \/ Unrecord(c)
    <3>1. CASE StageStep(c)
      BY <1>1, <2>1, <2>4, <3>1, StageFacts, Fields DEF StageStep
    <3>2. CASE StageBackup(c)
      BY <1>1, <2>1, <2>4, <3>2, BackupFacts DEF Fixed
    <3>3. CASE Activate(c)
      BY <1>1, <2>1, <2>4, <3>3, ActivateFacts DEF Fixed, CommandOK
    <3>4. CASE Fail(c)
      BY <1>1, <2>1, <3>4, FailFacts
    <3>5. CASE UndoFile(c) \/ UndoFileFails(c)
      <4>1. cmd'[c].result \in {cmd[c].result, "broken"}
        BY <2>1, <3>5, UndoFacts, UndoFailsFacts DEF TakesBack
      <4> QED
        BY <1>1, <2>4, <4>1
    <3>6. CASE CommitRemoval(c)
      BY <1>1, <2>1, <2>4, <3>6, RemovalFacts DEF Fixed
    <3>7. CASE LateStep(c)
      BY <1>1, <2>1, <2>4, <3>7, LateFacts
    <3>8. CASE UndoEnds(c) \/ Stop(c) \/ CommandDies(c)
      BY <1>1, <2>1, <2>4, <3>8, UndoEndsFacts, StopFacts, CrashFacts, InstallAssumption
    <3> QED
      BY <2>5, <2>6, <3>1, <3>2, <3>3, <3>4, <3>5, <3>6, <3>7, <3>8 DEF RollingStep, LeaveStep
  <2>9. CASE Commit(c)
    <3>1. /\ cmd[c].at = "replacing" /\ cmd[c].at \in Rolling /\ cmd[c].todo = {} /\ cmd[c].owned = None
           /\ disk' = disk
      BY <1>1, <2>1, <2>9, CommitFacts DEF Rolling
    <3>2. /\ disk["record"] = None /\ disk["package"] \in {None, Mine} /\ disk["owned"] = None
      BY <1>1, <2>1, <3>1, PackageGone
    <3>3. Known(disk)
      BY <1>1, <2>1, <2>3, <3>1, RemovalKnown DEF KnownOK
    <3>4. disk["workflow"] \in {None, Mine} /\ ~HooksIn(disk["settings"])
      BY <3>2, <3>3 DEF Known
    <3> QED
      BY <2>7, <3>1, <3>2, <3>4
  <2>10. CASE Unrecord(c)
    <3>1. cmd[c].at = "unrecording" /\ cmd[c].at \in Late /\ disk' = [disk EXCEPT !["owned"] = None]
      BY <2>1, <2>10, UnrecordFacts DEF Late
    <3>2. disk["record"] = None /\ disk["package"] \in {None, Mine}
      BY <2>1, <3>1 DEF CommandOK, LateOK
    <3>3. disk["workflow"] \in {None, Mine} /\ ~HooksIn(disk["settings"])
      BY <2>3, <3>1 DEF KnownOK
    <3>4. disk'["owned"] = None /\ \A f \in Targets \ {"owned"} : disk'[f] = disk[f]
      BY <2>1, <3>1 DEF Targets
    <3> QED
      BY <2>7, <3>2, <3>3, <3>4
  <2> QED
    BY <2>8, <2>9, <2>10
<1>2. InstallInv /\ [InstallNext]_installVars =>
        [\A c \in Commands :
           (cmd[c].op = "uninstall" /\ inside = c /\ cmd'[c].result = "ok" /\ ~Broken /\ ~Died) =>
             /\ \A f \in Targets \ {"settings"} : disk'[f] \in {None, Mine}
             /\ disk'["settings"] # None => ~disk'["settings"].hooks]_installVars
  BY <1>1
<1> QED
  BY Invariance, <1>2, PTL DEF CleanRemoval, InstallSpec
=============================================================================
