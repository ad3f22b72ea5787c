--------------------------- MODULE Backups_proofs ---------------------------
(***************************************************************************)
(* Proofs about backups: the sweep that follows what servers report, the   *)
(* owner's policy for them, and the storage keys that guided setup makes.  *)
(***************************************************************************)
EXTENDS BackupWatch, BackupPolicy, BackupSetup, Filtering_proofs, TLAPS

-----------------------------------------------------------------------------
(* The backup sweep: reports, verifications and automatic tests.           *)
-----------------------------------------------------------------------------

(* A status that was read shows no more backups than there are, and no     *)
(* fewer than the record has counted.                                      *)
NotBehind(env) ==
    \A d \in Databases :
        /\ env[d].key <= made[d]
        /\ record # None /\ record.mig[d] # None => record.mig[d].last <= env[d].key

(* Evidence counts no more backups than there were between the one it      *)
(* counts from and the last it saw.                                        *)
Honest(m) == m.from <= m.last /\ m.good <= m.last - m.from

(* What counts for a takeover are backups between the one it counts from   *)
(* and the last one seen.                                                  *)
CountsAreBackups ==
    \A d \in Databases : record # None /\ record.mig[d] # None =>
        Honest(record.mig[d]) /\ record.mig[d].last <= made[d]

(* Without an overlap there is one status on its way at most, and it is    *)
(* not behind.                                                             *)
ReadsInOrder ==
    ~crossed =>
        /\ sweep.pc = "record" => \A p \in Pushes : push[p] = None
        /\ \A p, q \in Pushes : push[p] # None /\ push[q] # None => p = q
        /\ sweep.pc = "record" /\ sweep.env # None => NotBehind(sweep.env)
        /\ \A p \in Pushes : push[p] # None /\ push[p].env # None => NotBehind(push[p].env)
        /\ CountsAreBackups

(* The test a run is about stays until the server is forgotten.            *)
JobHasTest == job # None /\ ~job.orphan => tests[job.db] # None

WatchInv == WatchTypeOK /\ OneVerification /\ JobHasTest /\ ReadsInOrder

-----------------------------------------------------------------------------
(* What a read and what it leads to are.                                   *)

(* The server's answer is a status that shows its newest backups.          *)
LEMMA AnswerTyped ==
    ASSUME WatchTypeOK, NEW env \in ServerSays
    PROVE  /\ env \in Env \cup {None}
           /\ env # None => \A d \in Databases : env[d].key = made[d]
  <1>1. CASE env = None
    BY <1>1
  <1>2. CASE env # None
    <2>1. PICK cov \in [Databases -> Coverages] :
               env = [d \in Databases |-> [cov |-> cov[d], key |-> made[d]]]
      BY <1>2 DEF ServerSays
    <2>2. \A d \in Databases : [cov |-> cov[d], key |-> made[d]] \in [cov: Coverages, key: 0..MaxKey]
      BY DEF WatchTypeOK
    <2> QED BY <2>1, <2>2 DEF Env
  <1> QED BY <1>1, <1>2

(* Folding a status that is not behind into the evidence of a database     *)
(* counts a backup only when the status shows one more than the last.      *)
LEMMA FoldCounts ==
    ASSUME NEW m \in Evidence \cup {None}, NEW e \in [cov: Coverages, key: 0..MaxKey],
           NEW n, n = Fold(m, e), n # None
    PROVE  /\ n \in Evidence
           /\ (m # None => Honest(m) /\ m.last <= e.key) => Honest(n) /\ n.last <= e.key
  <1> DEFINE zero == [last |-> 0, good |-> 0, from |-> 0]
             known == IF m = None THEN zero ELSE m
  <1>1. MaxKey \in Nat /\ 0 \in 0..MaxKey
    BY BackupWatchConstants
  <1>2. zero \in Evidence
    BY <1>1 DEF Evidence
  <1>3. known \in Evidence /\ e.key \in 0..MaxKey
    BY <1>2
  <1>4. (m # None => Honest(m) /\ m.last <= e.key) => Honest(known) /\ known.last <= e.key
    BY <1>3 DEF Honest
  <1> HIDE DEF known
  <1>5. CASE n = known
    BY <1>3, <1>4, <1>5
  <1>6. CASE n = [known EXCEPT !.good = 0, !.from = known.last]
    <2>1. n = [last |-> known.last, good |-> 0, from |-> known.last]
      BY <1>3, <1>6 DEF Evidence
    <2>2. known.last \in 0..MaxKey
      BY <1>3 DEF Evidence
    <2> QED BY <1>1, <1>3, <1>4, <2>1, <2>2 DEF Evidence, Honest
  <1>7. CASE n = [last |-> e.key, good |-> 0, from |-> e.key]
    BY <1>1, <1>3, <1>7 DEF Evidence, Honest
  <1>8. CASE /\ e.key # known.last
             /\ n = [known EXCEPT !.last = e.key, !.good = IF @ = MaxKey THEN @ ELSE @ + 1]
    <2>1. n = [last |-> e.key, good |-> IF known.good = MaxKey THEN known.good ELSE known.good + 1,
               from |-> known.from]
      BY <1>3, <1>8 DEF Evidence
    <2>2. known.last \in 0..MaxKey /\ known.good \in 0..MaxKey /\ known.from \in 0..MaxKey
      BY <1>3 DEF Evidence
    <2>3. n \in Evidence
      BY <1>1, <1>3, <2>1, <2>2 DEF Evidence
    <2>4. ASSUME Honest(known), known.last <= e.key
          PROVE  Honest(n) /\ n.last <= e.key
      <3>1. known.last + 1 <= e.key
        BY <1>3, <1>8, <2>2, <2>4
      <3>2. n.last = e.key /\ n.from = known.from /\ n.good <= known.good + 1
        BY <2>1, <2>2
      <3>3. n.good \in Nat /\ e.key \in Nat
        BY <1>3, <2>3 DEF Evidence
      <3> QED BY <2>2, <2>4, <3>1, <3>2, <3>3 DEF Honest
    <2> QED BY <1>4, <2>3, <2>4
  <1>9. \/ n = known \/ n = [known EXCEPT !.good = 0, !.from = known.last]
        \/ n = [last |-> e.key, good |-> 0, from |-> e.key]
        \/ /\ e.key # known.last
           /\ n = [known EXCEPT !.last = e.key, !.good = IF @ = MaxKey THEN @ ELSE @ + 1]
    BY DEF Fold, known
  <1> QED BY <1>5, <1>6, <1>7, <1>8, <1>9

(* Recording a status, or that there was none.                             *)
LEMMA RecordedTyped ==
    ASSUME NEW r \in Record \cup {None}, NEW env \in Env \cup {None}
    PROVE  /\ Recorded(r, env) \in Record /\ Recorded(r, env) # None
           /\ \A d \in Databases :
                 Recorded(r, env).mig[d] =
                   IF env = None THEN IF r = None THEN None ELSE r.mig[d]
                   ELSE Fold(IF r = None THEN None ELSE r.mig[d], env[d])
  <1> DEFINE rec == IF r = None THEN NoRecord ELSE r
             no == FALSE
             yes == TRUE
  <1>1. no \in BOOLEAN /\ yes \in BOOLEAN
    OBVIOUS
  <1>2. rec \in Record /\ \A d \in Databases : rec.mig[d] = IF r = None THEN None ELSE r.mig[d]
    <2>1. NoRecord \in Record
      <3>1. NoRecord = [status |-> None, fresh |-> no, keys |-> {}, mig |-> [d \in Databases |-> None]]
        BY DEF NoRecord
      <3>2. [d \in Databases |-> None] \in [Databases -> Evidence \cup {None}]
        OBVIOUS
      <3> HIDE DEF no
      <3> QED BY <1>1, <3>1, <3>2 DEF Record
    <2> QED BY <2>1 DEF NoRecord
  <1>3. CASE env = None
    <2>1. Recorded(r, env) = [rec EXCEPT !.fresh = no]
      BY <1>3 DEF Recorded
    <2> HIDE DEF rec, no
    <2> QED BY <1>1, <1>2, <1>3, <2>1, WatchRecords DEF Record
  <1>4. CASE env # None
    <2> DEFINE status == [d \in Databases |-> env[d].cov]
               mig == [d \in Databases |-> Fold(rec.mig[d], env[d])]
    <2>1. Recorded(r, env) = [rec EXCEPT !.fresh = yes, !.status = status, !.mig = mig]
      BY <1>4 DEF Recorded
    <2>2. status \in [Databases -> Coverages]
      BY <1>4 DEF Env
    <2>3. mig \in [Databases -> Evidence \cup {None}]
      <3>1. ASSUME NEW d \in Databases
            PROVE  Fold(rec.mig[d], env[d]) \in Evidence \cup {None}
        <4>1. rec.mig[d] \in Evidence \cup {None} /\ env[d] \in [cov: Coverages, key: 0..MaxKey]
          BY <1>2, <1>4 DEF Record, Env
        <4> QED BY <4>1, FoldCounts
      <3> QED BY <3>1
    <2>4. \A d \in Databases : mig[d] = Fold(IF r = None THEN None ELSE r.mig[d], env[d])
      BY <1>2
    <2> HIDE DEF rec, yes, status, mig
    <2>5. Recorded(r, env) \in Record /\ Recorded(r, env).mig = mig
      BY <1>1, <1>2, <2>1, <2>2, <2>3 DEF Record
    <2> QED BY <1>4, <2>4, <2>5, WatchRecords
  <1> QED BY <1>3, <1>4

-----------------------------------------------------------------------------
(* A status is recorded, the one on its way when the order is kept, and    *)
(* the evidence stays honest.                                              *)
LEMMA RecordingCounts ==
    ASSUME WatchInv, NEW env \in Env \cup {None}, record' = Recorded(record, env),
           CountsAreBackups, env # None => NotBehind(env), UNCHANGED made
    PROVE  CountsAreBackups'
  <1> SUFFICES ASSUME NEW d \in Databases, record' # None, record'.mig[d] # None
               PROVE  Honest(record'.mig[d]) /\ record'.mig[d].last <= made[d]
    BY DEF CountsAreBackups
  <1>0. record \in Record \cup {None}
    BY DEF WatchInv, WatchTypeOK
  <1> DEFINE m == IF record = None THEN None ELSE record.mig[d]
  <1>1. record'.mig[d] = IF env = None THEN m ELSE Fold(m, env[d])
    BY <1>0, RecordedTyped
  <1>2. m \in Evidence \cup {None} /\ (m # None => Honest(m) /\ m.last <= made[d])
    BY <1>0 DEF CountsAreBackups, Record
  <1>3. CASE env = None
    BY <1>1, <1>2, <1>3
  <1>4. CASE env # None
    <2>1. /\ env[d] \in [cov: Coverages, key: 0..MaxKey] /\ env[d].key <= made[d]
          /\ m # None => m.last <= env[d].key
      BY <1>4 DEF Env, NotBehind
    <2>2. /\ record'.mig[d] \in Evidence
          /\ Honest(record'.mig[d]) /\ record'.mig[d].last <= env[d].key
      <3> DEFINE n == Fold(m, env[d])
      <3>1. n = record'.mig[d] /\ n # None
        BY <1>1, <1>4
      <3> HIDE DEF m, n
      <3>2. n \in Evidence /\ (Honest(n) /\ n.last <= env[d].key)
        BY <1>2, <2>1, <3>1, FoldCounts DEF n
      <3> QED BY <3>1, <3>2
    <2>3. made[d] \in Nat /\ env[d].key \in Nat /\ record'.mig[d].last \in Nat
      BY <2>1, <2>2 DEF WatchInv, WatchTypeOK, Evidence
    <2> QED BY <2>1, <2>2, <2>3
  <1> QED BY <1>3, <1>4

(* A step that reads and records no status leaves the order as it was.     *)
LEMMA QuietReads ==
    ASSUME WatchInv, UNCHANGED <<push, crossed>>, made' \in [Databases -> Nat],
           \A d \in Databases : made[d] <= made'[d],
           sweep' = sweep \/ sweep'.pc # "record",
           \A d \in Databases : record' # None /\ record'.mig[d] # None =>
               record # None /\ record.mig[d] # None /\ record'.mig[d] = record.mig[d]
    PROVE  ReadsInOrder'
  <1> SUFFICES ASSUME ~crossed PROVE ReadsInOrder'
    BY DEF ReadsInOrder
  <1>1. \A d \in Databases : made[d] \in Nat
    BY DEF WatchInv, WatchTypeOK
  <1>2. CountsAreBackups'
    <2> SUFFICES ASSUME NEW d \in Databases, record' # None, record'.mig[d] # None
                 PROVE  Honest(record'.mig[d]) /\ record'.mig[d].last <= made'[d]
      BY DEF CountsAreBackups
    <2>1. record # None /\ record.mig[d] # None /\ record'.mig[d] = record.mig[d]
      OBVIOUS
    <2>2. Honest(record.mig[d]) /\ record.mig[d].last <= made[d] /\ record.mig[d].last \in Nat
      BY <2>1 DEF WatchInv, WatchTypeOK, ReadsInOrder, CountsAreBackups, Record, Evidence
    <2>3. made[d] \in Nat /\ made'[d] \in Nat /\ made[d] <= made'[d]
      BY <1>1
    <2> HIDE DEF Honest
    <2> QED BY <2>1, <2>2, <2>3
  <1>3. ASSUME NEW env \in Env, NotBehind(env)
        PROVE  \A d \in Databases :
                  /\ env[d].key <= made'[d]
                  /\ record' # None /\ record'.mig[d] # None => record'.mig[d].last <= env[d].key
    <2> TAKE d \in Databases
    <2>1. env[d].key \in Nat
      BY DEF Env
    <2>2. /\ env[d].key <= made[d] /\ made[d] \in Nat /\ made'[d] \in Nat /\ made[d] <= made'[d]
          /\ record # None /\ record.mig[d] # None => record.mig[d].last <= env[d].key
      BY <1>1, <1>3 DEF NotBehind
    <2> QED BY <2>1, <2>2
  <1>4. sweep'.pc = "record" =>
          (\A p \in Pushes : push'[p] = None) /\ (sweep'.env # None => NotBehind(sweep.env)')
    <2> SUFFICES ASSUME sweep'.pc = "record" PROVE (\A p \in Pushes : push'[p] = None) /\ (sweep'.env # None => NotBehind(sweep.env)')
      OBVIOUS
    <2>1. sweep' = sweep /\ \A p \in Pushes : push[p] = None
      BY DEF ReadsInOrder, WatchInv
    <2>2. ASSUME sweep.env # None PROVE NotBehind(sweep.env)'
      <3>1. sweep.env \in Env /\ NotBehind(sweep.env)
        BY <2>1, <2>2 DEF WatchInv, WatchTypeOK, BackupSweep, ReadsInOrder
      <3> QED BY <1>3, <2>1, <3>1 DEF NotBehind
    <2> QED BY <2>1, <2>2
  <1>5. \A p \in Pushes : push'[p] # None /\ push'[p].env # None => NotBehind(push[p].env)'
    <2> SUFFICES ASSUME NEW p \in Pushes, push[p] # None, push[p].env # None
                 PROVE  NotBehind(push[p].env)'
      OBVIOUS
    <2>1. push[p].env \in Env /\ NotBehind(push[p].env)
      BY DEF WatchInv, WatchTypeOK, Push, ReadsInOrder
    <2> QED BY <1>3, <2>1 DEF NotBehind
  <1> QED BY <1>2, <1>4, <1>5 DEF ReadsInOrder, WatchInv

(* A status is read: it shows what there is, and what was recorded before  *)
(* cannot be ahead of it.                                                  *)
LEMMA FreshIsNotBehind ==
    ASSUME WatchInv, ~crossed, NEW env \in ServerSays, env # None,
           UNCHANGED <<made, record>>
    PROVE  NotBehind(env) /\ CountsAreBackups'
           /\ \A d \in Databases :
                 /\ env[d].key <= made'[d]
                 /\ record' # None /\ record'.mig[d] # None => record'.mig[d].last <= env[d].key
  <1>1. \A d \in Databases : env[d].key = made[d] /\ made[d] \in Nat
    BY AnswerTyped DEF WatchInv, WatchTypeOK
  <1> QED BY <1>1 DEF WatchInv, ReadsInOrder, NotBehind, CountsAreBackups

(* A push that reads what the server says keeps the invariant.             *)
LEMMA PushReading ==
    ASSUME WatchInv, NEW p \in Pushes, PushReads(p)
    PROVE  WatchInv'
  <1> USE DEF PushReads, ReadUnderWay
  <1>1. PICK env \in ServerSays : push' = [push EXCEPT ![p] = [env |-> env]]
    OBVIOUS
  <1>2. [env |-> env] \in Push /\ [env |-> env] # None
    BY AnswerTyped, WatchRecords DEF WatchInv, Push
  <1>3. WatchTypeOK'
    <2>1. push' \in [Pushes -> Push \cup {None}]
      BY <1>1, <1>2 DEF WatchInv, WatchTypeOK
    <2>2. crossed \in BOOLEAN
      BY DEF WatchInv, WatchTypeOK
    <2>3. crossed' \in BOOLEAN
      BY <2>2, Zenon
    <2> QED BY <2>1, <2>3 DEF WatchInv, WatchTypeOK
  <1>4. OneVerification' /\ JobHasTest'
    BY DEF WatchInv, OneVerification, JobHasTest
  <1>5. ReadsInOrder'
    <2> SUFFICES ASSUME ~crossed' PROVE ReadsInOrder'
      BY DEF ReadsInOrder
    <2>1. ~crossed /\ sweep.pc # "record" /\ (\A q \in Pushes : push[q] = None)
      OBVIOUS
    <2>2. CountsAreBackups'
      BY <2>1 DEF WatchInv, ReadsInOrder, CountsAreBackups
    <2>3. \A q \in Pushes : q # p => push'[q] = None
      BY <1>1, <2>1 DEF WatchInv, WatchTypeOK
    <2>4. push'[p] # None /\ push'[p].env = env
      BY <1>1, <1>2 DEF WatchInv, WatchTypeOK
    <2>5. env # None => NotBehind(push[p].env)'
      <3> SUFFICES ASSUME env # None PROVE NotBehind(push[p].env)'
        OBVIOUS
      <3>1. \A d \in Databases :
                 /\ env[d].key <= made'[d]
                 /\ record' # None /\ record'.mig[d] # None => record'.mig[d].last <= env[d].key
        BY <2>1, FreshIsNotBehind
      <3> QED BY <2>4, <3>1 DEF NotBehind
    <2> QED BY <2>1, <2>2, <2>3, <2>4, <2>5 DEF ReadsInOrder
  <1> QED BY <1>3, <1>4, <1>5 DEF WatchInv

(* A push that records keeps the invariant.                                *)
LEMMA PushRecording ==
    ASSUME WatchInv, NEW p \in Pushes, PushRecords(p)
    PROVE  WatchInv'
  <1> USE DEF PushRecords
  <1>1. push[p] \in Push /\ push[p].env \in Env \cup {None} /\ record \in Record \cup {None}
    BY DEF WatchInv, WatchTypeOK, Push
  <1>2. record' \in Record /\ record' # None
    BY <1>1, RecordedTyped
  <1>3. WatchTypeOK'
    BY <1>2 DEF WatchInv, WatchTypeOK
  <1>4. OneVerification' /\ JobHasTest'
    BY DEF WatchInv, OneVerification, JobHasTest
  <1>5. ReadsInOrder'
    <2> SUFFICES ASSUME ~crossed PROVE ReadsInOrder'
      BY DEF ReadsInOrder
    <2>1. sweep.pc # "record" /\ (\A q \in Pushes : q # p => push[q] = None)
      BY DEF WatchInv, ReadsInOrder
    <2>2. CountsAreBackups'
      BY <1>1, RecordingCounts DEF WatchInv, ReadsInOrder
    <2>3. \A q \in Pushes : push'[q] = None
      BY <2>1 DEF WatchInv, WatchTypeOK
    <2> QED BY <2>1, <2>2, <2>3 DEF ReadsInOrder
  <1> QED BY <1>3, <1>4, <1>5 DEF WatchInv

(* A sweep that reads what the server says keeps the invariant.            *)
LEMMA SweepReading == WatchInv /\ SweepReads => WatchInv'
  <1> SUFFICES ASSUME WatchInv, SweepReads PROVE WatchInv'
    OBVIOUS
  <1> USE DEF SweepReads, ReadUnderWay
  <1>1. PICK env \in ServerSays : sweep' = [sweep EXCEPT !.pc = "record", !.env = env]
    OBVIOUS
  <1>2. sweep' \in BackupSweep /\ sweep'.pc = "record" /\ sweep'.env = env
    BY <1>1, AnswerTyped DEF WatchInv, WatchTypeOK, BackupSweep
  <1>3. WatchTypeOK'
    <2>1. crossed \in BOOLEAN
      BY DEF WatchInv, WatchTypeOK
    <2>2. crossed' \in BOOLEAN
      BY <2>1, Zenon
    <2> QED BY <1>2, <2>2 DEF WatchInv, WatchTypeOK
  <1>4. OneVerification' /\ JobHasTest'
    BY DEF WatchInv, OneVerification, JobHasTest
  <1>5. ReadsInOrder'
    <2> SUFFICES ASSUME ~crossed' PROVE ReadsInOrder'
      BY DEF ReadsInOrder
    <2>1. ~crossed /\ (\A q \in Pushes : push[q] = None)
      OBVIOUS
    <2>2. CountsAreBackups'
      BY <2>1 DEF WatchInv, ReadsInOrder, CountsAreBackups
    <2>3. env # None => NotBehind(sweep.env)'
      <3> SUFFICES ASSUME env # None PROVE NotBehind(sweep.env)'
        OBVIOUS
      <3>1. \A d \in Databases :
                 /\ env[d].key <= made'[d]
                 /\ record' # None /\ record'.mig[d] # None => record'.mig[d].last <= env[d].key
        BY <2>1, FreshIsNotBehind
      <3> QED BY <1>2, <3>1 DEF NotBehind
    <2> QED BY <1>2, <2>1, <2>2, <2>3 DEF ReadsInOrder
  <1> QED BY <1>3, <1>4, <1>5 DEF WatchInv

(* A sweep that records keeps the invariant.                               *)
LEMMA SweepRecording == WatchInv /\ SweepRecords => WatchInv'
  <1> SUFFICES ASSUME WatchInv, SweepRecords PROVE WatchInv'
    OBVIOUS
  <1> USE DEF SweepRecords, SweepAt
  <1>1. sweep \in BackupSweep /\ sweep.env \in Env \cup {None} /\ record \in Record \cup {None}
    BY DEF WatchInv, WatchTypeOK, BackupSweep
  <1>2. record' \in Record /\ record' # None
    BY <1>1, RecordedTyped
  <1>3. sweep' \in BackupSweep /\ sweep'.pc = "reconcile"
    BY <1>1 DEF BackupSweep
  <1>4. WatchTypeOK'
    BY <1>2, <1>3 DEF WatchInv, WatchTypeOK
  <1>5. OneVerification' /\ JobHasTest'
    BY DEF WatchInv, OneVerification, JobHasTest
  <1>6. ReadsInOrder'
    <2> SUFFICES ASSUME ~crossed PROVE ReadsInOrder'
      BY DEF ReadsInOrder
    <2>1. CountsAreBackups'
      BY <1>1, RecordingCounts DEF WatchInv, ReadsInOrder
    <2>2. \A q \in Pushes : push[q] = None
      BY DEF WatchInv, ReadsInOrder
    <2> QED BY <1>3, <2>1, <2>2 DEF ReadsInOrder
  <1> QED BY <1>4, <1>5, <1>6 DEF WatchInv

(* What becomes of a test is a test.                                       *)
LEMMA TestTyped ==
    ASSUME NEW t \in AutoTest \cup {None}, NEW flag \in BOOLEAN
    PROVE  /\ [retired |-> flag, green |-> flag] \in AutoTest
           /\ t # None => [t EXCEPT !.retired = flag] \in AutoTest /\ [t EXCEPT !.green = flag] \in AutoTest
  BY DEF AutoTest

(* Reconciling keeps a test a test.                                        *)
LEMMA ReconciledTyped ==
    ASSUME NEW t \in AutoTest \cup {None}, NEW cov
    PROVE  /\ Reconciled(t, cov) \in AutoTest \cup {None}
           /\ t # None => Reconciled(t, cov) # None
  <1> DEFINE no == FALSE
             yes == TRUE
  <1>1. no \in BOOLEAN /\ yes \in BOOLEAN
    OBVIOUS
  <1>2. Reconciled(t, cov) \in {None, [retired |-> no, green |-> no], [t EXCEPT !.retired = no],
                                [t EXCEPT !.retired = yes]}
    BY DEF Reconciled
  <1>3. /\ [retired |-> no, green |-> no] \in AutoTest
        /\ t # None => [t EXCEPT !.retired = no] \in AutoTest /\ [t EXCEPT !.retired = yes] \in AutoTest
    <2> HIDE DEF no, yes
    <2> QED BY <1>1, TestTyped
  <1>4. CASE t = None
    <2>1. Reconciled(t, cov) \in {None, [retired |-> no, green |-> no]}
      BY <1>4 DEF Reconciled
    <2> HIDE DEF no
    <2> QED BY <1>3, <1>4, <2>1
  <1>5. CASE t # None
    <2>1. Reconciled(t, cov) \in {[t EXCEPT !.retired = no], [t EXCEPT !.retired = yes]}
      BY <1>5 DEF Reconciled
    <2> HIDE DEF no, yes
    <2>2. Reconciled(t, cov) \in AutoTest
      BY <1>3, <1>5, <2>1
    <2> QED BY <2>2, WatchRecords
  <1> QED BY <1>4, <1>5

(* The steps of the sweep between two reads.                               *)
LEMMA SweepQuiet ==
    ASSUME WatchInv, SweepForgets \/ SweepRetires \/ SweepReconciles \/ SweepEvaluates
    PROVE  WatchInv'
  <1> USE DEF SweepAt, SweepTo
  <1>1. /\ sweep \in BackupSweep /\ record \in Record \cup {None} /\ made \in [Databases -> 0..MaxKey]
        /\ MaxKey \in Nat
    BY BackupWatchConstants DEF WatchInv, WatchTypeOK
  <1>2. made \in [Databases -> Nat] /\ \A d \in Databases : made[d] <= made[d]
    BY <1>1
  <1>3. CASE SweepForgets
    <2> USE <1>3 DEF SweepForgets
    <2>1. record # None /\ record.keys \subseteq Databases
      BY <1>1 DEF Record
    <2>2. sweep' \in BackupSweep /\ sweep'.pc # "record"
      BY <1>1, <2>1 DEF BackupSweep
    <2>3. job' \in Job \cup {None} /\ (job' = None <=> job = None)
      <3> DEFINE yes == TRUE
      <3>1. yes \in BOOLEAN /\ job \in Job \cup {None} /\ job' = IF job = None THEN None ELSE [job EXCEPT !.orphan = yes]
        BY DEF WatchInv, WatchTypeOK
      <3> HIDE DEF yes
      <3>2. job # None => [job EXCEPT !.orphan = yes] \in Job
        BY <3>1 DEF Job
      <3> QED BY <3>1, <3>2, WatchRecords
    <2>4. tests' \in [Databases -> AutoTest \cup {None}]
      OBVIOUS
    <2>5. WatchTypeOK'
      BY <2>2, <2>3, <2>4 DEF WatchInv, WatchTypeOK
    <2>6. OneVerification' /\ JobHasTest'
      <3>1. job # None => job'.orphan
        BY <1>1 DEF WatchInv, WatchTypeOK, Job
      <3> QED BY <2>3, <3>1 DEF WatchInv, OneVerification, JobHasTest
    <2>7. ReadsInOrder'
      BY <1>2, <2>2, QuietReads
    <2> QED BY <2>5, <2>6, <2>7 DEF WatchInv
  <1>4. CASE SweepRetires
    <2> USE <1>4 DEF SweepRetires
    <2>1. sweep' \in BackupSweep /\ sweep'.pc # "record"
      BY <1>1 DEF BackupSweep
    <2>2. WatchTypeOK'
      BY <2>1 DEF WatchInv, WatchTypeOK
    <2>3. OneVerification' /\ JobHasTest'
      BY DEF WatchInv, OneVerification, JobHasTest
    <2>4. ReadsInOrder'
      BY <1>2, <2>1, QuietReads
    <2> QED BY <2>2, <2>3, <2>4 DEF WatchInv
  <1>5. CASE SweepReconciles
    <2> USE <1>5 DEF SweepReconciles
    <2>1. sweep' \in BackupSweep /\ sweep'.pc # "record"
      BY <1>1 DEF BackupSweep
    <2>2. tests' \in [Databases -> AutoTest \cup {None}]
      <3>1. tests \in [Databases -> AutoTest \cup {None}]
        BY DEF WatchInv, WatchTypeOK
      <3>2. \A d \in Databases : Reconciled(tests[d], record.status[d]) \in AutoTest \cup {None}
        BY <3>1, ReconciledTyped
      <3> QED BY <3>1, <3>2
    <2>3. WatchTypeOK'
      BY <2>1, <2>2 DEF WatchInv, WatchTypeOK
    <2>4. OneVerification' /\ JobHasTest'
      <3>1. ASSUME job # None, ~job.orphan PROVE tests'[job.db] # None
        <4>1. job.db \in Databases /\ tests \in [Databases -> AutoTest \cup {None}] /\ tests[job.db] # None
          BY <1>1, <3>1 DEF Job, WatchInv, WatchTypeOK, JobHasTest
        <4>2. Reconciled(tests[job.db], record.status[job.db]) # None
          BY <4>1, ReconciledTyped
        <4> QED BY <4>1, <4>2
      <3> QED BY <3>1 DEF WatchInv, OneVerification, JobHasTest
    <2>5. ReadsInOrder'
      BY <1>2, <2>1, QuietReads
    <2> QED BY <2>3, <2>4, <2>5 DEF WatchInv
  <1>6. CASE SweepEvaluates
    <2> USE <1>6 DEF SweepEvaluates
    <2>1. sweep' \in BackupSweep /\ sweep'.pc # "record"
      BY <1>1 DEF BackupSweep
    <2> DEFINE good == Good(record.status)
               bad == Bad(record.status)
    <2>2. good \subseteq Databases /\ bad \subseteq Databases /\ alarm \subseteq Databases
      BY DEF Good, Bad, WatchInv, WatchTypeOK
    <2>3. record' = record \/ (record # None /\ record' = [record EXCEPT !.keys = good \cup bad])
      OBVIOUS
    <2>4. /\ record' \in Record \cup {None}
          /\ record' # None => record # None /\ record'.mig = record.mig
      <3>1. record # None => [record EXCEPT !.keys = good \cup bad] \in Record
        BY <1>1, <2>2 DEF Record
      <3>2. record # None => [record EXCEPT !.keys = good \cup bad].mig = record.mig
        BY <1>1 DEF Record
      <3> HIDE DEF good, bad
      <3> QED BY <1>1, <2>3, <3>1, <3>2
    <2>5. alarm' \subseteq Databases
      <3>1. alarm' = alarm \/ alarm' = (alarm \cup bad) \ (good \cup (record.keys \ bad)) \/ alarm' = alarm \cup bad
        OBVIOUS
      <3> HIDE DEF good, bad
      <3> QED BY <2>2, <3>1
    <2>6. WatchTypeOK'
      BY <2>1, <2>4, <2>5 DEF WatchInv, WatchTypeOK
    <2>7. OneVerification' /\ JobHasTest'
      BY DEF WatchInv, OneVerification, JobHasTest
    <2>8. ReadsInOrder'
      BY <1>2, <2>1, <2>4, QuietReads
    <2> QED BY <2>6, <2>7, <2>8 DEF WatchInv
  <1> QED BY <1>3, <1>4, <1>5, <1>6

(* Backups that the server makes, and the restore tests.                   *)
LEMMA WatchQuiet ==
    ASSUME WatchInv, JobStep \/ \E d \in Databases : BackupRuns(d) \/ TickTests(d)
    PROVE  WatchInv'
  <1>1. /\ job \in Job \cup {None} /\ made \in [Databases -> 0..MaxKey] /\ MaxKey \in Nat
        /\ running \in BOOLEAN
    BY BackupWatchConstants DEF WatchInv, WatchTypeOK
  <1>2. made \in [Databases -> Nat] /\ \A d \in Databases : made[d] <= made[d]
    BY <1>1
  <1>3. ASSUME NEW d \in Databases, BackupRuns(d) PROVE WatchInv'
    <2> USE <1>3 DEF BackupRuns
    <2>1. made' \in [Databases -> 0..MaxKey] /\ made' \in [Databases -> Nat]
      BY <1>1
    <2>2. \A e \in Databases : made[e] <= made'[e]
      BY <1>1
    <2>3. WatchTypeOK'
      BY <2>1 DEF WatchInv, WatchTypeOK
    <2>4. OneVerification' /\ JobHasTest'
      BY DEF WatchInv, OneVerification, JobHasTest
    <2>5. ReadsInOrder'
      BY <2>1, <2>2, QuietReads
    <2> QED BY <2>3, <2>4, <2>5 DEF WatchInv
  <1>4. ASSUME job' \in Job \cup {None}, running' \in BOOLEAN, running' <=> job' # None,
               tests' \in [Databases -> AutoTest \cup {None}], JobHasTest', JobOnly
        PROVE  WatchInv'
    <2> USE <1>4 DEF JobOnly
    <2>1. WatchTypeOK'
      BY DEF WatchInv, WatchTypeOK
    <2>2. OneVerification'
      BY DEF OneVerification
    <2>3. ReadsInOrder'
      BY <1>2, QuietReads
    <2> QED BY <2>1, <2>2, <2>3 DEF WatchInv
  <1>5. ASSUME NEW d \in Databases, TickTests(d) PROVE WatchInv'
    <2> DEFINE no == FALSE
               new == [db |-> d, pc |-> "check", orphan |-> no]
    <2>1. no \in BOOLEAN /\ job' = new
      BY <1>5 DEF TickTests
    <2>2. new \in Job
      <3> HIDE DEF no
      <3> QED BY <2>1 DEF Job
    <2>3. job' \in Job /\ job' # None
      BY <2>1, <2>2, WatchRecords
    <2>4. running' = TRUE
      BY <1>5 DEF TickTests
    <2>5. running' \in BOOLEAN /\ (running' <=> job' # None)
      BY <2>3, <2>4, Zenon
    <2>6. tests' \in [Databases -> AutoTest \cup {None}] /\ JobOnly
      BY <1>5 DEF TickTests, WatchInv, WatchTypeOK
    <2>7. JobHasTest'
      BY <1>5, <2>1 DEF TickTests, JobHasTest
    <2> QED BY <1>4, <2>3, <2>5, <2>6, <2>7
  <1>6. ASSUME job # None, NEW green \in BOOLEAN, Outcome(green)
        PROVE  /\ tests' \in [Databases -> AutoTest \cup {None}]
               /\ ~job.orphan => tests'[job.db] # None
    <2>1. tests \in [Databases -> AutoTest \cup {None}] /\ job.db \in Databases
      BY <1>1, <1>6 DEF WatchInv, WatchTypeOK, Job
    <2>2. CASE job.orphan
      BY <1>6, <2>1, <2>2 DEF Outcome
    <2>3. CASE ~job.orphan
      <3> DEFINE new == [tests[job.db] EXCEPT !.green = green]
      <3>1. tests[job.db] \in AutoTest
        BY <1>6, <2>1, <2>3 DEF WatchInv, JobHasTest
      <3>2. new \in AutoTest /\ new # None
        BY <3>1, WatchRecords DEF AutoTest
      <3>3. tests' = [tests EXCEPT ![job.db] = new]
        BY <1>6, <2>3 DEF Outcome
      <3> HIDE DEF new
      <3> QED BY <2>1, <3>2, <3>3
    <2> QED BY <2>2, <2>3
  <1>7. ASSUME NEW pc \in {"verify", "release"}, job # None, job' = [job EXCEPT !.pc = pc],
               JobOnly, UNCHANGED running, \/ UNCHANGED tests
                                           \/ \E green \in BOOLEAN : Outcome(green)
        PROVE  WatchInv'
    <2>1. job' \in Job /\ job' # None /\ job'.db = job.db /\ job'.orphan = job.orphan
      <3>1. job' \in Job /\ job'.db = job.db /\ job'.orphan = job.orphan
        BY <1>1, <1>7 DEF Job
      <3> QED BY <3>1, WatchRecords
    <2>2. running' \in BOOLEAN /\ (running' <=> job' # None)
      BY <1>1, <1>7, <2>1 DEF WatchInv, OneVerification
    <2>3. tests' \in [Databases -> AutoTest \cup {None}] /\ (~job.orphan => tests'[job.db] # None)
      <3>1. CASE UNCHANGED tests
        BY <1>7, <3>1 DEF WatchInv, WatchTypeOK, JobHasTest
      <3>2. CASE \E green \in BOOLEAN : Outcome(green)
        BY <1>6, <1>7, <3>2
      <3> QED BY <1>7, <3>1, <3>2
    <2>4. JobHasTest'
      BY <2>1, <2>3 DEF JobHasTest
    <2> QED BY <1>4, <1>7, <2>1, <2>2, <2>3, <2>4
  <1> DEFINE no == FALSE
  <1>8. no \in BOOLEAN
    OBVIOUS
  <1>9. CASE JobChecks
    <2>1. job # None /\ JobOnly /\ UNCHANGED running
      BY <1>9 DEF JobChecks, JobIn
    <2>2. \/ job' = [job EXCEPT !.pc = "verify"] /\ UNCHANGED tests
          \/ job' = [job EXCEPT !.pc = "release"] /\ Outcome(no)
      BY <1>9 DEF JobChecks
    <2> HIDE DEF no
    <2> QED BY <1>7, <1>8, <2>1, <2>2
  <1>10. ASSUME NEW ok \in BOOLEAN, JobVerifies(ok) PROVE WatchInv'
    BY <1>7, <1>10 DEF JobVerifies, JobIn
  <1>11. CASE JobReleases
    <2> USE <1>11 DEF JobReleases
    <2>1. running' \in BOOLEAN /\ (running' <=> job' # None)
      BY Zenon
    <2>2. tests' \in [Databases -> AutoTest \cup {None}] /\ JobHasTest'
      BY DEF WatchInv, WatchTypeOK, JobHasTest
    <2> QED BY <1>4, <2>1, <2>2
  <1> QED BY <1>3, <1>5, <1>9, <1>10, <1>11 DEF JobStep

(* Every step of the watch keeps its invariant.                            *)
LEMMA WatchStep == WatchInv /\ [WatchNext]_watchVars => WatchInv'
  <1> SUFFICES ASSUME WatchInv, [WatchNext]_watchVars PROVE WatchInv'
    OBVIOUS
  <1>1. CASE UNCHANGED watchVars
    <2>1. WatchTypeOK' /\ OneVerification' /\ JobHasTest'
      BY <1>1 DEF watchVars, WatchInv, WatchTypeOK, OneVerification, JobHasTest
    <2>2. ReadsInOrder'
      BY <1>1, QuietReads, BackupWatchConstants DEF watchVars, WatchInv, WatchTypeOK
    <2> QED BY <2>1, <2>2 DEF WatchInv
  <1>2. CASE WatchNext
    BY <1>2, PushReading, PushRecording, SweepReading, SweepRecording, SweepQuiet, WatchQuiet
    DEF WatchNext, SweepStep
  <1> QED BY <1>1, <1>2

(* The facts about every reachable state of what is known of a server's    *)
(* backups.                                                                *)
LEMMA WatchInvariance == WatchSpec => []WatchInv
  <1>1. WatchInit => WatchInv
    <2> SUFFICES ASSUME WatchInit PROVE WatchInv
      OBVIOUS
    <2> USE DEF WatchInit
    <2>1. made \in [Databases -> 0..MaxKey]
      BY BackupWatchConstants
    <2>2. running \in BOOLEAN /\ crossed \in BOOLEAN
      BY Zenon
    <2>3. sweep \in BackupSweep /\ sweep.pc # "record"
      BY DEF BackupSweep
    <2>4. WatchTypeOK
      BY <2>1, <2>2, <2>3 DEF WatchTypeOK
    <2> QED BY <2>3, <2>4 DEF WatchInv, OneVerification, JobHasTest, ReadsInOrder, CountsAreBackups
  <1> QED BY <1>1, WatchStep, PTL DEF WatchSpec

(* Whatever the sweep, the tests and one push at a time do, the page says  *)
(* that a hand-written job can go only after two new backups               *)
(* (backupMigrateView).                                                    *)
THEOREM TakeoverIsEarned == WatchSpec => []ReadyWhenReadsInOrder
  <1>1. WatchInv => ReadyWhenReadsInOrder
    <2> SUFFICES ASSUME WatchInv, ~crossed, NEW d \in Databases, MigrationReady(d)
                 PROVE  made[d] - record.mig[d].from >= 2
      BY DEF ReadyWhenReadsInOrder, ReadyMeansTwoBackups
    <2>1. /\ record.mig[d] \in Evidence /\ record.mig[d].good >= 2
          /\ Honest(record.mig[d]) /\ record.mig[d].last <= made[d]
      BY DEF MigrationReady, WatchInv, WatchTypeOK, Record, ReadsInOrder, CountsAreBackups
    <2>2. made[d] \in Nat
      BY DEF WatchInv, WatchTypeOK
    <2> QED BY <2>1, <2>2 DEF Honest, Evidence
  <1> QED BY <1>1, WatchInvariance, PTL

-----------------------------------------------------------------------------
(* The backup policy, the recovery key and the owner's requests.           *)
-----------------------------------------------------------------------------

(* A confirmation brings a key, and Dash's volumes are taken back in only  *)
(* once there is one.                                                      *)
RequestsFit ==
    \A w \in Owners : ~NoOwner(w) =>
        /\ owner[w].op = "confirm" => owner[w].key # None
        /\ owner[w].op = "include" => recovery # None

PolicyInv == PolicyTypeOK /\ RequestsFit

(* No two of the owner's requests are under way together.                  *)
OneAtATime == \A v, w \in Owners : ~NoOwner(v) /\ ~NoOwner(w) => v = w

(* What a request read and has not yet written to is still so.             *)
ReadIsCurrent ==
    \A w \in Owners : ~NoOwner(w) =>
        \A h \in owner[w].left : owner[w].seen[h] # None => owner[w].seen[h] = policy[h]

-----------------------------------------------------------------------------
(* Requests and records.                                                   *)

(* What a request that is under way is made of.                            *)
LEMMA RequestFacts ==
    ASSUME PolicyInv, NEW w \in Owners, ~NoOwner(w)
    PROVE  /\ owner[w] \in PolicyRequest /\ owner[w].key \in Key /\ owner[w].volumes \in BOOLEAN
           /\ owner[w].left \subseteq Hosts /\ owner[w].seen \in [Hosts -> Policy \cup {None}]
           /\ owner[w].failed \in BOOLEAN
           /\ owner[w].op \in {"confirm", "policy"} \cup ExcludeOps
           /\ owner[w].op = "confirm" => owner[w].key \in RecoveryKeys
  <1>1. owner[w] \in PolicyRequest
    BY DEF PolicyInv, PolicyTypeOK, NoOwner
  <1> QED BY <1>1 DEF PolicyInv, RequestsFit, PolicyRequest, Key

(* A request that begins.                                                  *)
LEMMA BeginRequest ==
    ASSUME PolicyInv, NEW w \in Owners, NEW r \in PolicyRequest, owner' = [owner EXCEPT ![w] = r],
           r.op = "confirm" => r.key # None, r.op = "include" => recovery # None,
           UNCHANGED <<policy, newest, recovery, pendingKey, selfExcluded, unproved>>
    PROVE  PolicyInv'
  <1>1. PolicyTypeOK'
    BY DEF PolicyInv, PolicyTypeOK
  <1>2. ASSUME NEW v \in Owners, ~NoOwner(v)'
        PROVE  /\ owner'[v].op = "confirm" => owner'[v].key # None
               /\ owner'[v].op = "include" => recovery # None
    <2>1. CASE v = w
      BY <2>1 DEF PolicyInv, PolicyTypeOK
    <2>2. CASE v # w
      <3>1. owner'[v] = owner[v] /\ ~NoOwner(v)
        BY <1>2, <2>2 DEF PolicyInv, PolicyTypeOK, NoOwner
      <3> QED BY <3>1 DEF PolicyInv, RequestsFit
    <2> QED BY <2>1, <2>2
  <1> QED BY <1>1, <1>2 DEF PolicyInv, RequestsFit

(* A request that ends.                                                    *)
LEMMA EndRequest ==
    ASSUME PolicyInv, NEW w \in Owners, owner' = [owner EXCEPT ![w] = None],
           newest' \in [Hosts -> Key], recovery' \in Recovery \cup {None}, pendingKey' \in Key,
           recovery # None => recovery' # None, UNCHANGED <<policy, selfExcluded, unproved>>
    PROVE  PolicyInv'
  <1>1. PolicyTypeOK'
    BY DEF PolicyInv, PolicyTypeOK
  <1>2. ASSUME NEW v \in Owners, ~NoOwner(v)' PROVE owner'[v] = owner[v] /\ ~NoOwner(v)
    BY <1>2 DEF PolicyInv, PolicyTypeOK, NoOwner
  <1> QED BY <1>1, <1>2 DEF PolicyInv, RequestsFit

(* A request that goes on with what it was asked for.                      *)
LEMMA RequestGoesOn ==
    ASSUME PolicyInv, NEW w \in Owners, ~NoOwner(w), NEW r \in PolicyRequest,
           owner' = [owner EXCEPT ![w] = r], r.op = owner[w].op, r.key = owner[w].key,
           policy' \in [Hosts -> Policy], selfExcluded' \subseteq Hosts, unproved' \subseteq Hosts,
           UNCHANGED <<newest, recovery, pendingKey>>
    PROVE  PolicyInv'
  <1>1. PolicyTypeOK'
    BY DEF PolicyInv, PolicyTypeOK
  <1>2. ASSUME NEW v \in Owners, ~NoOwner(v)'
        PROVE  /\ owner'[v].op = "confirm" => owner'[v].key # None
               /\ owner'[v].op = "include" => recovery # None
    <2>1. CASE v = w
      BY <2>1 DEF PolicyInv, PolicyTypeOK, RequestsFit
    <2>2. CASE v # w
      <3>1. owner'[v] = owner[v] /\ ~NoOwner(v)
        BY <1>2, <2>2 DEF PolicyInv, PolicyTypeOK, NoOwner
      <3> QED BY <3>1 DEF PolicyInv, RequestsFit
    <2> QED BY <2>1, <2>2
  <1> QED BY <1>1, <1>2 DEF PolicyInv, RequestsFit

(* A change of the record of the recovery key alone.                       *)
LEMMA RecoveryMoves ==
    ASSUME PolicyInv, recovery # None, recovery' \in Recovery,
           UNCHANGED <<policy, newest, pendingKey, selfExcluded, owner, unproved>>
    PROVE  PolicyInv'
  <1>1. recovery' # None
    BY PolicyRecords
  <1> QED BY <1>1 DEF PolicyInv, PolicyTypeOK, RequestsFit, NoOwner

(* What a write leaves on the server is a policy.                          *)
LEMMA WrittenIsPolicy ==
    ASSUME PolicyInv, NEW w \in Owners, ~NoOwner(w), NEW h \in Hosts, NEW known \in BOOLEAN,
           owner[w].seen[h] # None \/ owner[w].op = "confirm"
    PROVE  PolicyWritten(owner[w], h, known) \in Policy
  <1> DEFINE r == owner[w]
             p == r.seen[h]
             out == CASE r.op = "exclude" \/ Adds(r, p, h, known) -> TRUE
                      [] r.op \in {"include", "include unproved"} \/ TakesBack(r, p, h) -> FALSE
                      [] r.op = "other" -> p.out
                      [] OTHER -> policy[h].out
             to == IF r.op \in {"confirm", "policy"} /\ r.key # None THEN r.key ELSE policy[h].to
             volumes == IF r.op = "policy" THEN r.volumes ELSE policy[h].volumes
  <1>1. /\ r.key \in Key /\ r.volumes \in BOOLEAN /\ p \in Policy \cup {None}
        /\ r.op = "other" => p \in Policy
    BY RequestFacts
  <1>2. policy[h] \in Policy
    BY DEF PolicyInv, PolicyTypeOK
  <1>3. out \in BOOLEAN
    <2>1. policy[h].out \in BOOLEAN
      BY <1>2 DEF Policy
    <2>2. r.op = "other" => p.out \in BOOLEAN
      BY <1>1 DEF Policy
    <2> HIDE DEF r, p
    <2> QED BY <2>1, <2>2, Zenon
  <1>4. to \in Key
    <2>1. policy[h].to \in Key
      BY <1>2 DEF Policy
    <2> HIDE DEF r, p
    <2> QED BY <1>1, <2>1
  <1>5. volumes \in BOOLEAN
    <2>1. policy[h].volumes \in BOOLEAN
      BY <1>2 DEF Policy
    <2> HIDE DEF r, p
    <2> QED BY <1>1, <2>1, Zenon
  <1>6. PolicyWritten(owner[w], h, known) = [to |-> to, volumes |-> volumes, out |-> out]
    BY DEF PolicyWritten
  <1> HIDE DEF to, volumes, out
  <1> QED BY <1>3, <1>4, <1>5, <1>6 DEF Policy

(* The record of the recovery key is kept, changed or begun, never lost.   *)
LEMMA RecordStays ==
    ASSUME PolicyInv, [PolicyNext]_policyVars
    PROVE  recovery' = recovery \/ recovery' \in Recovery
  <1>1. ASSUME NEW h \in Hosts, OfferDrill(h) \/ StartProof(h) PROVE recovery' \in Recovery
    <2>1. recovery \in Recovery /\ newest[h] \in Key
          /\ recovery' = [recovery EXCEPT !.drill = newest[h], !.previous = recovery.drill]
      BY <1>1 DEF OfferDrill, StartProof, PolicyInv, PolicyTypeOK
    <2> QED BY <2>1 DEF Recovery
  <1>2. ASSUME PassDrill \/ PassProof PROVE recovery' \in Recovery
    <2>1. recovery \in Recovery
      BY <1>2 DEF PassDrill, PassProof, PolicyInv, PolicyTypeOK
    <2>2. PICK o \in {recovery.drill, recovery.previous} \ {None} : recovery' = [recovery EXCEPT !.opened = o]
      BY <1>2 DEF PassDrill, PassProof
    <2> QED BY <2>1, <2>2 DEF Recovery
  <1>3. ASSUME NEW w \in Owners, KeyConfirmed(w) PROVE recovery' = recovery \/ recovery' \in Recovery
    <2> DEFINE whole == ~owner[w].failed
               new == [key |-> owner[w].key, drill |-> None, previous |-> None, opened |-> None, whole |-> whole]
    <2>1. ~NoOwner(w) /\ owner[w].op = "confirm" /\ recovery' \in {recovery, new}
      BY <1>3 DEF KeyConfirmed
    <2>2. whole \in BOOLEAN /\ owner[w].key \in RecoveryKeys
      BY <2>1, RequestFacts
    <2> HIDE DEF whole
    <2>3. new \in Recovery
      BY <2>2 DEF Recovery, Key
    <2> QED BY <2>1, <2>3
  <1>4. ASSUME NEW w \in Owners, OwnerStep(w) PROVE recovery' = recovery \/ recovery' \in Recovery
    <2>1. CASE KeyConfirmed(w)
      BY <1>3, <2>1
    <2>2. CASE ~KeyConfirmed(w)
      BY <1>4, <2>2 DEF OwnerStep, ConfirmKey, PolicyApplied, Excluded, ApplyPolicy, Exclude, ReadPolicy,
                        SetPolicy
    <2> QED BY <2>1, <2>2
  <1>5. CASE UNCHANGED policyVars
    BY <1>5 DEF policyVars
  <1> QED BY <1>1, <1>2, <1>4, <1>5 DEF PolicyNext, GenerateKey, PolicyRuns, PolicyRestart

-----------------------------------------------------------------------------
(* Typing, for any number of requests.                                     *)

(* The steps of the recovery key.                                          *)
LEMMA KeySteps ==
    ASSUME PolicyInv
    PROVE  /\ \A k \in RecoveryKeys : GenerateKey(k) => PolicyInv'
           /\ \A h \in Hosts : OfferDrill(h) \/ StartProof(h) \/ PolicyRuns(h) => PolicyInv'
           /\ PassDrill \/ PassProof \/ PolicyRestart => PolicyInv'
  <1>1. ASSUME NEW k \in RecoveryKeys, GenerateKey(k) PROVE PolicyInv'
    BY <1>1 DEF GenerateKey, PolicyKept, PolicyInv, PolicyTypeOK, RequestsFit, NoOwner, Key
  <1>2. ASSUME NEW h \in Hosts, OfferDrill(h) \/ StartProof(h) PROVE PolicyInv'
    <2>1. recovery # None /\ recovery \in Recovery /\ newest[h] \in Key
          /\ UNCHANGED <<policy, newest, pendingKey, selfExcluded, owner, unproved>>
      BY <1>2 DEF OfferDrill, StartProof, PolicyKept, PolicyInv, PolicyTypeOK
    <2>2. recovery' = [recovery EXCEPT !.drill = newest[h], !.previous = recovery.drill]
      BY <1>2 DEF OfferDrill, StartProof
    <2>3. recovery' \in Recovery
      BY <2>1, <2>2 DEF Recovery
    <2> QED BY <2>1, <2>3, RecoveryMoves
  <1>3. ASSUME PassDrill \/ PassProof PROVE PolicyInv'
    <2>1. recovery # None /\ recovery \in Recovery
          /\ UNCHANGED <<policy, newest, pendingKey, selfExcluded, owner, unproved>>
      BY <1>3 DEF PassDrill, PassProof, PolicyKept, PolicyInv, PolicyTypeOK
    <2>2. PICK o \in {recovery.drill, recovery.previous} \ {None} : recovery' = [recovery EXCEPT !.opened = o]
      BY <1>3 DEF PassDrill, PassProof
    <2>3. recovery' \in Recovery
      BY <2>1, <2>2 DEF Recovery
    <2> QED BY <2>1, <2>3, RecoveryMoves
  <1>4. ASSUME NEW h \in Hosts, PolicyRuns(h) PROVE PolicyInv'
    <2>1. newest' \in [Hosts -> Key]
      BY <1>4 DEF PolicyRuns, PolicyInv, PolicyTypeOK, Policy
    <2> QED BY <1>4, <2>1 DEF PolicyRuns, PolicyInv, PolicyTypeOK, RequestsFit, NoOwner
  <1>5. ASSUME PolicyRestart PROVE PolicyInv'
    BY <1>5 DEF PolicyRestart, PolicyKept, PolicyInv, PolicyTypeOK, RequestsFit, NoOwner, Key
  <1> QED BY <1>1, <1>2, <1>3, <1>4, <1>5

(* A request of the owner's begins.                                        *)
LEMMA RequestBegins ==
    ASSUME PolicyInv, NEW w \in Owners
    PROVE  /\ ConfirmKey(w) => PolicyInv'
           /\ \A v \in BOOLEAN : ApplyPolicy(w, v) => PolicyInv'
           /\ \A op \in ExcludeOps : Exclude(w, op) => PolicyInv'
  <1> DEFINE no == FALSE
  <1>0. no \in BOOLEAN /\ Blind \in [Hosts -> Policy \cup {None}] /\ Hosts \subseteq Hosts
        /\ {SelfHost} \subseteq Hosts
    BY BackupPolicyConstants DEF Blind
  <1>1. ASSUME ConfirmKey(w) PROVE PolicyInv'
    <2> DEFINE r == [op |-> "confirm", key |-> pendingKey, volumes |-> no, seen |-> Blind,
                     left |-> Hosts, failed |-> no]
    <2>1. owner' = [owner EXCEPT ![w] = r] /\ pendingKey # None
          /\ UNCHANGED <<policy, newest, recovery, pendingKey, selfExcluded, unproved>>
      BY <1>1 DEF ConfirmKey, PolicyKept
    <2> HIDE DEF no
    <2>2. pendingKey \in Key
      BY DEF PolicyInv, PolicyTypeOK
    <2>3. r \in PolicyRequest
      BY <1>0, <2>2 DEF PolicyRequest
    <2> QED BY <2>1, <2>3, BeginRequest
  <1>2. ASSUME NEW v \in BOOLEAN, ApplyPolicy(w, v) PROVE PolicyInv'
    <2> DEFINE k == IF recovery = None THEN None ELSE recovery.key
               r == [op |-> "policy", key |-> k, volumes |-> v, seen |-> Blind, left |-> Hosts, failed |-> no]
    <2>1. owner' = [owner EXCEPT ![w] = r]
          /\ UNCHANGED <<policy, newest, recovery, pendingKey, selfExcluded, unproved>>
      BY <1>2 DEF ApplyPolicy, PolicyKept
    <2> HIDE DEF no
    <2>2. k \in Key
      BY DEF PolicyInv, PolicyTypeOK, Recovery, Key
    <2> HIDE DEF k
    <2>3. r \in PolicyRequest
      BY <1>0, <2>2 DEF PolicyRequest
    <2> QED BY <2>1, <2>3, BeginRequest
  <1>3. ASSUME NEW op \in ExcludeOps, Exclude(w, op) PROVE PolicyInv'
    <2> DEFINE r == [op |-> op, key |-> None, volumes |-> no, seen |-> Blind, left |-> {SelfHost}, failed |-> no]
    <2>1. owner' = [owner EXCEPT ![w] = r] /\ (op = "include" => recovery # None)
          /\ UNCHANGED <<policy, newest, recovery, pendingKey, selfExcluded, unproved>>
      BY <1>3 DEF Exclude, PolicyKept
    <2> HIDE DEF no
    <2>2. r \in PolicyRequest
      BY <1>0 DEF PolicyRequest, Key
    <2>3. r.op # "confirm"
      BY DEF ExcludeOps
    <2> QED BY <2>1, <2>2, <2>3, BeginRequest
  <1> QED BY <1>1, <1>2, <1>3

(* It ends.                                                                *)
LEMMA RequestEnds ==
    ASSUME PolicyInv, NEW w \in Owners
    PROVE  KeyConfirmed(w) \/ PolicyApplied(w) \/ Excluded(w) => PolicyInv'
  <1>0. /\ newest \in [Hosts -> Key] /\ recovery \in Recovery \cup {None} /\ pendingKey \in Key
        /\ Blind \in [Hosts -> Key]
    BY DEF PolicyInv, PolicyTypeOK, Blind, Key
  <1>1. ASSUME PolicyApplied(w) \/ Excluded(w) PROVE PolicyInv'
    <2>1. owner' = [owner EXCEPT ![w] = None] /\ UNCHANGED <<policy, newest, recovery, pendingKey, selfExcluded, unproved>>
      BY <1>1 DEF PolicyApplied, Excluded, PolicyKept
    <2> QED BY <1>0, <2>1, EndRequest
  <1>2. ASSUME KeyConfirmed(w) PROVE PolicyInv'
    <2> DEFINE whole == ~owner[w].failed
               new == [key |-> owner[w].key, drill |-> None, previous |-> None, opened |-> None, whole |-> whole]
    <2>1. /\ ~NoOwner(w) /\ owner[w].op = "confirm" /\ owner' = [owner EXCEPT ![w] = None]
          /\ UNCHANGED <<policy, selfExcluded, unproved>> /\ pendingKey' \in {pendingKey, None}
          /\ \/ recovery' = new /\ newest' = Blind
             \/ UNCHANGED <<recovery, newest>>
      BY <1>2 DEF KeyConfirmed
    <2>2. whole \in BOOLEAN /\ owner[w].key \in RecoveryKeys
      BY <2>1, RequestFacts
    <2> HIDE DEF whole
    <2>3. new \in Recovery
      BY <2>2 DEF Recovery, Key
    <2>4. new # None
      BY <2>3, PolicyRecords
    <2> HIDE DEF new
    <2>5. newest' \in [Hosts -> Key] /\ recovery' \in Recovery \cup {None} /\ pendingKey' \in Key
          /\ (recovery # None => recovery' # None)
      BY <1>0, <2>1, <2>3, <2>4 DEF Key
    <2> QED BY <2>1, <2>5, EndRequest
  <1> QED BY <1>1, <1>2

(* It reads what the server holds.                                         *)
LEMMA RequestReads ==
    ASSUME PolicyInv, NEW w \in Owners, NEW h \in Hosts, ReadPolicy(w, h)
    PROVE  PolicyInv'
  <1>1. ~NoOwner(w) /\ h \in owner[w].left
        /\ UNCHANGED <<policy, newest, recovery, pendingKey, selfExcluded, unproved>>
    BY DEF ReadPolicy, PolicyKept
  <1>2. owner \in [Owners -> PolicyRequest \cup {None}] /\ policy[h] \in Policy
        /\ policy \in [Hosts -> Policy] /\ selfExcluded \subseteq Hosts /\ unproved \subseteq Hosts
    BY DEF PolicyInv, PolicyTypeOK
  <1>3. PICK r : /\ owner' = [owner EXCEPT ![w] = r]
                 /\ r \in {[owner[w] EXCEPT !.seen[h] = policy[h]],
                           [owner[w] EXCEPT !.left = @ \ {h}, !.failed = TRUE]}
    BY <1>1, <1>2 DEF ReadPolicy
  <1>4. r \in PolicyRequest /\ r.op = owner[w].op /\ r.key = owner[w].key
    <2> DEFINE yes == TRUE
               q == owner[w]
               rest == q.left \ {h}
               now == [q.seen EXCEPT ![h] = policy[h]]
    <2>1. yes \in BOOLEAN /\ r \in {[q EXCEPT !.seen = now], [q EXCEPT !.left = rest, !.failed = yes]}
      BY <1>3
    <2>2. q \in PolicyRequest /\ rest \in SUBSET Hosts /\ now \in [Hosts -> Policy \cup {None}]
      BY <1>1, <1>2, RequestFacts
    <2> HIDE DEF yes, q, rest, now
    <2>3. r \in PolicyRequest /\ r.op = q.op /\ r.key = q.key
      BY <2>1, <2>2 DEF PolicyRequest
    <2> QED BY <2>3 DEF q
  <1> QED BY <1>1, <1>2, <1>3, <1>4, RequestGoesOn

(* It writes.                                                              *)
LEMMA RequestWrites ==
    ASSUME PolicyInv, NEW w \in Owners, NEW h \in Hosts, SetPolicy(w, h)
    PROVE  PolicyInv'
  <1>1. ~NoOwner(w) /\ (owner[w].seen[h] # None \/ owner[w].op = "confirm")
        /\ UNCHANGED <<newest, recovery, pendingKey>>
    BY DEF SetPolicy
  <1>2. owner \in [Owners -> PolicyRequest \cup {None}] /\ policy \in [Hosts -> Policy]
        /\ selfExcluded \subseteq Hosts /\ unproved \subseteq Hosts
    BY DEF PolicyInv, PolicyTypeOK
  <1>3. policy' \in [Hosts -> Policy]
    <2>1. PICK known \in BOOLEAN : policy' \in {policy, [policy EXCEPT ![h] = PolicyWritten(owner[w], h, known)]}
      BY DEF SetPolicy, Stores
    <2>2. PolicyWritten(owner[w], h, known) \in Policy
      BY <1>1, WrittenIsPolicy
    <2> QED BY <1>2, <2>1, <2>2
  <1>7. unproved' \subseteq Hosts
    <2>1. unproved' \in {unproved \cup {h}, unproved \ {h}, unproved}
      BY DEF SetPolicy, Stores
    <2> QED BY <1>2, <2>1
  <1>4. selfExcluded' \subseteq Hosts
    <2>1. selfExcluded' \in {selfExcluded \cup {h}, selfExcluded \ {h}, selfExcluded}
      BY DEF SetPolicy
    <2> QED BY <1>2, <2>1
  <1>5. PICK r : /\ owner' = [owner EXCEPT ![w] = r]
                 /\ r \in {[owner[w] EXCEPT !.left = @ \ {h}],
                           [owner[w] EXCEPT !.left = @ \ {h}, !.failed = TRUE]}
    BY <1>1, <1>2 DEF SetPolicy
  <1>6. r \in PolicyRequest /\ r.op = owner[w].op /\ r.key = owner[w].key
    <2> DEFINE yes == TRUE
               q == owner[w]
               rest == q.left \ {h}
    <2>1. yes \in BOOLEAN /\ r \in {[q EXCEPT !.left = rest], [q EXCEPT !.left = rest, !.failed = yes]}
      BY <1>5
    <2>2. q \in PolicyRequest /\ rest \in SUBSET Hosts
      BY <1>1, RequestFacts
    <2> HIDE DEF yes, q, rest
    <2>3. r \in PolicyRequest /\ r.op = q.op /\ r.key = q.key
      BY <2>1, <2>2 DEF PolicyRequest
    <2> QED BY <2>3 DEF q
  <1> QED BY <1>1, <1>3, <1>4, <1>5, <1>6, <1>7, RequestGoesOn

(* No step breaks what holds of the requests and the record.               *)
LEMMA PolicyStep == PolicyInv /\ [PolicyNext]_policyVars => PolicyInv'
  <1> SUFFICES ASSUME PolicyInv, [PolicyNext]_policyVars PROVE PolicyInv'
    OBVIOUS
  <1>1. CASE UNCHANGED policyVars
    BY <1>1 DEF policyVars, PolicyInv, PolicyTypeOK, RequestsFit, NoOwner
  <1>2. ASSUME NEW w \in Owners, OwnerStep(w) PROVE PolicyInv'
    BY <1>2, RequestBegins, RequestEnds, RequestReads, RequestWrites DEF OwnerStep
  <1> QED BY <1>1, <1>2, KeySteps DEF PolicyNext

(* The record of the recovery key and the requests keep their types, and a *)
(* confirmation has a key (backuppolicy.go).                               *)
LEMMA PolicyInvariance == PolicySpec => []PolicyInv
  <1>1. PolicyInit => PolicyInv
    <2> SUFFICES ASSUME PolicyInit PROVE PolicyInv
      OBVIOUS
    <2> DEFINE no == FALSE
               plain == [to |-> None, volumes |-> no, out |-> no]
    <2>1. policy = [h \in Hosts |-> plain] /\ no \in BOOLEAN
      BY DEF PolicyInit
    <2> HIDE DEF no
    <2>2. plain \in Policy
      BY <2>1 DEF Policy, Key
    <2> HIDE DEF plain
    <2>3. policy \in [Hosts -> Policy]
      BY <2>1, <2>2
    <2>4. PolicyTypeOK
      BY <2>3 DEF PolicyInit, PolicyTypeOK, Blind, Key
    <2>5. RequestsFit
      BY DEF PolicyInit, RequestsFit, NoOwner
    <2> QED BY <2>4, <2>5 DEF PolicyInv
  <1> QED BY <1>1, PolicyStep, PTL DEF PolicySpec

-----------------------------------------------------------------------------
(* One request at a time.                                                  *)

AloneInv == ReadIsCurrent /\ PlainVolumesStayOut

(* What a write leaves on Dash's own server, when what it read is still so *)
(* and the volumes have not come in unproved.                              *)
LEMMA WrittenIsOut ==
    ASSUME PolicyInv, AloneInv, NEW w \in Owners, ~NoOwner(w), NEW known \in BOOLEAN,
           LET r == owner[w] IN
           /\ SelfHost \in r.left /\ (r.seen[SelfHost] # None \/ r.op = "confirm")
           /\ recovery = None /\ r.op # "include unproved" /\ (Plain(r, r.seen[SelfHost]) => known)
           /\ SelfHost \notin unproved
           /\ PolicyWritten(r, SelfHost, known).to = None /\ PolicyWritten(r, SelfHost, known).volumes
    PROVE  PolicyWritten(owner[w], SelfHost, known).out
  <1> DEFINE r == owner[w]
             h == SelfHost
             p == r.seen[h]
             new == PolicyWritten(r, h, known)
  <1> SUFFICES new.out
    OBVIOUS
  <1>0. new.to = None /\ new.volumes
    OBVIOUS
  <1>1. /\ r.op = "confirm" => r.key # None
        /\ r.op # "include" /\ r.op # "include unproved"
    BY DEF PolicyInv, RequestsFit
  <1>2. /\ r.op \in {"confirm", "policy", "exclude", "other"}
        /\ p # None => p = policy[h]
    BY <1>1, RequestFacts DEF AloneInv, ReadIsCurrent, ExcludeOps
  <1>3. /\ r.op \in {"confirm", "policy"} => r.key = None
        /\ policy[h].to = None
    <2>1. new.to = IF r.op \in {"confirm", "policy"} /\ r.key # None THEN r.key ELSE policy[h].to
      BY DEF PolicyWritten
    <2> HIDE DEF r, new
    <2> QED BY <1>0, <2>1
  <1>4. r.op # "confirm" /\ p = policy[h]
    BY <1>1, <1>2, <1>3
  <1>5. IF r.op = "policy" THEN r.volumes ELSE policy[h].volumes
    BY <1>0, Zenon DEF PolicyWritten
  <1>6. policy[h].volumes => policy[h].out
    BY <1>3 DEF AloneInv, PlainVolumesStayOut
  <1>7. new.out = CASE r.op = "exclude" \/ Adds(r, p, h, known) -> TRUE
                    [] r.op \in {"include", "include unproved"} \/ TakesBack(r, p, h) -> FALSE
                    [] r.op = "other" -> p.out
                    [] OTHER -> policy[h].out
    BY Zenon DEF PolicyWritten
  <1>8. CASE r.op = "exclude"
    <2>1. ~Adds(r, p, h, known) /\ ~TakesBack(r, p, h)
      BY <1>8 DEF Adds, Plain, TakesBack
    <2> HIDE DEF r, p, new
    <2> QED BY <1>7, <1>8, <2>1
  <1>9. CASE r.op = "other"
    <2>1. ~Adds(r, p, h, known) /\ ~TakesBack(r, p, h) /\ policy[h].out
      BY <1>5, <1>6, <1>9 DEF Adds, Plain, TakesBack
    <2> HIDE DEF r, p, new
    <2> QED BY <1>4, <1>7, <1>9, <2>1
  <1>10. CASE r.op = "policy"
    <2>1. Plain(r, p) /\ known
      BY <1>3, <1>4, <1>5, <1>10 DEF Plain
    <2>2. ~TakesBack(r, p, h) /\ (Adds(r, p, h, known) <=> ~p.out)
      BY <1>10, <2>1 DEF TakesBack, Adds
    <2> HIDE DEF r, p, new
    <2> QED BY <1>4, <1>7, <1>10, <2>2
  <1> QED BY <1>2, <1>4, <1>8, <1>9, <1>10

(* So a write keeps the volumes out, or was made unproved.                 *)
LEMMA WriteKeepsOut ==
    ASSUME PolicyInv, NEW w \in Owners, NEW h \in Hosts, SetPolicy(w, h), AloneInv
    PROVE  PlainVolumesStayOut'
  <1> DEFINE r == owner[w]
  <1>1. /\ ~NoOwner(w) /\ h \in r.left /\ recovery' = recovery
        /\ r.seen[h] # None \/ r.op = "confirm"
    BY DEF SetPolicy
  <1>2. PICK known \in BOOLEAN : Stores(r, h, known) \/ UNCHANGED <<policy, unproved>>
    BY DEF SetPolicy
  <1>3. policy \in [Hosts -> Policy] /\ unproved \subseteq Hosts /\ SelfHost \in Hosts
    BY BackupPolicyConstants DEF PolicyInv, PolicyTypeOK
  <1>4. CASE UNCHANGED <<policy, unproved>>
    BY <1>1, <1>4 DEF AloneInv, PlainVolumesStayOut
  <1>5. CASE Stores(r, h, known) /\ h # SelfHost
    <2>1. policy'[SelfHost] = policy[SelfHost]
          /\ unproved' \in {unproved \cup {h}, unproved \ {h}, unproved}
      BY <1>3, <1>5 DEF Stores
    <2> QED BY <1>1, <1>5, <2>1 DEF AloneInv, PlainVolumesStayOut
  <1>6. CASE Stores(r, h, known) /\ h = SelfHost
    <2> DEFINE new == PolicyWritten(r, SelfHost, known)
    <2>1. /\ policy'[SelfHost] = new
          /\ unproved' = IF new.out THEN unproved \ {SelfHost}
                         ELSE IF r.op = "include unproved" \/ (Plain(r, r.seen[SelfHost]) /\ ~known)
                         THEN unproved \cup {SelfHost} ELSE unproved
      BY <1>3, <1>6 DEF Stores
    <2> SUFFICES ASSUME recovery = None, new.to = None, new.volumes, ~new.out
                 PROVE  SelfHost \in unproved'
      BY <1>1, <2>1 DEF PlainVolumesStayOut
    <2>2. CASE r.op = "include unproved" \/ (Plain(r, r.seen[SelfHost]) /\ ~known)
      BY <2>1, <2>2
    <2>3. CASE ~(r.op = "include unproved" \/ (Plain(r, r.seen[SelfHost]) /\ ~known))
      <3>1. SelfHost \in unproved
        BY <1>1, <1>6, <2>3, WrittenIsOut
      <3> QED BY <2>1, <2>3, <3>1
    <2> QED BY <2>2, <2>3
  <1> QED BY <1>2, <1>4, <1>5, <1>6

(* What the only request has read stays so until it writes.                *)
LEMMA ReadStaysCurrent ==
    ASSUME PolicyInv, OneAtATime, ReadIsCurrent, [PolicyNext]_policyVars
    PROVE  ReadIsCurrent'
  <1>0. owner \in [Owners -> PolicyRequest \cup {None}] /\ policy \in [Hosts -> Policy]
    BY DEF PolicyInv, PolicyTypeOK
  <1>1. CASE UNCHANGED <<policy, owner>>
    BY <1>1 DEF ReadIsCurrent, NoOwner
  <1>2. ASSUME NEW w \in Owners, UNCHANGED policy, owner'[w] # None =>
                    \A h \in owner'[w].left : owner'[w].seen[h] # None => owner'[w].seen[h] = policy[h],
               \A v \in Owners : v # w => owner'[v] = owner[v]
        PROVE  ReadIsCurrent'
    BY <1>2 DEF ReadIsCurrent, NoOwner
  <1>3. ASSUME NEW w \in Owners, ConfirmKey(w) \/ (\E v \in BOOLEAN : ApplyPolicy(w, v))
                                 \/ (\E op \in ExcludeOps : Exclude(w, op))
        PROVE  ReadIsCurrent'
    <2>1. UNCHANGED policy /\ (\A v \in Owners : v # w => owner'[v] = owner[v])
      BY <1>0, <1>3 DEF ConfirmKey, ApplyPolicy, Exclude, PolicyKept
    <2>2. owner'[w].seen = Blind /\ owner'[w].left \subseteq Hosts
      <3>1. CASE ConfirmKey(w)
        BY <1>0, <3>1 DEF ConfirmKey
      <3>2. ASSUME NEW v \in BOOLEAN, ApplyPolicy(w, v)
            PROVE  owner'[w].seen = Blind /\ owner'[w].left = Hosts
        BY <1>0, <3>2 DEF ApplyPolicy
      <3>3. ASSUME NEW op \in ExcludeOps, Exclude(w, op)
            PROVE  owner'[w].seen = Blind /\ owner'[w].left = {SelfHost}
        BY <1>0, <3>3 DEF Exclude
      <3> QED BY <1>3, <3>1, <3>2, <3>3, BackupPolicyConstants
    <2>3. \A h \in owner'[w].left : owner'[w].seen[h] = None
      BY <2>2 DEF Blind
    <2> QED BY <1>2, <2>1, <2>3
  <1>4. ASSUME NEW w \in Owners, KeyConfirmed(w) \/ PolicyApplied(w) \/ Excluded(w) PROVE ReadIsCurrent'
    <2>1. UNCHANGED policy /\ owner'[w] = None /\ (\A v \in Owners : v # w => owner'[v] = owner[v])
      BY <1>0, <1>4 DEF KeyConfirmed, PolicyApplied, Excluded, PolicyKept
    <2> QED BY <1>2, <2>1
  <1>5. ASSUME NEW w \in Owners, NEW h \in Hosts, ReadPolicy(w, h) PROVE ReadIsCurrent'
    <2>1. /\ ~NoOwner(w) /\ UNCHANGED policy /\ (\A v \in Owners : v # w => owner'[v] = owner[v])
          /\ \/ owner' = [owner EXCEPT ![w].seen[h] = policy[h]]
             \/ owner' = [owner EXCEPT ![w].left = @ \ {h}, ![w].failed = TRUE]
      BY <1>0, <1>5 DEF ReadPolicy, PolicyKept
    <2>2. owner[w] \in PolicyRequest /\ owner[w].seen \in [Hosts -> Policy \cup {None}]
          /\ owner[w].left \subseteq Hosts
      BY <2>1, RequestFacts
    <2>3. \A g \in owner[w].left : owner[w].seen[g] # None => owner[w].seen[g] = policy[g]
      BY <2>1 DEF ReadIsCurrent
    <2>4. CASE owner' = [owner EXCEPT ![w].seen[h] = policy[h]]
      <3>1. owner'[w].left = owner[w].left /\ owner'[w].seen = [owner[w].seen EXCEPT ![h] = policy[h]]
        BY <1>0, <2>2, <2>4 DEF PolicyRequest
      <3> QED BY <1>2, <2>1, <2>2, <2>3, <3>1
    <2>5. CASE owner' = [owner EXCEPT ![w].left = @ \ {h}, ![w].failed = TRUE]
      <3>1. owner'[w].left = owner[w].left \ {h} /\ owner'[w].seen = owner[w].seen
        BY <1>0, <2>2, <2>5 DEF PolicyRequest
      <3> QED BY <1>2, <2>1, <2>3, <3>1
    <2> QED BY <2>1, <2>4, <2>5
  <1>6. ASSUME NEW w \in Owners, NEW h \in Hosts, SetPolicy(w, h) PROVE ReadIsCurrent'
    <2>1. /\ ~NoOwner(w) /\ (\A v \in Owners : v # w => owner'[v] = owner[v])
          /\ \/ owner' = [owner EXCEPT ![w].left = @ \ {h}]
             \/ owner' = [owner EXCEPT ![w].left = @ \ {h}, ![w].failed = TRUE]
          /\ \A g \in Hosts : g # h => policy'[g] = policy[g]
      BY <1>0, <1>6 DEF SetPolicy, Stores
    <2>2. owner[w] \in PolicyRequest /\ owner[w].left \subseteq Hosts
      BY <2>1, RequestFacts
    <2>3. owner'[w].left = owner[w].left \ {h} /\ owner'[w].seen = owner[w].seen
      BY <1>0, <2>1, <2>2 DEF PolicyRequest
    <2>4. \A v \in Owners : v # w => NoOwner(v)
      BY <2>1 DEF OneAtATime
    <2>5. \A g \in owner[w].left : owner[w].seen[g] # None => owner[w].seen[g] = policy[g]
      BY <2>1 DEF ReadIsCurrent
    <2> QED BY <2>1, <2>2, <2>3, <2>4, <2>5 DEF ReadIsCurrent, NoOwner
  <1>7. ASSUME NEW k \in RecoveryKeys, GenerateKey(k) PROVE ReadIsCurrent'
    BY <1>1, <1>7 DEF GenerateKey, PolicyKept
  <1>8. ASSUME NEW h \in Hosts, OfferDrill(h) \/ StartProof(h) \/ PolicyRuns(h) PROVE ReadIsCurrent'
    BY <1>1, <1>8 DEF OfferDrill, StartProof, PolicyRuns, PolicyKept
  <1>9. ASSUME PassDrill \/ PassProof PROVE ReadIsCurrent'
    BY <1>1, <1>9 DEF PassDrill, PassProof, PolicyKept
  <1>10. ASSUME NEW w \in Owners, OwnerStep(w) PROVE ReadIsCurrent'
    BY <1>3, <1>4, <1>5, <1>6, <1>10 DEF OwnerStep
  <1>11. CASE UNCHANGED policyVars
    BY <1>1, <1>11 DEF policyVars
  <1>12. CASE PolicyRestart
    BY <1>12 DEF PolicyRestart, ReadIsCurrent, NoOwner
  <1> QED BY <1>7, <1>8, <1>9, <1>10, <1>11, <1>12 DEF PolicyNext

(* A step that is no write leaves the volumes out.                         *)
LEMMA VolumesStayOut ==
    ASSUME PolicyInv, AloneInv, [PolicyNext]_policyVars
    PROVE  PlainVolumesStayOut'
  <1>1. CASE UNCHANGED <<policy, unproved>>
    <2>1. recovery' = None => recovery = None
      BY RecordStays, PolicyRecords
    <2> QED BY <1>1, <2>1 DEF AloneInv, PlainVolumesStayOut
  <1>2. ASSUME NEW w \in Owners, OwnerStep(w) PROVE PlainVolumesStayOut'
    <2>1. CASE \E h \in Hosts : SetPolicy(w, h)
      BY <2>1, WriteKeepsOut
    <2>2. CASE ~\E h \in Hosts : SetPolicy(w, h)
      BY <1>1, <1>2, <2>2 DEF OwnerStep, ConfirmKey, KeyConfirmed, PolicyApplied, Excluded, ApplyPolicy,
                              Exclude, ReadPolicy, PolicyKept
    <2> QED BY <2>1, <2>2
  <1>3. CASE ~\E w \in Owners : OwnerStep(w)
    BY <1>1, <1>3 DEF PolicyNext, policyVars, GenerateKey, OfferDrill, StartProof, PolicyRuns, PassDrill,
                      PassProof, PolicyRestart, PolicyKept
  <1> QED BY <1>2, <1>3

(* While the owner's requests come one at a time, and whatever commands    *)
(* fail or end with the process, the volumes that hold Dash's SSH key are  *)
(* in a policy that nothing encrypts only where the owner's last write     *)
(* about them asked whether the server is Dash's own and was not told so   *)
(* (applyBackupPolicy, handleBackupExclude, selfHostOn).  Requests that    *)
(* overlap lose updates: the code holds no lock from read to write.        *)
THEOREM PlainVolumesAreOut == PolicySpec /\ []OneAtATime => []PlainVolumesStayOut
  <1>1. PolicyInit => AloneInv
    BY BackupPolicyConstants DEF PolicyInit, AloneInv, ReadIsCurrent, NoOwner, PlainVolumesStayOut
  <1>2. PolicyInv /\ OneAtATime /\ AloneInv /\ [PolicyNext]_policyVars => AloneInv'
    BY ReadStaysCurrent, VolumesStayOut DEF AloneInv
  <1>3. AloneInv => PlainVolumesStayOut
    BY DEF AloneInv
  <1> QED BY <1>1, <1>2, <1>3, PolicyInvariance, PTL DEF PolicySpec

-----------------------------------------------------------------------------
(* The storage keys of guided backup setup.                                *)
-----------------------------------------------------------------------------

RecordKeys(r) == IF r = None THEN {} ELSE ({r.key} \cup ToSet(r.replaces)) \ {None}

(* The keys that server s uses or that are kept in its name.               *)
KeysAbout(s) ==
    ({held[s]} \cap StoreKeys) \cup RecordKeys(setupRec[s])
      \cup (IF InSetup THEN ({setupRun.key[s]} \ {None}) \cup RecordKeys(setupRun.prev[s]) ELSE {})

(* No key is about two servers, and none is about one before it is made.   *)
KeysApart ==
    /\ \A s, t \in SetupServers : s # t => KeysAbout(s) \cap KeysAbout(t) = {}
    /\ \A s \in SetupServers : KeysAbout(s) \cap unminted = {}

(* A key whose push was not begun is not in use; the key of a run works    *)
(* and is none of those it replaces, and is in use only once its push was  *)
(* begun and recorded; what a run puts back was pushed or is older, and    *)
(* what it deletes after a verified push is not in use.                    *)
RunKeyIsGood(s) ==
    In(s, {"minted", "ready", "pushing"}) /\ setupRun.key[s] # None =>
        /\ setupRun.key[s] \in alive
        /\ setupRec[s] # None => setupRun.key[s] \notin ToSet(setupRec[s].replaces)
        /\ setupRun.stage[s] # "pushing" => setupRun.key[s] # held[s]
PrevIsOld(s) ==
    InSetup /\ setupRun.prev[s] # None =>
        /\ setupRun.prev[s].state # "minted"
        /\ setupRun.stage[s] = "landed" => held[s] \notin ToSet(setupRun.prev[s].replaces)
KeysOf(s) ==
    /\ NeverPushed(s) => setupRec[s].key # held[s]
    /\ In(s, {"pushing"}) => ~NeverPushed(s)
    /\ In(s, {"waiting"}) => setupRun.key[s] = None
    /\ In(s, {"ready", "pushing"}) => setupRun.key[s] # None
    /\ In(s, {"landed"}) => setupRun.prev[s] # None
    /\ RunKeyIsGood(s) /\ PrevIsOld(s)
    /\ held[s] \in StoreKeys \ spent => held[s] \in alive

SetupInv == SetupTypeOK /\ KeysApart /\ \A s \in SetupServers : KeysOf(s)

-----------------------------------------------------------------------------
(* Records                                                                 *)

(* What replaces what holds the keys of both.                              *)
LEMMA ReplacingKeys ==
    ASSUME NEW r \in KeyRecord \cup {None}
    PROVE  /\ Replacing(r) \in Seq(StoreKeys) /\ ToSet(Replacing(r)) = RecordKeys(r)
           /\ RecordKeys(r) \subseteq StoreKeys
           /\ r # None => ToSet(r.replaces) \subseteq RecordKeys(r) /\ {r.key} \ {None} \subseteq RecordKeys(r)
  <1>1. CASE r = None
    BY <1>1 DEF Replacing, RecordKeys, ToSet
  <1>2. CASE r # None
    <2>1. r.replaces \in Seq(StoreKeys) /\ r.key \in StoreKeys \cup {None}
      BY <1>2 DEF KeyRecord, StoreKey
    <2>2. ToSet(r.replaces) \subseteq StoreKeys /\ None \notin StoreKeys
      <3>1. \A i \in DOMAIN r.replaces : r.replaces[i] \in StoreKeys
        BY <2>1
      <3> QED BY <3>1, BackupSetupConstants DEF ToSet
    <2>3. CASE r.key = None
      BY <1>2, <2>1, <2>2, <2>3 DEF Replacing, RecordKeys
    <2>4. CASE r.key # None
      <3> DEFINE both == Append(r.replaces, r.key)
      <3>1. Replacing(r) = both
        BY <1>2, <2>4 DEF Replacing
      <3>2. both \in Seq(StoreKeys) /\ Len(both) = Len(r.replaces) + 1 /\ Len(r.replaces) \in Nat
        BY <2>1, <2>4
      <3>3. both[Len(r.replaces) + 1] = r.key /\ \A i \in 1..Len(r.replaces) : both[i] = r.replaces[i]
        BY <2>1, <2>4
      <3> HIDE DEF both
      <3>4. 1..Len(both) = 1..Len(r.replaces) \cup {Len(r.replaces) + 1}
        BY <3>2
      <3>5. ToSet(both) = ToSet(r.replaces) \cup {r.key}
        BY <2>1, <3>2, <3>3, <3>4, SMTT(30) DEF ToSet
      <3> QED BY <1>2, <2>1, <2>2, <2>4, <3>1, <3>2, <3>5 DEF RecordKeys
    <2> QED BY <2>3, <2>4
  <1> QED BY <1>1, <1>2

(* Without its newest key a record holds the others.                       *)
LEMMA ChainKeys ==
    ASSUME NEW r \in KeyRecord
    PROVE  /\ ChainRecord(r) \in KeyRecord \cup {None}
           /\ RecordKeys(ChainRecord(r)) \subseteq RecordKeys(r)
           /\ ChainRecord(r) # None => ChainRecord(r).state # "minted"
  <1>1. r # None /\ r.replaces \in Seq(StoreKeys) /\ None \notin StoreKeys
    BY SetupRecords, BackupSetupConstants DEF KeyRecord
  <1>2. CASE r.replaces = << >>
    BY <1>2 DEF ChainRecord, RecordKeys
  <1>3. CASE r.replaces # << >>
    <2> DEFINE n == Len(r.replaces)
               front == Front(r.replaces)
    <2>1. n \in Nat \ {0} /\ r.replaces[n] \in StoreKeys
      BY <1>1, <1>3
    <2>2. front \in Seq(StoreKeys) /\ Len(front) = n - 1 /\ \A i \in 1..(n - 1) : front[i] = r.replaces[i]
      BY <1>1, <2>1 DEF Front
    <2>3. ChainRecord(r) = [key |-> r.replaces[n], state |-> "ambiguous", replaces |-> front]
      BY <1>3 DEF ChainRecord, Last
    <2>4. ToSet(front) \subseteq ToSet(r.replaces) /\ r.replaces[n] \in ToSet(r.replaces)
      <3> HIDE DEF front
      <3> QED BY <1>1, <2>1, <2>2 DEF ToSet
    <2> HIDE DEF front, n
    <2>5. ChainRecord(r) \in KeyRecord
      BY <2>1, <2>2, <2>3 DEF KeyRecord, StoreKey
    <2> QED BY <1>1, <2>1, <2>3, <2>4, <2>5 DEF RecordKeys
  <1> QED BY <1>2, <1>3

-----------------------------------------------------------------------------
(* Where a run goes                                                        *)

(* The run moves one server on, and may have to stop.                      *)
RunMoves(s, stage, key, prev) ==
    /\ setupRun' \in SetupRun
    /\ setupRun'.stage[s] = stage /\ setupRun'.key[s] = key /\ setupRun'.prev[s] = prev
    /\ \A t \in SetupServers : t # s =>
          /\ setupRun'.stage[t] = setupRun.stage[t] /\ setupRun'.key[t] = setupRun.key[t]
          /\ setupRun'.prev[t] = setupRun.prev[t]

(* The forms in which a setup moves on.                                    *)
LEMMA RunForms ==
    ASSUME SetupTypeOK, InSetup, NEW s \in SetupServers, NEW stage \in Stage,
           NEW key \in StoreKey, NEW prev \in KeyRecord \cup {None}
    PROVE  /\ setupRun' \in {Moved(s, stage), Stopping(Moved(s, stage))} =>
                 RunMoves(s, stage, setupRun.key[s], setupRun.prev[s])
           /\ setupRun' \in {StageDone(s), Stopping(StageDone(s))} => RunMoves(s, "done", None, None)
           /\ setupRun' = [Moved(s, stage) EXCEPT !.prev[s] = prev] =>
                 RunMoves(s, stage, setupRun.key[s], prev)
           /\ setupRun' = [Moved(s, stage) EXCEPT !.key[s] = key, !.prev[s] = prev] =>
                 RunMoves(s, stage, key, prev)
  <1> DEFINE yes == TRUE
             stages(st) == [setupRun.stage EXCEPT ![s] = st]
             keys(k) == [setupRun.key EXCEPT ![s] = k]
             prevs(p) == [setupRun.prev EXCEPT ![s] = p]
  <1>0. yes \in BOOLEAN /\ None \in StoreKey /\ None \in KeyRecord \cup {None} /\ "done" \in Stage
    BY DEF StoreKey, Stage
  <1>1. setupRun \in SetupRun
    BY DEF SetupTypeOK, InSetup
  <1>2. ASSUME NEW st \in Stage
        PROVE  /\ stages(st) \in [SetupServers -> Stage] /\ stages(st)[s] = st
               /\ \A t \in SetupServers : t # s => stages(st)[t] = setupRun.stage[t]
    BY <1>1 DEF SetupRun
  <1>3. ASSUME NEW k \in StoreKey
        PROVE  /\ keys(k) \in [SetupServers -> StoreKey] /\ keys(k)[s] = k
               /\ \A t \in SetupServers : t # s => keys(k)[t] = setupRun.key[t]
    BY <1>1 DEF SetupRun
  <1>4. ASSUME NEW p \in KeyRecord \cup {None}
        PROVE  /\ prevs(p) \in [SetupServers -> KeyRecord \cup {None}] /\ prevs(p)[s] = p
               /\ \A t \in SetupServers : t # s => prevs(p)[t] = setupRun.prev[t]
    BY <1>1 DEF SetupRun
  <1>6. ASSUME setupRun' \in {Moved(s, stage), Stopping(Moved(s, stage))}
        PROVE  RunMoves(s, stage, setupRun.key[s], setupRun.prev[s])
    <2> DEFINE moved == [setupRun EXCEPT !.stage = stages(stage)]
    <2>1. setupRun' = moved \/ setupRun' = [moved EXCEPT !.refused = yes]
      BY <1>6 DEF Moved, Stopping
    <2>2. /\ setupRun' \in SetupRun /\ setupRun'.stage = stages(stage)
          /\ setupRun'.key = setupRun.key /\ setupRun'.prev = setupRun.prev
      <3> HIDE DEF yes, stages
      <3>1. moved \in SetupRun /\ moved.stage = stages(stage) /\ moved.key = setupRun.key /\ moved.prev = setupRun.prev
        BY <1>1, <1>2 DEF SetupRun
      <3> HIDE DEF moved
      <3>2. LET stopped == [moved EXCEPT !.refused = yes]
            IN  /\ stopped \in SetupRun /\ stopped.stage = moved.stage
                /\ stopped.key = moved.key /\ stopped.prev = moved.prev
        BY <1>0, <3>1 DEF SetupRun
      <3> QED BY <2>1, <3>1, <3>2
    <2> HIDE DEF stages
    <2> QED BY <1>2, <2>2 DEF RunMoves
  <1>7. ASSUME setupRun' \in {StageDone(s), Stopping(StageDone(s))}
        PROVE  RunMoves(s, "done", None, None)
    <2> DEFINE done == [setupRun EXCEPT !.stage = stages("done"), !.key = keys(None), !.prev = prevs(None)]
    <2>1. setupRun' = done \/ setupRun' = [done EXCEPT !.refused = yes]
      BY <1>7 DEF StageDone, Stopping
    <2>2. /\ setupRun' \in SetupRun /\ setupRun'.stage = stages("done")
          /\ setupRun'.key = keys(None) /\ setupRun'.prev = prevs(None)
      <3>1. stages("done") \in [SetupServers -> Stage] /\ keys(None) \in [SetupServers -> StoreKey]
            /\ prevs(None) \in [SetupServers -> KeyRecord \cup {None}]
        BY <1>0, <1>2, <1>3, <1>4
      <3> HIDE DEF yes, stages, keys, prevs
      <3> QED BY <1>0, <1>1, <2>1, <3>1 DEF SetupRun
    <2> HIDE DEF stages, keys, prevs
    <2> QED BY <1>0, <1>2, <1>3, <1>4, <2>2 DEF RunMoves
  <1>8. ASSUME setupRun' = [Moved(s, stage) EXCEPT !.prev[s] = prev]
        PROVE  RunMoves(s, stage, setupRun.key[s], prev)
    <2>1. setupRun' = [setupRun EXCEPT !.stage = stages(stage), !.prev = prevs(prev)]
      BY <1>1, <1>8 DEF Moved, SetupRun
    <2>2. /\ setupRun' \in SetupRun /\ setupRun'.stage = stages(stage)
          /\ setupRun'.key = setupRun.key /\ setupRun'.prev = prevs(prev)
      <3> HIDE DEF stages, prevs
      <3> QED BY <1>1, <1>2, <1>4, <2>1 DEF SetupRun
    <2> HIDE DEF stages, prevs
    <2> QED BY <1>2, <1>4, <2>2 DEF RunMoves
  <1>9. ASSUME setupRun' = [Moved(s, stage) EXCEPT !.key[s] = key, !.prev[s] = prev]
        PROVE  RunMoves(s, stage, key, prev)
    <2>1. setupRun' = [setupRun EXCEPT !.stage = stages(stage), !.key = keys(key), !.prev = prevs(prev)]
      BY <1>1, <1>9 DEF Moved, SetupRun
    <2>2. /\ setupRun' \in SetupRun /\ setupRun'.stage = stages(stage)
          /\ setupRun'.key = keys(key) /\ setupRun'.prev = prevs(prev)
      <3> HIDE DEF stages, keys, prevs
      <3> QED BY <1>1, <1>2, <1>3, <1>4, <2>1 DEF SetupRun
    <2> HIDE DEF stages, keys, prevs
    <2> QED BY <1>2, <1>3, <1>4, <2>2 DEF RunMoves
  <1> QED BY <1>6, <1>7, <1>8, <1>9

-----------------------------------------------------------------------------
(* Steps on one server                                                     *)

LEMMA KeysTyped ==
    ASSUME SetupTypeOK, NEW s \in SetupServers
    PROVE  /\ KeysAbout(s) \subseteq StoreKeys
           /\ held[s] \in StoreKeys => held[s] \in KeysAbout(s)
           /\ RecordKeys(setupRec[s]) \subseteq KeysAbout(s)
           /\ InSetup => /\ {setupRun.key[s]} \ {None} \subseteq KeysAbout(s)
                         /\ RecordKeys(setupRun.prev[s]) \subseteq KeysAbout(s)
  <1>1. setupRec[s] \in KeyRecord \cup {None}
    BY DEF SetupTypeOK
  <1>2. InSetup => setupRun.prev[s] \in KeyRecord \cup {None} /\ setupRun.key[s] \in StoreKey
    BY DEF SetupTypeOK, InSetup, SetupRun
  <1>3. RecordKeys(setupRec[s]) \subseteq StoreKeys /\ (InSetup => RecordKeys(setupRun.prev[s]) \subseteq StoreKeys)
    BY <1>1, <1>2, ReplacingKeys
  <1> QED BY <1>2, <1>3 DEF KeysAbout, StoreKey

(* Deleting keys of one server that it does not use takes no key of        *)
(* another and none in use.                                                *)
LEMMA DropIsSafe ==
    ASSUME SetupInv, NEW s \in SetupServers, NEW keys \in SUBSET KeysAbout(s), held[s] \notin keys,
           DropKeys(keys)
    PROVE  /\ alive' \subseteq alive /\ leftovers' \subseteq StoreKeys
           /\ held[s] \in StoreKeys \ spent => held[s] \in alive'
           /\ \A t \in SetupServers : t # s => KeysAbout(t) \cap alive \subseteq alive'
  <1>1. PICK left \in SUBSET keys : alive' = alive \ (keys \ left) /\ leftovers' = leftovers \cup left
    BY DEF DropKeys
  <1>2. leftovers' \subseteq StoreKeys
    BY <1>1, KeysTyped DEF SetupInv, SetupTypeOK
  <1>3. held[s] \in StoreKeys \ spent => held[s] \in alive'
    BY <1>1 DEF SetupInv, KeysOf
  <1>4. ASSUME NEW t \in SetupServers, t # s PROVE KeysAbout(t) \cap alive \subseteq alive'
    <2>1. KeysAbout(s) \cap KeysAbout(t) = {}
      BY <1>4 DEF SetupInv, KeysApart
    <2> QED BY <1>1, <2>1
  <1> QED BY <1>1, <1>2, <1>3, <1>4

(* A server that a step leaves alone.                                      *)
LEMMA OthersKeep ==
    ASSUME SetupInv, NEW t \in SetupServers, setupRec'[t] = setupRec[t], held'[t] = held[t],
           InSetup, InSetup', setupRun'.stage[t] = setupRun.stage[t], setupRun'.key[t] = setupRun.key[t],
           setupRun'.prev[t] = setupRun.prev[t], spent \subseteq spent',
           KeysAbout(t) \cap alive \subseteq alive'
    PROVE  KeysOf(t)' /\ KeysAbout(t)' = KeysAbout(t)
  <1>1. KeysAbout(t)' = KeysAbout(t)
    BY DEF KeysAbout, RecordKeys
  <1>2. KeysOf(t) /\ (held[t] \in StoreKeys => held[t] \in KeysAbout(t))
        /\ ({setupRun.key[t]} \ {None} \subseteq KeysAbout(t))
    BY KeysTyped DEF SetupInv
  <1>3. (NeverPushed(t)' <=> NeverPushed(t)) /\ (\A st : In(t, st)' <=> In(t, st))
    BY DEF NeverPushed, In
  <1>4. RunKeyIsGood(t)'
    BY <1>2, <1>3 DEF RunKeyIsGood, KeysOf
  <1>5. PrevIsOld(t)'
    BY <1>2 DEF PrevIsOld, KeysOf
  <1>6. held'[t] \in StoreKeys \ spent' => held'[t] \in alive'
    BY <1>2 DEF KeysOf
  <1> QED BY <1>1, <1>2, <1>3, <1>4, <1>5, <1>6 DEF KeysOf

(* A step of the run on one server.                                        *)
LEMMA LocalStep ==
    ASSUME SetupInv, InSetup, NEW s \in SetupServers,
           NEW stage, NEW key, NEW prev, RunMoves(s, stage, key, prev),
           \A t \in SetupServers : t # s => /\ setupRec'[t] = setupRec[t] /\ held'[t] = held[t]
                                            /\ KeysAbout(t) \cap alive \subseteq alive',
           setupRec' \in [SetupServers -> KeyRecord \cup {None}],
           held' \in [SetupServers -> StoreKey \cup {"by hand"}],
           unminted' \subseteq unminted, alive' \subseteq StoreKeys \ unminted',
           leftovers' \subseteq StoreKeys, UNCHANGED <<spent, hand>>,
           KeysAbout(s)' \subseteq KeysAbout(s) \cup (unminted \ unminted'), KeysOf(s)'
    PROVE  SetupInv'
  <1>1. SetupTypeOK'
    BY DEF SetupInv, SetupTypeOK, RunMoves
  <1>2. InSetup'
    BY SetupRecords DEF InSetup, RunMoves
  <1>3. ASSUME NEW t \in SetupServers, t # s
        PROVE  KeysOf(t)' /\ KeysAbout(t)' = KeysAbout(t)
    BY <1>2, <1>3, OthersKeep DEF RunMoves
  <1>4. KeysApart'
    <2>1. \A t \in SetupServers : KeysAbout(t) \cap unminted = {}
      BY DEF SetupInv, KeysApart
    <2>2. \A t, u \in SetupServers : t # u => KeysAbout(t) \cap KeysAbout(u) = {}
      BY DEF SetupInv, KeysApart
    <2>3. ASSUME NEW t \in SetupServers
          PROVE  KeysAbout(t)' \cap unminted' = {}
      BY <1>3, <2>1
    <2>4. ASSUME NEW t \in SetupServers, NEW u \in SetupServers, t # u
          PROVE  KeysAbout(t)' \cap KeysAbout(u)' = {}
      <3>1. KeysAbout(t) \cap KeysAbout(u) = {} /\ KeysAbout(t) \cap unminted = {} /\ KeysAbout(u) \cap unminted = {}
        BY <2>1, <2>2, <2>4
      <3>2. CASE t = s
        <4>1. KeysAbout(u)' = KeysAbout(u)
          BY <1>3, <2>4, <3>2
        <4>2. KeysAbout(t)' \subseteq KeysAbout(t) \cup unminted
          BY <3>2
        <4> QED BY <3>1, <4>1, <4>2
      <3>3. CASE t # s
        <4>1. KeysAbout(t)' = KeysAbout(t)
          BY <1>3, <3>3
        <4>2. KeysAbout(u)' \subseteq KeysAbout(u) \cup unminted
          <5>1. CASE u = s
            BY <5>1
          <5>2. CASE u # s
            BY <1>3, <5>2
          <5> QED BY <5>1, <5>2
        <4> QED BY <3>1, <4>1, <4>2
      <3> QED BY <3>2, <3>3
    <2> QED BY <2>3, <2>4 DEF KeysApart
  <1> QED BY <1>1, <1>3, <1>4 DEF SetupInv

(* What the run holds for a server.                                        *)
LEMMA RunFacts ==
    ASSUME SetupInv, InSetup, NEW s \in SetupServers
    PROVE  /\ setupRun \in SetupRun /\ setupRun.stage[s] \in Stage /\ setupRun.key[s] \in StoreKey
           /\ setupRun.prev[s] \in KeyRecord \cup {None} /\ setupRec[s] \in KeyRecord \cup {None}
           /\ setupRec \in [SetupServers -> KeyRecord \cup {None}]
           /\ held \in [SetupServers -> StoreKey \cup {"by hand"}]
           /\ unminted \subseteq StoreKeys /\ alive \subseteq StoreKeys \ unminted
           /\ leftovers \subseteq StoreKeys
  BY DEF SetupInv, SetupTypeOK, InSetup, SetupRun

(* A server the run is done with.                                          *)
LEMMA DoneKeeps ==
    ASSUME SetupInv, InSetup, NEW s \in SetupServers, RunMoves(s, "done", None, None),
           RecordKeys(setupRec'[s]) \subseteq KeysAbout(s), held'[s] = held[s],
           NeverPushed(s)' => setupRec'[s].key # held[s],
           held[s] \in StoreKeys \ spent => held[s] \in alive', UNCHANGED spent
    PROVE  KeysAbout(s)' \subseteq KeysAbout(s) /\ KeysOf(s)'
  <1>1. KeysAbout(s)' \subseteq KeysAbout(s)
    <2>1. setupRun'.key[s] = None /\ setupRun'.prev[s] = None
      BY DEF RunMoves
    <2>2. RecordKeys(setupRun'.prev[s]) = {}
      BY <2>1 DEF RecordKeys
    <2>3. RecordKeys(setupRec[s])' = RecordKeys(setupRec'[s]) /\ RecordKeys(setupRun.prev[s])' = {}
      BY <2>2 DEF RecordKeys
    <2>4. {held[s]} \cap StoreKeys \subseteq KeysAbout(s)
      BY DEF KeysAbout
    <2> QED BY <2>1, <2>3, <2>4 DEF KeysAbout
  <1>2. setupRun'.stage[s] = "done" /\ setupRun'.prev[s] = None
    BY DEF RunMoves
  <1> QED BY <1>1, <1>2 DEF KeysOf, RunKeyIsGood, PrevIsOld, In

(* The steps that leave a server done, or to be done, keep the invariant.  *)
LEMMA DoneSteps ==
    ASSUME SetupInv, NEW s \in SetupServers,
           \/ SkipServer(s) \/ MintFails(s) \/ Restore(s) \/ PushUnsure(s) \/ DropReplaced(s)
    PROVE  SetupInv'
  <1>1. InSetup
    BY DEF SkipServer, Turn, MintFails, Minting, Restore, PushUnsure, DropReplaced, In
  <1>2. KeysOf(s) /\ KeysAbout(s) \subseteq StoreKeys /\ RecordKeys(setupRec[s]) \subseteq KeysAbout(s)
        /\ RecordKeys(setupRun.prev[s]) \subseteq KeysAbout(s)
    BY <1>1, KeysTyped DEF SetupInv
  <1>3. setupRun' \in {StageDone(s), Stopping(StageDone(s))} => RunMoves(s, "done", None, None)
    <2>1. None \in StoreKey /\ None \in KeyRecord \cup {None} /\ "done" \in Stage
      BY DEF StoreKey, Stage
    <2> QED BY <1>1, <2>1, RunForms DEF SetupInv
  <1>4. \A t \in SetupServers : KeysAbout(t) \cap alive \subseteq alive
    OBVIOUS
  <1>5. CASE SkipServer(s) \/ MintFails(s)
    <2>1. setupRun' \in {StageDone(s), Stopping(StageDone(s))}
      BY <1>5 DEF SkipServer, MintFails
    <2>2. UNCHANGED <<unminted, alive, held, setupRec, leftovers, hand, spent>>
      BY <1>5 DEF SkipServer, MintFails
    <2>3. RunMoves(s, "done", None, None)
      BY <1>3, <2>1
    <2>4. NeverPushed(s)' => setupRec'[s].key # held[s]
      BY <1>2, <2>2 DEF KeysOf, NeverPushed
    <2>5. KeysAbout(s)' \subseteq KeysAbout(s) /\ KeysOf(s)'
      BY <1>1, <1>2, <2>2, <2>3, <2>4, DoneKeeps DEF KeysOf
    <2> QED BY <1>1, <2>2, <2>3, <2>5, RunFacts, LocalStep
  <1>6. CASE Restore(s)
    <2> USE <1>6 DEF Restore
    <2>1. RunMoves(s, "done", None, None)
      BY <1>3
    <2>2. setupRec'[s] = setupRun.prev[s] /\ setupRec' \in [SetupServers -> KeyRecord \cup {None}]
      BY <1>1, RunFacts
    <2>3. ~NeverPushed(s)'
      BY <1>1, <1>2, <2>2 DEF NeverPushed, KeysOf, PrevIsOld
    <2>4. KeysAbout(s)' \subseteq KeysAbout(s) /\ KeysOf(s)'
      BY <1>1, <1>2, <2>1, <2>2, <2>3, DoneKeeps DEF KeysOf
    <2>5. \A t \in SetupServers : t # s => setupRec'[t] = setupRec[t]
      BY <1>1, RunFacts
    <2> QED BY <1>1, <2>1, <2>2, <2>4, <2>5, RunFacts, LocalStep
  <1>7. CASE PushUnsure(s)
    <2> USE <1>7 DEF PushUnsure
    <2>1. RunMoves(s, "done", None, None)
      BY <1>3 DEF AfterPush
    <2>2. PICK state \in {"pushed", "ambiguous"} : setupRec' = [setupRec EXCEPT ![s].state = state]
      BY DEF RecordState
    <2>3. setupRec[s] \in KeyRecord
      BY <1>1, RunFacts
    <2> DEFINE new == [setupRec[s] EXCEPT !.state = state]
    <2>4. new \in KeyRecord /\ new # None /\ new.key = setupRec[s].key /\ new.replaces = setupRec[s].replaces
          /\ new.state = state
      <3>1. new \in KeyRecord /\ new.key = setupRec[s].key /\ new.replaces = setupRec[s].replaces
            /\ new.state = state
        BY <2>3 DEF KeyRecord
      <3> QED BY <3>1, SetupRecords
    <2>5. setupRec' = [setupRec EXCEPT ![s] = new]
      BY <2>2
    <2> HIDE DEF new
    <2>6. setupRec' \in [SetupServers -> KeyRecord \cup {None}] /\ setupRec'[s] = new
          /\ \A t \in SetupServers : t # s => setupRec'[t] = setupRec[t]
      BY <1>1, <2>4, <2>5, RunFacts
    <2>7. RecordKeys(setupRec'[s]) \subseteq KeysAbout(s) /\ ~NeverPushed(s)'
      BY <1>2, <2>4, <2>6 DEF RecordKeys, NeverPushed
    <2>8. KeysAbout(s)' \subseteq KeysAbout(s) /\ KeysOf(s)'
      BY <1>1, <1>2, <2>1, <2>7, DoneKeeps DEF KeysOf
    <2> QED BY <1>1, <2>1, <2>6, <2>8, RunFacts, LocalStep
  <1>8. CASE DropReplaced(s)
    <2> USE <1>8 DEF DropReplaced
    <2>1. RunMoves(s, "done", None, None)
      BY <1>3
    <2> DEFINE keys == ToSet(setupRun.prev[s].replaces)
    <2>2. setupRun.stage[s] = "landed" /\ setupRun.prev[s] # None /\ held[s] \notin keys
      BY <1>1, <1>2 DEF KeysOf, In, PrevIsOld
    <2>3. keys \subseteq KeysAbout(s)
      BY <1>1, <1>2, <2>2, RunFacts, ReplacingKeys
    <2> HIDE DEF keys
    <2>4. DropKeys(keys) /\ UNCHANGED <<unminted, held, setupRec, hand, spent>>
      BY DEF keys
    <2>5. /\ alive' \subseteq alive /\ leftovers' \subseteq StoreKeys
          /\ held[s] \in StoreKeys \ spent => held[s] \in alive'
          /\ \A t \in SetupServers : t # s => KeysAbout(t) \cap alive \subseteq alive'
      BY <2>2, <2>3, <2>4, DropIsSafe
    <2>6. NeverPushed(s)' => setupRec'[s].key # held[s]
      BY <1>2, <2>4 DEF KeysOf, NeverPushed
    <2>7. KeysAbout(s)' \subseteq KeysAbout(s) /\ KeysOf(s)'
      BY <1>1, <1>2, <2>1, <2>4, <2>5, <2>6, DoneKeeps
    <2> QED BY <1>1, <2>1, <2>4, <2>5, <2>7, RunFacts, LocalStep
  <1> QED BY <1>5, <1>6, <1>7, <1>8

(* A key is made, and proved.                                              *)
LEMMA MintSteps ==
    ASSUME SetupInv, NEW s \in SetupServers,
           ProbePasses(s) \/ \E k \in StoreKeys : MintKey(s, k)
    PROVE  SetupInv'
  <1>1. InSetup
    BY DEF ProbePasses, Proving, MintKey, Minting, Turn, In
  <1>2. KeysOf(s) /\ KeysAbout(s) \subseteq StoreKeys /\ RecordKeys(setupRec[s]) \subseteq KeysAbout(s)
        /\ RecordKeys(setupRun.prev[s]) \subseteq KeysAbout(s)
        /\ (held[s] \in StoreKeys => held[s] \in KeysAbout(s))
    BY <1>1, KeysTyped DEF SetupInv
  <1>3. CASE ProbePasses(s)
    <2>1. /\ setupRun.stage[s] = "minted" /\ setupRun.key[s] # None /\ setupRun' = Moved(s, "ready")
          /\ UNCHANGED <<unminted, alive, held, setupRec, leftovers, hand, spent>>
      BY <1>3 DEF ProbePasses, Proving, In
    <2>2. RunMoves(s, "ready", setupRun.key[s], setupRun.prev[s])
      <3>1. "ready" \in Stage
        BY DEF Stage
      <3> QED BY <1>1, <2>1, <3>1, RunFacts, RunForms DEF SetupInv
    <2>3. InSetup'
      BY <2>2, SetupRecords DEF RunMoves, InSetup
    <2>4. KeysAbout(s)' = KeysAbout(s)
      BY <1>1, <2>1, <2>2, <2>3 DEF KeysAbout, RecordKeys, RunMoves
    <2>5. KeysOf(s)'
      BY <1>1, <1>2, <2>1, <2>2, <2>3 DEF KeysOf, RunKeyIsGood, PrevIsOld, In, NeverPushed, RunMoves
    <2> QED BY <1>1, <2>1, <2>2, <2>4, <2>5, RunFacts, LocalStep
  <1>4. ASSUME NEW k \in StoreKeys, MintKey(s, k) PROVE SetupInv'
    <2> DEFINE prior == Prior(s)
               new == [key |-> k, state |-> "minted", replaces |-> Replacing(prior)]
    <2>1. /\ Minting(s) /\ k \in unminted /\ unminted' = unminted \ {k} /\ alive' = alive \cup {k}
          /\ setupRec' = [setupRec EXCEPT ![s] = new]
          /\ setupRun' = [Moved(s, "minted") EXCEPT !.key[s] = k, !.prev[s] = prior]
          /\ UNCHANGED <<held, leftovers, hand, spent>>
      BY <1>4 DEF MintKey
    <2>2. /\ prior \in KeyRecord \cup {None} /\ RecordKeys(prior) \subseteq KeysAbout(s)
          /\ prior # None => prior.state # "minted"
      <3>1. prior = setupRun.prev[s] \/ (prior = setupRec[s] /\ ~NeverPushed(s))
        BY <2>1 DEF Prior, Minting
      <3>2. CASE prior = setupRun.prev[s]
        BY <1>1, <1>2, <3>2, RunFacts DEF KeysOf, PrevIsOld
      <3>3. CASE prior = setupRec[s] /\ ~NeverPushed(s)
        BY <1>1, <1>2, <3>3, RunFacts DEF NeverPushed
      <3> QED BY <3>1, <3>2, <3>3
    <2> HIDE DEF prior
    <2>3. /\ Replacing(prior) \in Seq(StoreKeys) /\ ToSet(Replacing(prior)) = RecordKeys(prior)
          /\ None \notin StoreKeys
      BY <2>2, ReplacingKeys, BackupSetupConstants
    <2>4. k \notin KeysAbout(s)
      BY <2>1 DEF SetupInv, KeysApart
    <2>5. new \in KeyRecord /\ new # None
      <3>1. new \in KeyRecord
        BY <2>3 DEF KeyRecord, StoreKey
      <3> QED BY <3>1, SetupRecords
    <2>6. /\ RecordKeys(new) \subseteq KeysAbout(s) \cup {k} /\ new.key = k /\ new.state = "minted"
          /\ k \notin ToSet(new.replaces)
      BY <2>2, <2>3, <2>4, <2>5 DEF RecordKeys
    <2> HIDE DEF new
    <2>7. /\ setupRec' \in [SetupServers -> KeyRecord \cup {None}] /\ setupRec'[s] = new
          /\ \A t \in SetupServers : t # s => setupRec'[t] = setupRec[t]
      BY <1>1, <2>1, <2>5, RunFacts
    <2>8. RunMoves(s, "minted", k, prior)
      <3>1. "minted" \in Stage /\ k \in StoreKey
        BY DEF Stage, StoreKey
      <3> QED BY <1>1, <2>1, <2>2, <3>1, RunForms DEF SetupInv
    <2>9. InSetup'
      BY <2>8, SetupRecords DEF RunMoves, InSetup
    <2>10. held[s] # k /\ k # None
      BY <1>2, <2>3, <2>4
    <2>11. KeysAbout(s)' \subseteq KeysAbout(s) \cup {k}
      <3>1. RecordKeys(setupRec[s])' = RecordKeys(new) /\ RecordKeys(setupRun.prev[s])' = RecordKeys(prior)
        BY <2>7, <2>8 DEF RecordKeys, RunMoves
      <3>2. setupRun'.key[s] = k
        BY <2>8 DEF RunMoves
      <3>3. {held'[s]} \cap StoreKeys \subseteq KeysAbout(s)
        BY <1>2, <2>1
      <3> QED BY <2>2, <2>6, <3>1, <3>2, <3>3 DEF KeysAbout
    <2>12. KeysOf(s)'
      <3>1. setupRun'.stage[s] = "minted" /\ setupRun'.key[s] = k /\ setupRun'.prev[s] = prior
        BY <2>8 DEF RunMoves
      <3>2. RunKeyIsGood(s)'
        BY <2>1, <2>6, <2>7, <2>10, <3>1 DEF RunKeyIsGood
      <3>3. PrevIsOld(s)'
        BY <2>2, <3>1 DEF PrevIsOld
      <3>4. NeverPushed(s)' => setupRec'[s].key # held'[s]
        BY <2>1, <2>6, <2>7, <2>10
      <3>5. held'[s] \in StoreKeys \ spent' => held'[s] \in alive'
        BY <1>2, <2>1 DEF KeysOf
      <3> QED BY <3>1, <3>2, <3>3, <3>4, <3>5 DEF KeysOf, In
    <2>13. \A t \in SetupServers : KeysAbout(t) \cap alive \subseteq alive'
      BY <2>1
    <2>14. alive' \subseteq StoreKeys \ unminted' /\ unminted' \subseteq unminted /\ unminted \ unminted' = {k}
      BY <1>1, <2>1, RunFacts
    <2> QED BY <1>1, <2>1, <2>7, <2>8, <2>11, <2>12, <2>13, <2>14, RunFacts, LocalStep
  <1> QED BY <1>3, <1>4

(* Keys that no server was given are dropped.                              *)
LEMMA DropSteps ==
    ASSUME SetupInv, NEW s \in SetupServers,
           \/ DropStale(s) \/ ProbeFails(s) \/ TakeBackUnpushed(s) \/ PushMissed(s)
    PROVE  SetupInv'
  <1>1. InSetup
    BY DEF DropStale, Turn, ProbeFails, Proving, TakeBackUnpushed, PushMissed, In
  <1>2. KeysOf(s) /\ KeysAbout(s) \subseteq StoreKeys /\ RecordKeys(setupRec[s]) \subseteq KeysAbout(s)
        /\ RecordKeys(setupRun.prev[s]) \subseteq KeysAbout(s)
        /\ {setupRun.key[s]} \ {None} \subseteq KeysAbout(s)
        /\ (held[s] \in StoreKeys => held[s] \in KeysAbout(s))
    BY <1>1, KeysTyped DEF SetupInv
  <1>3. ASSUME NEW keys \in SUBSET KeysAbout(s), held[s] \notin keys, DropKeys(keys),
               UNCHANGED <<unminted, held, setupRec, hand, spent>>,
               NEW stage, NEW key, NEW prev, RunMoves(s, stage, key, prev),
               key = setupRun.key[s], RecordKeys(prev) \subseteq KeysAbout(s),
               prev # None => prev.state # "minted",
               \/ stage = "dropped"
               \/ stage = "minted" /\ key = None
        PROVE  SetupInv'
    <2>1. /\ alive' \subseteq alive /\ leftovers' \subseteq StoreKeys
          /\ held[s] \in StoreKeys \ spent => held[s] \in alive'
          /\ \A t \in SetupServers : t # s => KeysAbout(t) \cap alive \subseteq alive'
      BY <1>3, DropIsSafe
    <2>2. InSetup'
      BY <1>3, SetupRecords DEF RunMoves, InSetup
    <2>3. setupRun'.stage[s] = stage /\ setupRun'.key[s] = key /\ setupRun'.prev[s] = prev
      BY <1>3 DEF RunMoves
    <2>4. KeysAbout(s)' \subseteq KeysAbout(s)
      <3>1. RecordKeys(setupRec[s])' = RecordKeys(setupRec[s]) /\ RecordKeys(setupRun.prev[s])' = RecordKeys(prev)
        BY <1>3, <2>3 DEF RecordKeys
      <3> QED BY <1>2, <1>3, <2>3, <3>1 DEF KeysAbout
    <2>5. KeysOf(s)'
      <3>1. NeverPushed(s)' => setupRec'[s].key # held'[s]
        BY <1>2, <1>3 DEF KeysOf, NeverPushed
      <3>2. RunKeyIsGood(s)'
        BY <1>3, <2>3 DEF RunKeyIsGood, In
      <3>3. PrevIsOld(s)'
        BY <1>3, <2>3 DEF PrevIsOld
      <3> QED BY <1>3, <2>1, <2>3, <3>1, <3>2, <3>3 DEF KeysOf, In
    <2>6. alive' \subseteq StoreKeys \ unminted'
      BY <1>1, <1>3, <2>1, RunFacts
    <2> QED BY <1>1, <1>3, <2>1, <2>4, <2>5, <2>6, RunFacts, LocalStep
  <1>4. CASE DropStale(s)
    <2> USE <1>4 DEF DropStale
    <2>1. setupRec[s] \in KeyRecord /\ setupRec[s] # None /\ setupRun.key[s] = None
      BY <1>1, <1>2, RunFacts DEF NeverPushed, Turn, KeysOf, In
    <2> DEFINE keys == {setupRec[s].key} \ {None}
               chain == ChainRecord(setupRec[s])
    <2>2. keys \subseteq KeysAbout(s) /\ held[s] \notin keys
      BY <1>2, <2>1 DEF KeysOf, RecordKeys
    <2>3. chain \in KeyRecord \cup {None} /\ RecordKeys(chain) \subseteq KeysAbout(s)
          /\ (chain # None => chain.state # "minted")
      BY <1>2, <2>1, ChainKeys
    <2>4. RunMoves(s, "minted", setupRun.key[s], chain)
      <3>1. "minted" \in Stage /\ None \in StoreKey
        BY DEF Stage, StoreKey
      <3>2. setupRun' = [Moved(s, "minted") EXCEPT !.prev[s] = chain]
        OBVIOUS
      <3> HIDE DEF chain
      <3> QED BY <1>1, <2>3, <3>1, <3>2, RunForms DEF SetupInv
    <2>5. DropKeys(keys) /\ UNCHANGED <<unminted, held, setupRec, hand, spent>>
      OBVIOUS
    <2> HIDE DEF keys, chain
    <2> QED BY <1>3, <2>1, <2>2, <2>3, <2>4, <2>5
  <1>5. ASSUME DropKeys({setupRun.key[s]}), setupRun.key[s] # None, setupRun.key[s] # held[s],
               setupRun' \in {Moved(s, "dropped"), Stopping(Moved(s, "dropped"))},
               UNCHANGED <<unminted, held, setupRec, hand, spent>>
        PROVE  SetupInv'
    <2>1. RunMoves(s, "dropped", setupRun.key[s], setupRun.prev[s])
      <3>1. "dropped" \in Stage /\ None \in StoreKey
        BY DEF Stage, StoreKey
      <3> QED BY <1>1, <1>5, <3>1, RunForms DEF SetupInv
    <2>2. {setupRun.key[s]} \in SUBSET KeysAbout(s) /\ held[s] \notin {setupRun.key[s]}
      BY <1>2, <1>5
    <2>3. setupRun.prev[s] # None => setupRun.prev[s].state # "minted"
      BY <1>1, <1>2 DEF KeysOf, PrevIsOld
    <2> QED BY <1>2, <1>3, <1>5, <2>1, <2>2, <2>3
  <1>6. CASE ProbeFails(s)
    BY <1>1, <1>2, <1>5, <1>6 DEF ProbeFails, Proving, TakeBack, KeysOf, RunKeyIsGood, In
  <1>7. CASE TakeBackUnpushed(s)
    BY <1>1, <1>2, <1>5, <1>7 DEF TakeBackUnpushed, TakeBack, KeysOf, RunKeyIsGood, In
  <1>8. CASE PushMissed(s)
    <2>1. setupRun.key[s] # None /\ setupRun.key[s] # held[s]
      BY <1>1, <1>2, <1>8, RunFacts, BackupSetupConstants DEF PushMissed, KeysOf, In, StoreKey
    <2> QED BY <1>5, <1>8, <2>1 DEF PushMissed, TakeBack, AfterPush
  <1> QED BY <1>4, <1>6, <1>7, <1>8

(* A push is begun, lands and is verified.                                 *)
LEMMA PushSteps ==
    ASSUME SetupInv, NEW s \in SetupServers,
           PushBegins(s) \/ PushLands(s) \/ PushVerified(s)
    PROVE  SetupInv'
  <1>1. InSetup
    BY DEF PushBegins, PushLands, PushVerified, In
  <1>2. KeysOf(s) /\ KeysAbout(s) \subseteq StoreKeys /\ RecordKeys(setupRec[s]) \subseteq KeysAbout(s)
        /\ RecordKeys(setupRun.prev[s]) \subseteq KeysAbout(s)
        /\ {setupRun.key[s]} \ {None} \subseteq KeysAbout(s)
        /\ (held[s] \in StoreKeys => held[s] \in KeysAbout(s))
    BY <1>1, KeysTyped DEF SetupInv
  <1>3. setupRec[s] # None => setupRec[s] \in KeyRecord
    BY <1>1, RunFacts
  <1>4. CASE PushBegins(s)
    <2> DEFINE new == [setupRec[s] EXCEPT !.state = "pushing"]
    <2>1. /\ setupRun.stage[s] = "ready" /\ setupRec[s] # None /\ setupRun' = Moved(s, "pushing")
          /\ setupRec' = [setupRec EXCEPT ![s] = new]
          /\ UNCHANGED <<unminted, alive, held, leftovers, hand, spent>>
      BY <1>4 DEF PushBegins, RecordState, In
    <2>2. new \in KeyRecord /\ new # None /\ new.key = setupRec[s].key /\ new.replaces = setupRec[s].replaces
          /\ new.state = "pushing"
      <3>1. new \in KeyRecord /\ new.key = setupRec[s].key /\ new.replaces = setupRec[s].replaces
            /\ new.state = "pushing"
        BY <1>3, <2>1 DEF KeyRecord
      <3> QED BY <3>1, SetupRecords
    <2> HIDE DEF new
    <2>3. /\ setupRec' \in [SetupServers -> KeyRecord \cup {None}] /\ setupRec'[s] = new
          /\ \A t \in SetupServers : t # s => setupRec'[t] = setupRec[t]
      BY <1>1, <2>1, <2>2, RunFacts
    <2>4. RunMoves(s, "pushing", setupRun.key[s], setupRun.prev[s])
      <3>1. "pushing" \in Stage
        BY DEF Stage
      <3> QED BY <1>1, <2>1, <3>1, RunFacts, RunForms DEF SetupInv
    <2>5. InSetup' /\ setupRun'.stage[s] = "pushing" /\ setupRun'.key[s] = setupRun.key[s]
          /\ setupRun'.prev[s] = setupRun.prev[s]
      BY <2>4, SetupRecords DEF RunMoves, InSetup
    <2>6. KeysAbout(s)' = KeysAbout(s)
      BY <1>1, <2>1, <2>2, <2>3, <2>5 DEF KeysAbout, RecordKeys
    <2>7. KeysOf(s)'
      <3>1. ~NeverPushed(s)'
        BY <2>2, <2>3 DEF NeverPushed
      <3>2. RunKeyIsGood(s)'
        BY <1>1, <1>2, <2>1, <2>2, <2>3, <2>5 DEF RunKeyIsGood, KeysOf, In
      <3>3. PrevIsOld(s)'
        BY <1>1, <1>2, <2>1, <2>5 DEF PrevIsOld, KeysOf
      <3>4. setupRun'.key[s] # None
        BY <1>1, <1>2, <2>1, <2>5 DEF KeysOf, In
      <3>5. held'[s] \in StoreKeys \ spent' => held'[s] \in alive'
        BY <1>2, <2>1 DEF KeysOf
      <3> QED BY <2>5, <3>1, <3>2, <3>3, <3>4, <3>5 DEF KeysOf, In
    <2> QED BY <1>1, <2>1, <2>3, <2>4, <2>6, <2>7, RunFacts, LocalStep
  <1>5. CASE PushLands(s)
    <2>1. /\ setupRun.stage[s] = "pushing" /\ held' = [held EXCEPT ![s] = setupRun.key[s]]
          /\ UNCHANGED <<unminted, alive, setupRec, leftovers, setupRun, hand, spent>>
      BY <1>5 DEF PushLands, In
    <2>2. RunMoves(s, setupRun.stage[s], setupRun.key[s], setupRun.prev[s])
      BY <1>1, <2>1, RunFacts DEF RunMoves
    <2>3. /\ held' \in [SetupServers -> StoreKey \cup {"by hand"}] /\ held'[s] = setupRun.key[s]
          /\ \A t \in SetupServers : t # s => held'[t] = held[t]
      BY <1>1, <2>1, RunFacts
    <2>4. setupRun.key[s] # None /\ setupRun.key[s] \in alive /\ ~NeverPushed(s)
      BY <1>1, <1>2, <2>1 DEF KeysOf, RunKeyIsGood, In
    <2>5. KeysAbout(s)' \subseteq KeysAbout(s)
      <3>1. RecordKeys(setupRec[s])' = RecordKeys(setupRec[s])
            /\ RecordKeys(setupRun.prev[s])' = RecordKeys(setupRun.prev[s]) /\ (InSetup' <=> InSetup)
        BY <2>1 DEF RecordKeys, InSetup
      <3> QED BY <1>1, <1>2, <2>1, <2>3, <2>4, <3>1 DEF KeysAbout
    <2>6. KeysOf(s)'
      <3>1. ~NeverPushed(s)'
        BY <2>1, <2>4 DEF NeverPushed
      <3>2. RunKeyIsGood(s)'
        BY <1>1, <1>2, <2>1, <2>4 DEF RunKeyIsGood, KeysOf, In
      <3>3. PrevIsOld(s)'
        BY <1>1, <1>2, <2>1 DEF PrevIsOld, KeysOf
      <3> QED BY <1>1, <2>1, <2>3, <2>4, <3>1, <3>2, <3>3 DEF KeysOf, In
    <2> QED BY <1>1, <2>1, <2>2, <2>3, <2>5, <2>6, RunFacts, LocalStep
  <1>6. CASE PushVerified(s)
    <2> DEFINE new == [setupRec[s] EXCEPT !.state = "verified", !.replaces = << >>]
               old == setupRec[s]
    <2>1. /\ setupRun.stage[s] = "pushing" /\ held[s] = setupRun.key[s] /\ old # None
          /\ setupRun' = [Moved(s, "landed") EXCEPT !.prev[s] = old]
          /\ UNCHANGED <<unminted, alive, held, leftovers, hand, spent>>
      BY <1>6 DEF PushVerified, In
    <2>2. setupRec' = [setupRec EXCEPT ![s] = new]
      BY <1>1, <1>6, RunFacts DEF PushVerified
    <2>3. new \in KeyRecord /\ new # None /\ new.key = old.key /\ new.replaces = << >> /\ new.state = "verified"
      <3>1. new \in KeyRecord /\ new.key = old.key /\ new.replaces = << >> /\ new.state = "verified"
        <4> DEFINE empty == << >>
        <4>1. empty \in Seq(StoreKeys) /\ old \in KeyRecord
          <5>1. empty \in Seq(StoreKeys)
            OBVIOUS
          <5>2. setupRec[s] \in KeyRecord \cup {None}
            BY <1>1, RunFacts
          <5> QED BY <2>1, <5>1, <5>2
        <4>2. new = [old EXCEPT !.state = "verified", !.replaces = empty]
          OBVIOUS
        <4> HIDE DEF old, new, empty
        <4>3. new = [key |-> old.key, state |-> "verified", replaces |-> empty]
          BY <4>1, <4>2 DEF KeyRecord
        <4>4. old.key \in StoreKey
          BY <4>1 DEF KeyRecord
        <4>5. new \in KeyRecord /\ new.key = old.key /\ new.replaces = empty /\ new.state = "verified"
          BY <4>1, <4>3, <4>4 DEF KeyRecord
        <4> QED BY <4>5 DEF empty
      <3> QED BY <3>1, SetupRecords
    <2>4. RecordKeys(new) \subseteq RecordKeys(old)
      BY <2>1, <2>3 DEF RecordKeys, ToSet
    <2> HIDE DEF new
    <2>5. /\ setupRec' \in [SetupServers -> KeyRecord \cup {None}] /\ setupRec'[s] = new
          /\ \A t \in SetupServers : t # s => setupRec'[t] = setupRec[t]
      BY <1>1, <2>2, <2>3, RunFacts
    <2>6. RunMoves(s, "landed", setupRun.key[s], old)
      <3>1. "landed" \in Stage /\ old \in KeyRecord \cup {None} /\ setupRun.key[s] \in StoreKey
        BY <1>1, RunFacts DEF Stage
      <3> HIDE DEF old
      <3> QED BY <1>1, <2>1, <3>1, RunForms DEF SetupInv
    <2>7. InSetup' /\ setupRun'.stage[s] = "landed" /\ setupRun'.key[s] = setupRun.key[s]
          /\ setupRun'.prev[s] = old
      BY <2>6, SetupRecords DEF RunMoves, InSetup
    <2>8. KeysAbout(s)' \subseteq KeysAbout(s)
      <3>1. RecordKeys(setupRec[s])' = RecordKeys(new) /\ RecordKeys(setupRun.prev[s])' = RecordKeys(old)
        BY <2>5, <2>7 DEF RecordKeys
      <3> QED BY <1>2, <2>1, <2>4, <2>7, <3>1 DEF KeysAbout
    <2>9. KeysOf(s)'
      <3>1. ~NeverPushed(s)'
        BY <2>3, <2>5 DEF NeverPushed
      <3>2. old.state # "minted" /\ held[s] \notin ToSet(old.replaces)
        BY <1>1, <1>2, <2>1 DEF KeysOf, RunKeyIsGood, NeverPushed, In
      <3>3. PrevIsOld(s)'
        BY <2>1, <2>7, <3>2 DEF PrevIsOld
      <3>4. held'[s] \in StoreKeys \ spent' => held'[s] \in alive'
        BY <1>2, <2>1 DEF KeysOf
      <3> QED BY <2>1, <2>7, <3>1, <3>3, <3>4 DEF KeysOf, RunKeyIsGood, In
    <2> QED BY <1>1, <2>1, <2>5, <2>6, <2>8, <2>9, RunFacts, LocalStep
  <1> QED BY <1>4, <1>5, <1>6

-----------------------------------------------------------------------------
(* Steps beside a run                                                      *)

(* Keys are about the servers they were about, or about none.              *)
LEMMA KeysStayApart ==
    ASSUME SetupInv, unminted' \subseteq unminted,
           \A s \in SetupServers : KeysAbout(s)' \subseteq KeysAbout(s)
    PROVE  KeysApart'
  <1>1. ASSUME NEW s \in SetupServers, NEW t \in SetupServers, s # t
        PROVE  KeysAbout(s)' \cap KeysAbout(t)' = {}
    <2>1. KeysAbout(s) \cap KeysAbout(t) = {}
      BY <1>1 DEF SetupInv, KeysApart
    <2>2. KeysAbout(s)' \subseteq KeysAbout(s) /\ KeysAbout(t)' \subseteq KeysAbout(t)
      OBVIOUS
    <2> QED BY <2>1, <2>2
  <1>2. ASSUME NEW s \in SetupServers PROVE KeysAbout(s)' \cap unminted' = {}
    <2>1. KeysAbout(s) \cap unminted = {}
      BY DEF SetupInv, KeysApart
    <2>2. KeysAbout(s)' \subseteq KeysAbout(s)
      OBVIOUS
    <2> QED BY <2>1, <2>2
  <1> QED BY <1>1, <1>2 DEF KeysApart

(* A run begins, chooses who goes first, ends, or is cut off; the owner    *)
(* deals with what is left over.                                           *)
LEMMA RunSteps ==
    ASSUME SetupInv,
           \/ \E unread \in SUBSET SetupServers, rotate, can \in BOOLEAN : StartSetup(unread, rotate, can)
           \/ BeginPushes \/ EndSetup \/ SetupRestart
           \/ \E k \in StoreKeys : DismissLeftover(k)
    PROVE  SetupInv'
  <1>0. SetupTypeOK /\ \A s \in SetupServers : KeysOf(s)
    BY DEF SetupInv
  <1>1. ASSUME UNCHANGED <<unminted, alive, held, setupRec, spent>>, SetupTypeOK', ~InSetup'
        PROVE  SetupInv'
    <2>1. \A s \in SetupServers : KeysAbout(s)' \subseteq KeysAbout(s)
      BY <1>1 DEF KeysAbout, RecordKeys
    <2>2. \A s \in SetupServers : KeysOf(s)'
      BY <1>0, <1>1 DEF KeysOf, RunKeyIsGood, PrevIsOld, NeverPushed, In
    <2> QED BY <1>1, <2>1, <2>2, KeysStayApart DEF SetupInv
  <1>2. ASSUME UNCHANGED <<unminted, alive, held, setupRec, spent>>, SetupTypeOK', InSetup, InSetup',
               setupRun'.stage = setupRun.stage, setupRun'.key = setupRun.key, setupRun'.prev = setupRun.prev
        PROVE  SetupInv'
    <2>1. \A s \in SetupServers : KeysAbout(s)' \subseteq KeysAbout(s)
      BY <1>2 DEF KeysAbout, RecordKeys
    <2>2. \A s \in SetupServers : KeysOf(s)'
      BY <1>0, <1>2 DEF KeysOf, RunKeyIsGood, PrevIsOld, NeverPushed, In
    <2> QED BY <1>2, <2>1, <2>2, KeysStayApart DEF SetupInv
  <1>3. ASSUME NEW unread \in SUBSET SetupServers, NEW rotate \in BOOLEAN, NEW can \in BOOLEAN,
               StartSetup(unread, rotate, can)
        PROVE  SetupInv'
    <2> DEFINE no == FALSE
               waiting == [s \in SetupServers |-> "waiting"]
               none == [s \in SetupServers |-> None]
               configured == unread \cup {s \in SetupServers : held[s] # None}
    <2>1. ~InSetup /\ setupRun' = [stage |-> waiting, prev |-> none, key |-> none,
                                   configured |-> configured, first |-> None,
                                   rotate |-> rotate, can |-> can, refused |-> no]
      BY <1>3 DEF StartSetup
    <2>2. /\ no \in BOOLEAN /\ waiting \in [SetupServers -> Stage] /\ configured \in SUBSET SetupServers
          /\ none \in [SetupServers -> KeyRecord \cup {None}] /\ none \in [SetupServers -> StoreKey]
      BY DEF Stage, StoreKey
    <2>3. \A s \in SetupServers : waiting[s] = "waiting" /\ none[s] = None
      OBVIOUS
    <2> HIDE DEF no, waiting, none, configured
    <2>4. setupRun' \in SetupRun /\ setupRun'.stage = waiting /\ setupRun'.prev = none /\ setupRun'.key = none
      BY <2>1, <2>2 DEF SetupRun
    <2>5. UNCHANGED <<unminted, alive, held, setupRec, leftovers, hand, spent>>
      BY <1>3 DEF StartSetup
    <2>6. SetupTypeOK'
      BY <1>0, <2>4, <2>5 DEF SetupTypeOK
    <2>7. \A s \in SetupServers : KeysAbout(s)' \subseteq KeysAbout(s)
      BY <2>3, <2>4, <2>5 DEF KeysAbout, RecordKeys
    <2>8. \A s \in SetupServers : KeysOf(s)'
      <3> TAKE s \in SetupServers
      <3>1. setupRun'.stage[s] = "waiting" /\ setupRun'.prev[s] = None /\ setupRun'.key[s] = None
        BY <2>3, <2>4
      <3> QED BY <1>0, <2>5, <3>1 DEF KeysOf, RunKeyIsGood, PrevIsOld, NeverPushed, In
    <2> QED BY <2>5, <2>6, <2>7, <2>8, KeysStayApart DEF SetupInv
  <1>4. CASE BeginPushes
    <2>1. PICK group \in SUBSET SetupServers : setupRun' = [setupRun EXCEPT !.first = group]
      <3>1. ReadyServers \subseteq SetupServers
        BY DEF ReadyServers
      <3>2. PICK group \in IF ReadyServers \subseteq setupRun.configured THEN {{s} : s \in ReadyServers}
                           ELSE {ReadyServers \ setupRun.configured} :
                 setupRun' = [setupRun EXCEPT !.first = group]
        BY <1>4 DEF BeginPushes
      <3>3. group \subseteq SetupServers
        <4>1. CASE ReadyServers \subseteq setupRun.configured
          BY <3>1, <3>2, <4>1
        <4>2. CASE ~(ReadyServers \subseteq setupRun.configured)
          BY <3>1, <3>2, <4>2
        <4> QED BY <4>1, <4>2
      <3> QED BY <3>2, <3>3
    <2>2. InSetup /\ setupRun \in SetupRun /\ UNCHANGED <<unminted, alive, held, setupRec, leftovers, hand, spent>>
      BY <1>0, <1>4 DEF BeginPushes, InSetup, SetupTypeOK
    <2>3. setupRun' \in SetupRun /\ setupRun'.stage = setupRun.stage /\ setupRun'.key = setupRun.key
          /\ setupRun'.prev = setupRun.prev
      BY <2>1, <2>2 DEF SetupRun
    <2>4. SetupTypeOK' /\ InSetup'
      BY <1>0, <2>2, <2>3, SetupRecords DEF SetupTypeOK, InSetup
    <2> QED BY <1>2, <2>2, <2>3, <2>4
  <1>5. CASE EndSetup
    <2>1. SetupTypeOK' /\ ~InSetup'
      BY <1>0, <1>5 DEF EndSetup, SetupTypeOK, InSetup
    <2> QED BY <1>1, <1>5, <2>1 DEF EndSetup
  <1>6. CASE SetupRestart
    <2>1. SetupTypeOK' /\ ~InSetup'
      BY <1>0, <1>6 DEF SetupRestart, SetupTypeOK, InSetup
    <2> QED BY <1>1, <1>6, <2>1 DEF SetupRestart
  <1>7. ASSUME NEW k \in StoreKeys, DismissLeftover(k) PROVE SetupInv'
    <2>1. SetupTypeOK' /\ (InSetup' <=> InSetup) /\ UNCHANGED setupRun
      BY <1>0, <1>7 DEF DismissLeftover, SetupTypeOK, InSetup
    <2>2. CASE InSetup
      BY <1>2, <1>7, <2>1, <2>2 DEF DismissLeftover
    <2>3. CASE ~InSetup
      BY <1>1, <1>7, <2>1, <2>3 DEF DismissLeftover
    <2> QED BY <2>2, <2>3
  <1> QED BY <1>3, <1>4, <1>5, <1>6, <1>7

(* One push fewer is left.                                                 *)
LEMMA CountDown ==
    ASSUME NEW m \in Nat, NEW n \in 0..m, n > 0
    PROVE  n - 1 \in 0..m
  OBVIOUS

(* What holds of a server's keys rests on these variables alone.           *)
LEMMA KeysOfStay ==
    ASSUME NEW s \in SetupServers, KeysOf(s), held'[s] = held[s],
           UNCHANGED <<alive, setupRec, setupRun, spent>>
    PROVE  KeysOf(s)'
  <1>1. (InSetup' <=> InSetup) /\ (NeverPushed(s)' <=> NeverPushed(s))
    BY DEF InSetup, NeverPushed
  <1>2. RunKeyIsGood(s)'
    BY <1>1 DEF KeysOf, RunKeyIsGood, In
  <1>3. PrevIsOld(s)'
    BY <1>1 DEF KeysOf, PrevIsOld
  <1> QED BY <1>1, <1>2, <1>3 DEF KeysOf, In

(* The by-hand form gives a server a key that is not Dash's.               *)
LEMMA HandPushStep ==
    ASSUME SetupInv, NEW s \in SetupServers, HandPush(s)
    PROVE  SetupInv'
  <1> USE DEF HandPush
  <1>0. SetupTypeOK /\ \A t \in SetupServers : KeysOf(t)
    BY DEF SetupInv
  <1>1. SetupTypeOK'
    <2>1. hand.pushed \subseteq SetupServers /\ hand.left \in 0..MaxHand /\ hand.left > 0
      BY <1>0 DEF SetupTypeOK
    <2>2. hand.pushed \cup {s} \subseteq SetupServers /\ hand.left - 1 \in 0..MaxHand
      <3>1. MaxHand \in Nat
        BY BackupSetupConstants
      <3>2. ASSUME NEW n \in 0..MaxHand, n > 0 PROVE n - 1 \in 0..MaxHand
        BY <3>1, <3>2, CountDown
      <3>3. hand.pushed \cup {s} \subseteq SetupServers
        BY <2>1
      <3> QED BY <2>1, <3>2, <3>3
    <2>3. hand' \in [pushed: SUBSET SetupServers, left: 0..MaxHand]
      BY <2>2
    <2>4. held' \in [SetupServers -> StoreKey \cup {"by hand"}]
      BY <1>0 DEF SetupTypeOK
    <2> QED BY <1>0, <2>3, <2>4 DEF SetupTypeOK
  <1>2. /\ \A t \in SetupServers : t # s => held'[t] = held[t]
        /\ held'[s] = "by hand"
    BY <1>0 DEF SetupTypeOK
  <1>3. \A t \in SetupServers : KeysAbout(t)' \subseteq KeysAbout(t)
    BY <1>2, BackupSetupConstants DEF KeysAbout, RecordKeys, InSetup
  <1>4. \A t \in SetupServers : KeysOf(t)'
    <2> TAKE t \in SetupServers
    <2>1. CASE t # s
      <3>1. held'[t] = held[t] /\ UNCHANGED <<alive, setupRec, setupRun, spent>> /\ KeysOf(t)
        BY <1>0, <1>2, <2>1
      <3> QED BY <3>1, KeysOfStay
    <2>2. CASE t = s
      <3>1. setupRec[s] # None => setupRec[s].key # "by hand"
        BY <1>0, BackupSetupConstants DEF SetupTypeOK, KeyRecord, StoreKey
      <3>2. "by hand" \notin alive
        BY <1>0, BackupSetupConstants DEF SetupTypeOK
      <3>3. InSetup /\ setupRun.prev[s] # None => "by hand" \notin ToSet(setupRun.prev[s].replaces)
        <4> SUFFICES ASSUME InSetup, setupRun.prev[s] # None PROVE "by hand" \notin ToSet(setupRun.prev[s].replaces)
          OBVIOUS
        <4>1. setupRun.prev[s] \in KeyRecord
          BY RunFacts
        <4>2. ToSet(setupRun.prev[s].replaces) \subseteq StoreKeys
          BY <4>1, ReplacingKeys
        <4> QED BY <4>2, BackupSetupConstants
      <3>4. KeysOf(s) /\ UNCHANGED <<alive, setupRec, setupRun, spent>> /\ held'[s] = "by hand"
        BY <1>0, <1>2
      <3>5. NeverPushed(s)' => setupRec'[s].key # held'[s]
        BY <3>1, <3>4 DEF NeverPushed
      <3>6. RunKeyIsGood(s)'
        BY <3>2, <3>4 DEF KeysOf, RunKeyIsGood, In, InSetup
      <3>7. PrevIsOld(s)'
        BY <3>3, <3>4 DEF KeysOf, PrevIsOld, InSetup
      <3>8. held'[s] \notin StoreKeys
        BY <3>4, BackupSetupConstants
      <3> QED BY <2>2, <3>4, <3>5, <3>6, <3>7, <3>8 DEF KeysOf, NeverPushed, In, InSetup
    <2> QED BY <2>1, <2>2
  <1> QED BY <1>1, <1>3, <1>4, KeysStayApart DEF SetupInv

(* It forgets Dash's key of a server that holds another.                   *)
LEMMA HandRecordedStep == SetupInv /\ HandRecorded => SetupInv'
  <1> SUFFICES ASSUME SetupInv, HandRecorded PROVE SetupInv'
    OBVIOUS
  <1>0. SetupTypeOK /\ \A t \in SetupServers : KeysOf(t)
    BY DEF SetupInv
  <1> DEFINE gone == {s \in hand.pushed : setupRec[s] # None}
  <1>1. /\ hand' = [hand EXCEPT !.pushed = {}]
        /\ setupRec' = [s \in SetupServers |-> IF s \in gone THEN None ELSE setupRec[s]]
        /\ leftovers' = leftovers \cup ({setupRec[s].key : s \in gone} \ {None})
        /\ UNCHANGED <<unminted, alive, held, setupRun, spent>>
    BY DEF HandRecorded
  <1>2. \A s \in gone : s \in SetupServers /\ setupRec[s] \in KeyRecord
    BY <1>0 DEF SetupTypeOK
  <1>3. leftovers' \subseteq StoreKeys
    <2>1. \A s \in gone : setupRec[s].key \in StoreKeys \cup {None}
      BY <1>2 DEF KeyRecord, StoreKey
    <2> HIDE DEF gone
    <2> QED BY <1>0, <1>1, <2>1 DEF SetupTypeOK
  <1>4. \A s \in SetupServers : setupRec'[s] = None \/ setupRec'[s] = setupRec[s]
    BY <1>1
  <1>5. SetupTypeOK'
    <2>1. hand' \in [pushed: SUBSET SetupServers, left: 0..MaxHand]
      BY <1>0, <1>1 DEF SetupTypeOK
    <2>2. setupRec' \in [SetupServers -> KeyRecord \cup {None}]
      BY <1>0, <1>1 DEF SetupTypeOK
    <2> QED BY <1>0, <1>1, <1>3, <2>1, <2>2 DEF SetupTypeOK
  <1> HIDE DEF gone
  <1>6. \A t \in SetupServers : KeysAbout(t)' \subseteq KeysAbout(t)
    BY <1>1, <1>4 DEF KeysAbout, RecordKeys, InSetup
  <1>7. \A t \in SetupServers : KeysOf(t)'
    BY <1>0, <1>1, <1>4 DEF KeysOf, RunKeyIsGood, PrevIsOld, NeverPushed, In, InSetup
  <1> QED BY <1>1, <1>5, <1>6, <1>7, KeysStayApart DEF SetupInv

(* A server is retired: what is deleted of its keys is spent.              *)
LEMMA RetireStep ==
    ASSUME SetupInv, NEW s \in SetupServers, RetireKey(s)
    PROVE  SetupInv'
  <1>0. SetupTypeOK /\ \A t \in SetupServers : KeysOf(t)
    BY DEF SetupInv
  <1> DEFINE all == Replacing(setupRec[s])
  <1>1. /\ ~InSetup /\ setupRec[s] # None /\ held' \in {held, [held EXCEPT ![s] = None]}
        /\ UNCHANGED <<unminted, leftovers, setupRun, hand>>
    BY DEF RetireKey
  <1>2. PICK gone \in SUBSET ToSet(all) :
          /\ alive' = alive \ gone
          /\ spent' = spent \cup gone
          /\ \/ setupRec' = [setupRec EXCEPT ![s] = [key |-> None, state |-> "ambiguous",
                                replaces |-> Filtered(all, ToSet(all) \ gone)]]
             \/ setupRec' = [setupRec EXCEPT ![s] = None]
    BY DEF RetireKey
  <1>3. setupRec[s] \in KeyRecord
    BY <1>0, <1>1 DEF SetupTypeOK
  <1>4. all \in Seq(StoreKeys) /\ ToSet(all) = RecordKeys(setupRec[s]) /\ RecordKeys(setupRec[s]) \subseteq StoreKeys
    BY <1>3, ReplacingKeys
  <1> HIDE DEF all
  <1> DEFINE rest == Filtered(all, ToSet(all) \ gone)
             new == [key |-> None, state |-> "ambiguous", replaces |-> rest]
  <1>5. rest \in Seq(StoreKeys) /\ ToSet(rest) \subseteq ToSet(all)
    <2>1. rest \in Seq(StoreKeys) /\ Elements(rest) = Elements(all) \cap (ToSet(all) \ gone)
      BY <1>4, FilteredHolds
    <2> HIDE DEF rest
    <2>2. ToSet(rest) = Elements(rest)
      BY <2>1 DEF ToSet, Elements
    <2> QED BY <2>1, <2>2
  <1> HIDE DEF rest
  <1>6. new \in KeyRecord /\ new # None /\ RecordKeys(new) \subseteq RecordKeys(setupRec[s])
    <2>1. new \in KeyRecord
      BY <1>5 DEF KeyRecord, StoreKey
    <2>2. new # None
      BY <2>1, SetupRecords
    <2> QED BY <1>4, <1>5, <2>1, <2>2 DEF RecordKeys
  <1>7. /\ setupRec' \in [SetupServers -> KeyRecord \cup {None}]
        /\ setupRec'[s] \in {None, new} /\ \A t \in SetupServers : t # s => setupRec'[t] = setupRec[t]
    <2>1. setupRec' = [setupRec EXCEPT ![s] = new] \/ setupRec' = [setupRec EXCEPT ![s] = None]
      BY <1>2 DEF rest
    <2> HIDE DEF new
    <2> QED BY <1>0, <1>6, <2>1 DEF SetupTypeOK
  <1>8. /\ \A t \in SetupServers : held'[t] = held[t] \/ held'[t] = None
        /\ held' \in [SetupServers -> StoreKey \cup {"by hand"}]
        /\ \A t \in SetupServers : t # s => held'[t] = held[t]
    BY <1>0, <1>1 DEF SetupTypeOK, StoreKey
  <1>9. SetupTypeOK'
    <2> HIDE DEF new
    <2>1. gone \subseteq StoreKeys
      BY <1>4
    <2>2. spent' \subseteq StoreKeys
      BY <1>0, <1>2, <2>1 DEF SetupTypeOK
    <2>3. alive' \subseteq StoreKeys \ unminted'
      BY <1>0, <1>1, <1>2 DEF SetupTypeOK
    <2> QED BY <1>0, <1>1, <1>7, <1>8, <2>2, <2>3, Zenon DEF SetupTypeOK
  <1>10. setupRec'[s] # None => setupRec'[s].state # "minted"
    BY <1>7
  <1>11. RecordKeys(setupRec'[s]) \subseteq RecordKeys(setupRec[s])
    <2>1. CASE setupRec'[s] = None
      BY <2>1 DEF RecordKeys
    <2> HIDE DEF new
    <2> QED BY <1>6, <1>7, <2>1
  <1> HIDE DEF new
  <1>12. ~InSetup'
    BY <1>1 DEF InSetup
  <1>13. ASSUME NEW t \in SetupServers PROVE KeysAbout(t)' \subseteq KeysAbout(t)
    <2>1. RecordKeys(setupRec[t])' = RecordKeys(setupRec'[t])
      BY DEF RecordKeys
    <2>2. RecordKeys(setupRec'[t]) \subseteq RecordKeys(setupRec[t])
      BY <1>7, <1>11
    <2> QED BY <1>8, <1>12, <2>1, <2>2, BackupSetupConstants DEF KeysAbout
  <1>14. ASSUME NEW t \in SetupServers PROVE KeysOf(t)'
    <2>1. NeverPushed(t)' => setupRec'[t].key # held'[t]
      <3>1. CASE t = s
        BY <1>10, <3>1 DEF NeverPushed
      <3>2. CASE t # s
        BY <1>0, <1>7, <1>8, <3>2 DEF NeverPushed, KeysOf
      <3> QED BY <3>1, <3>2
    <2>2. held'[t] \in StoreKeys \ spent' => held'[t] \in alive'
      BY <1>0, <1>2, <1>8, BackupSetupConstants DEF KeysOf
    <2> QED BY <1>12, <2>1, <2>2 DEF KeysOf, RunKeyIsGood, PrevIsOld, In
  <1> QED BY <1>1, <1>9, <1>13, <1>14, KeysStayApart DEF SetupInv

(* Every step of the setup keeps its invariant.                            *)
LEMMA SetupStep == SetupInv /\ [SetupNext]_setupVars => SetupInv'
  <1> SUFFICES ASSUME SetupInv, [SetupNext]_setupVars PROVE SetupInv'
    OBVIOUS
  <1>1. CASE UNCHANGED setupVars
    <2>1. UNCHANGED <<unminted, alive, held, setupRec, leftovers, setupRun, hand, spent>>
      BY <1>1 DEF setupVars
    <2>2. SetupTypeOK'
      BY <2>1 DEF SetupInv, SetupTypeOK
    <2>3. \A s \in SetupServers : KeysAbout(s)' \subseteq KeysAbout(s)
      BY <2>1 DEF KeysAbout, RecordKeys, InSetup
    <2>4. \A s \in SetupServers : KeysOf(s)'
      BY <2>1, KeysOfStay DEF SetupInv
    <2> QED BY <2>1, <2>2, <2>3, <2>4, KeysStayApart DEF SetupInv
  <1>2. ASSUME NEW s \in SetupServers, SetupOf(s) PROVE SetupInv'
    BY <1>2, DoneSteps, MintSteps, DropSteps, PushSteps, RetireStep, HandPushStep DEF SetupOf
  <1> QED BY <1>1, <1>2, RunSteps, HandRecordedStep DEF SetupNext

(* The facts about the storage keys that hold in every reachable state.    *)
LEMMA SetupInvariance == SetupSpec => []SetupInv
  <1>1. SetupInit => SetupInv
    <2> SUFFICES ASSUME SetupInit PROVE SetupInv
      OBVIOUS
    <2> USE DEF SetupInit
    <2>1. SetupTypeOK
      <3>1. hand \in [pushed: SUBSET SetupServers, left: 0..MaxHand]
        <4>1. MaxHand \in Nat
          BY BackupSetupConstants
        <4>2. MaxHand \in 0..MaxHand
          BY <4>1
        <4>3. {} \in SUBSET SetupServers
          OBVIOUS
        <4> QED BY <4>2, <4>3
      <3>2. held \in [SetupServers -> StoreKey \cup {"by hand"}]
        BY DEF StoreKey
      <3>3. setupRec \in [SetupServers -> KeyRecord \cup {None}]
        OBVIOUS
      <3> QED BY <3>1, <3>2, <3>3 DEF SetupTypeOK
    <2>2. ~InSetup
      BY DEF InSetup
    <2>3. \A s \in SetupServers : held[s] = None /\ setupRec[s] = None
      OBVIOUS
    <2>4. KeysApart
      BY <2>2, <2>3, BackupSetupConstants DEF KeysApart, KeysAbout, RecordKeys
    <2>5. \A s \in SetupServers : KeysOf(s)
      BY <2>2, <2>3, BackupSetupConstants DEF KeysOf, RunKeyIsGood, PrevIsOld, NeverPushed, In
    <2> QED BY <2>1, <2>4, <2>5 DEF SetupInv
  <1> QED BY <1>1, SetupStep, PTL DEF SetupSpec

(* No step of guided setup, of a retry, a rotation or the by-hand form, in *)
(* whatever order they fail and restart, deletes a key that a server uses, *)
(* unless the server is being retired (backupsetup.go).                    *)
THEOREM KeysInUseLive == SetupSpec => []HeldIsAlive
  <1>1. SetupInv => HeldIsAlive
    BY DEF SetupInv, KeysOf, HeldIsAlive
  <1> QED BY <1>1, SetupInvariance, PTL
=============================================================================
