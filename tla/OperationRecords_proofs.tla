---------------------- MODULE OperationRecords_proofs ----------------------
(***************************************************************************)
(* Proofs about the records of OperationManager: what memory and the       *)
(* record files say of one another and of the target.                      *)
(***************************************************************************)
EXTENDS OperationManager_proofs, OperationRefinement, FiniteSetTheorems

-----------------------------------------------------------------------------
(* The ways a step of a running process moves the records of an operation. *)

(* A record is saved, and what memory holds afterwards.  A settled one     *)
(* reaches memory whether or not its save succeeds.                        *)
Saves(i, r) ==
    /\ mem'[i] \in {mem[i], r} /\ disk'[i] \in {disk[i], r}
    /\ faults' = faults => mem'[i] = r /\ disk'[i] = r
    /\ IF r.st \in TerminalStatus THEN mem'[i].st = r.st ELSE r.rec = "nil"
    /\ NotApplied(r) => i \notin landed
    /\ \/ Live(i)
       \/ Fresh(i) /\ r.st = "queued" /\ (mem'[i] = r => disk'[i] = r)
       \/ mem[i].st = "interrupted" /\ r.st = "interrupted"

Moves(i) ==
    \/ mem'[i] = mem[i] /\ disk'[i] = disk[i]
    \/ \E r \in Record : Saves(i, r)
    \/ disk[i].st \in TerminalStatus /\ disk'[i] = Absence /\ mem'[i] = mem[i]
    \/ i \in sweeping /\ Terminal(i) /\ mem'[i] = Absence /\ disk'[i] = disk[i]

(* All of them move at once, and a failed save is counted.                 *)
RecordsMove ==
    /\ \A i \in OpIds : Moves(i)
    /\ faults' >= faults
    /\ RetentionOff => sweeping' = {} /\ \A i \in OpIds : disk'[i] # disk[i] => disk'[i] # Absence

(* Without retention nothing is swept.                                     *)
LEMMA NoSweepOff ==
    ASSUME RetentionOff, NEW V \in SUBSET OpIds, IsSweep(V)
    PROVE  V = {}
  <1>1. Aged = {}
    BY ConstantsAssumption DEF Aged, RetentionOff
  <1>2. Excess = 0
    BY ConstantsAssumption DEF Excess, RetentionOff
  <1> QED BY <1>1, <1>2 DEF IsSweep

(* A status a record may have is settled or not.                           *)
LEMMA StatusFacts ==
    ASSUME TypeOK, NEW i \in OpIds
    PROVE  /\ Live(i) <=> Unsettled(mem[i].st)
           /\ mem[i].st = "none" <=> mem[i] = Absence
           /\ disk[i].st = "none" <=> disk[i] = Absence
           /\ disk[i].st \in TerminalStatus \/ Unsettled(disk[i].st) \/ disk[i].st = "none"
           /\ mem[i].st \in TerminalStatus \/ Unsettled(mem[i].st) \/ mem[i].st = "none"
  <1>1. mem[i] \in Record \cup {Absence} /\ disk[i] \in Record \cup {Absence}
    BY DEF TypeOK
  <1> QED BY <1>1 DEF Live, Exists, Terminal, Unsettled, Record, Absence, Status, TerminalStatus

(* A step that writes no record is such a move.                            *)
LEMMA QuietMove ==
    ASSUME TypeOK, FilesAgree, UNCHANGED <<mem, disk, faults>>,
           sweeping' = sweeping \/ sweeping' = {}
    PROVE  RecordsMove
  BY DEF RecordsMove, Moves, FilesAgree, TypeOK

(* finishReconciled writes the outcome to memory and saves it.             *)
LEMMA FinishMove ==
    ASSUME TypeOK, IInv, FilesAgree, NEW w \in Workers, worker[w].op # None,
           NEW st \in TerminalStatus, NEW rec \in ReconcileState \cup {"nil"},
           Finish(w, st, rec),
           st = "canceled" /\ rec = "not_applied" => worker[w].op \notin landed
    PROVE  RecordsMove
  <1> DEFINE j == worker[w].op
             r == [st |-> st, rec |-> rec]
  <1>1. j \in OpIds /\ Live(j)
    BY DEF IInv, HeldWellFormed, TypeOK, WorkerState
  <1>2. r \in Record /\ r.st = st /\ r.rec = rec
    BY DEF Record, Status, TerminalStatus
  <1>3. /\ mem' = [mem EXCEPT ![j] = r] /\ SaveAdvisory(j, r)
        /\ UNCHANGED sweeping
    BY <1>1 DEF Finish
  <1>4. \A i \in OpIds : i # j => mem'[i] = mem[i] /\ disk'[i] = disk[i]
    BY <1>3 DEF SaveAdvisory, SaveOK, SaveFails, TypeOK
  <1>5. /\ mem'[j] = r /\ disk'[j] \in {disk[j], r}
        /\ faults' >= faults
        /\ faults' = faults => disk'[j] = r
    BY <1>1, <1>3 DEF SaveAdvisory, SaveOK, SaveFails, TypeOK
  <1>6. Saves(j, r)
    BY <1>1, <1>2, <1>5 DEF Saves, NotApplied
  <1>7. r # Absence
    BY <1>2 DEF Absence, TerminalStatus
  <1> QED BY <1>2, <1>3, <1>4, <1>5, <1>6, <1>7 DEF RecordsMove, Moves, FilesAgree

(* A save of a live or a fresh operation under the mutex: one record moves.*)
LEMMA SaveMove ==
    ASSUME TypeOK, FilesAgree, NEW j \in OpIds, NEW r \in Record, Saves(j, r),
           \A i \in OpIds : i # j => mem'[i] = mem[i] /\ disk'[i] = disk[i],
           faults' >= faults, UNCHANGED sweeping
    PROVE  RecordsMove
  <1>1. r # Absence
    BY DEF Record, Absence, Status
  <1>2. \A i \in OpIds : Moves(i)
    BY DEF Moves
  <1>3. \A i \in OpIds : disk'[i] # disk[i] => disk'[i] # Absence
    BY <1>1 DEF Saves
  <1> QED BY <1>2, <1>3 DEF RecordsMove, FilesAgree

(* A save, whole or failed, leaves the old record or the new one in its    *)
(* file, and no other file changes.                                        *)
LEMMA SaveEffect ==
    ASSUME TypeOK, NEW j \in OpIds, NEW r, SaveOK(j, r) \/ SaveFails(j, r)
    PROVE  /\ disk'[j] \in {disk[j], r}
           /\ \A i \in OpIds : i # j => disk'[i] = disk[i]
           /\ faults' >= faults
           /\ SaveOK(j, r) => faults' = faults /\ disk'[j] = r
           /\ SaveFails(j, r) => faults' # faults
  BY DEF SaveOK, SaveFails, TypeOK

(* An admission writes one queued record.                                  *)
LEMMA AdmitMove ==
    ASSUME TypeOK, IInv, FilesAgree, NEW c \in Clients, NEW j \in OpIds, Admit(c, j)
    PROVE  RecordsMove
  <1> DEFINE r == [st |-> "queued", rec |-> "nil"]
  <1>1. r \in Record /\ r.st \notin TerminalStatus /\ r.rec = "nil" /\ r.st = "queued"
    BY DEF Record, Status, TerminalStatus
  <1>2. Fresh(j) /\ UNCHANGED sweeping
    BY DEF Admit
  <1>3. \/ SaveOK(j, r) /\ mem' = [mem EXCEPT ![j] = r]
        \/ SaveFails(j, r) /\ mem' = mem
    BY DEF Admit
  <1>4. \A i \in OpIds : i # j => mem'[i] = mem[i] /\ disk'[i] = disk[i]
    BY <1>3, SaveEffect DEF TypeOK
  <1>5. mem[j] # r
    BY <1>2 DEF IInv, KnownIds, Exists
  <1>6. Saves(j, r)
    BY <1>1, <1>2, <1>3, <1>5, SaveEffect DEF Saves, NotApplied, TypeOK
  <1>7. faults' >= faults
    BY <1>3, SaveEffect
  <1> HIDE DEF r
  <1> QED BY <1>1, <1>2, <1>4, <1>6, <1>7, SaveMove

(* A worker that starts its operation writes it as running.                *)
LEMMA SetRunningMove ==
    ASSUME TypeOK, IInv, FilesAgree, NEW w \in Workers, SetRunning(w)
    PROVE  RecordsMove
  <1> DEFINE j == worker[w].op
             r == [st |-> "running", rec |-> "nil"]
  <1>1. r \in Record /\ r.st \notin TerminalStatus /\ r.rec = "nil" /\ r.st = "running"
    BY DEF Record, Status, TerminalStatus
  <1>2. worker[w].pc = "start" /\ j # None /\ j \in OpIds /\ Live(j)
    BY HeldFacts DEF SetRunning, At
  <1>3. CASE mem[j].st = "cancel_requested"
    BY <1>2, <1>3, FinishMove DEF SetRunning, TerminalStatus
  <1>4. CASE mem[j].st = "queued"
    <2>1. /\ mem' = [mem EXCEPT ![j] = r] /\ UNCHANGED sweeping
          /\ SaveOK(j, r) \/ SaveFails(j, r)
      BY <1>4 DEF SetRunning
    <2>2. \A i \in OpIds : i # j => mem'[i] = mem[i] /\ disk'[i] = disk[i]
      BY <1>2, <2>1, SaveEffect DEF TypeOK
    <2>3. Saves(j, r)
      BY <1>1, <1>2, <2>1, SaveEffect DEF Saves, NotApplied, TypeOK
    <2>4. faults' >= faults
      BY <1>2, <2>1, SaveEffect
    <2> HIDE DEF r
    <2> QED BY <1>1, <1>2, <2>1, <2>2, <2>3, <2>4, SaveMove
  <1>5. CASE mem[j].st \notin {"queued", "cancel_requested"}
    BY <1>5, QuietMove DEF SetRunning
  <1> QED BY <1>3, <1>4, <1>5

(* A worker whose command is being canceled writes it as stopping.         *)
LEMMA StoppingMove ==
    ASSUME TypeOK, IInv, FilesAgree, NEW w \in Workers, AfterExec(w)
    PROVE  RecordsMove
  <1> DEFINE j == worker[w].op
             r == [st |-> "stopping", rec |-> "nil"]
  <1>1. r \in Record /\ r.st \notin TerminalStatus /\ r.rec = "nil" /\ r.st = "stopping"
    BY DEF Record, Status, TerminalStatus
  <1>2. worker[w].pc = "returned" /\ j # None /\ j \in OpIds /\ Live(j)
    BY HeldFacts DEF AfterExec, At
  <1>3. CASE j \in ctxDone
    <2>1. /\ mem' = [mem EXCEPT ![j] = r] /\ UNCHANGED sweeping
          /\ SaveOK(j, r) \/ SaveFails(j, r)
      BY <1>3 DEF AfterExec, SaveAdvisory
    <2>2. \A i \in OpIds : i # j => mem'[i] = mem[i] /\ disk'[i] = disk[i]
      BY <1>2, <2>1, SaveEffect DEF TypeOK
    <2>3. Saves(j, r)
      BY <1>1, <1>2, <2>1, SaveEffect DEF Saves, NotApplied, TypeOK
    <2>4. faults' >= faults
      BY <1>2, <2>1, SaveEffect
    <2> HIDE DEF r
    <2> QED BY <1>1, <1>2, <2>1, <2>2, <2>3, <2>4, SaveMove
  <1>4. CASE j \notin ctxDone
    BY <1>4, QuietMove DEF AfterExec, StepOnly, recordVars, boundVars
  <1> QED BY <1>3, <1>4

(* A cancel request writes the live operation as cancel_requested.         *)
LEMMA CancelMove ==
    ASSUME TypeOK, FilesFollow, FilesAgree, NEW j \in OpIds, Cancel(j)
    PROVE  RecordsMove
  <1> DEFINE r == [mem[j] EXCEPT !.st = "cancel_requested"]
  <1>1. Live(j) /\ mem[j] \in Record /\ mem[j].rec = "nil"
    BY DEF Cancel, Cancelable, FilesFollow, TypeOK, Live, Exists, Absence
  <1>2. r \in Record /\ r.st = "cancel_requested" /\ r.rec = "nil"
    BY <1>1 DEF Record, Status
  <1>3. UNCHANGED sweeping
    BY DEF Cancel
  <1>4. \/ SaveOK(j, r) /\ mem' = [mem EXCEPT ![j] = r]
        \/ SaveFails(j, r) /\ mem' = mem
    BY DEF Cancel
  <1> HIDE DEF r
  <1>5. \A i \in OpIds : i # j => mem'[i] = mem[i] /\ disk'[i] = disk[i]
    BY <1>4, SaveEffect DEF TypeOK
  <1>6. faults' >= faults
    BY <1>4, SaveEffect
  <1>7. r.st \notin TerminalStatus
    BY <1>2 DEF TerminalStatus
  <1>8. Saves(j, r)
    BY <1>1, <1>2, <1>4, <1>7, SaveEffect DEF Saves, NotApplied, TypeOK
  <1> QED BY <1>2, <1>3, <1>5, <1>6, <1>8, SaveMove

(* A reconciliation adds its answer to a record that had none.             *)
LEMMA ReconcileMove ==
    ASSUME TypeOK, FilesAgree, ReconcileRecord
    PROVE  RecordsMove
  <1> DEFINE j == recon.op
             r == [mem[j] EXCEPT !.rec = recon.answer]
  <1>0. recon # None /\ j \in OpIds /\ recon.answer \in ReconcileState /\ UNCHANGED sweeping
    BY DEF ReconcileRecord, TypeOK
  <1>1. CASE ~Recordable(recon)
    BY <1>0, <1>1, QuietMove DEF ReconcileRecord
  <1>2. CASE Recordable(recon)
    <2>1. mem[j] \in Record /\ mem[j].st = "interrupted"
      BY <1>0, <1>2 DEF Recordable, Reconciling, TypeOK, Absence
    <2>2. r \in Record /\ r.st = "interrupted"
      BY <1>0, <2>1 DEF Record
    <2>3. \/ SaveOK(j, r) /\ mem' = [mem EXCEPT ![j] = r]
          \/ SaveFails(j, r) /\ mem' = mem
      BY <1>2 DEF ReconcileRecord
    <2> HIDE DEF r
    <2>4. \A i \in OpIds : i # j => mem'[i] = mem[i] /\ disk'[i] = disk[i]
      BY <1>0, <2>3, SaveEffect DEF TypeOK
    <2>5. faults' >= faults
      BY <1>0, <2>3, SaveEffect
    <2>6. Saves(j, r)
      BY <1>0, <2>1, <2>2, <2>3, SaveEffect DEF Saves, NotApplied, TypeOK, TerminalStatus
    <2> QED BY <1>0, <2>2, <2>4, <2>5, <2>6, SaveMove
  <1> QED BY <1>1, <1>2

(* The retention sweep removes files and forgets nothing in memory yet.    *)
LEMMA SweepMove ==
    ASSUME TypeOK, FilesAgree, Sweep
    PROVE  RecordsMove
  <1>1. PICK V \in SUBSET OpIds :
            /\ V # {} /\ IsSweep(V)
            /\ disk' = [i \in OpIds |-> IF i \in V THEN Absence ELSE disk[i]]
    BY DEF Sweep
  <1>2. V \subseteq DiskTerminal
    BY <1>1 DEF IsSweep, Aged
  <1>3. ~RetentionOff
    BY <1>1, NoSweepOff
  <1>4. UNCHANGED <<mem, faults>>
    BY DEF Sweep, boundVars
  <1>5. \A i \in OpIds : Moves(i)
    BY <1>1, <1>2, <1>4 DEF Moves, DiskTerminal
  <1> QED BY <1>3, <1>4, <1>5 DEF RecordsMove, TypeOK

(* Retiring forgets in memory the swept records that are terminal.         *)
LEMMA RetireMove ==
    ASSUME TypeOK, Retire
    PROVE  RecordsMove
  <1>1. /\ mem' = [i \in OpIds |-> IF i \in sweeping /\ Terminal(i) THEN Absence ELSE mem[i]]
        /\ UNCHANGED <<disk, faults>> /\ sweeping' = {}
    BY DEF Retire, boundVars
  <1> QED BY <1>1 DEF RecordsMove, Moves, TypeOK

(* The steps between a start of the process and its end.                   *)
ProcessTurns == Exit \/ Crash \/ Restart \/ RestartFails

(* Every step but those that start or end the process moves records so.    *)
LEMMA StepMoves ==
    ASSUME TypeOK, IInv, RInv, Next, ~ProcessTurns
    PROVE  RecordsMove
  <1> USE DEF recordVars, execVars, cancelVars, reconVars, targetVars, histVars, boundVars
  <1>0. FilesFollow /\ FilesAgree /\ EffectsStand
    BY DEF RInv
  <1>1. ASSUME NEW c \in Clients, NEW r \in Requests, NEW p \in Principals,
               NEW k \in Keys \cup {None},
               Enqueue(c, [req |-> r, principal |-> p, key |-> k, retryOf |-> None])
        PROVE  RecordsMove
    BY <1>0, <1>1, QuietMove DEF Enqueue
  <1>2. ASSUME NEW c \in Clients, NEW i \in OpIds, NEW p \in Principals, Retry(c, i, p)
        PROVE  RecordsMove
    BY <1>0, <1>2, QuietMove DEF Retry
  <1>3. ASSUME NEW c \in Clients, Refuse(c) PROVE RecordsMove
    BY <1>0, <1>3, QuietMove DEF Refuse
  <1>4. ASSUME NEW c \in Clients, NEW i \in OpIds, Admit(c, i) PROVE RecordsMove
    BY <1>0, <1>4, AdmitMove
  <1>5. ASSUME NEW w \in Workers, Pop(w) \/ Drain(w) \/ ExecReturn(w) \/ ReadReceipt(w) \/ EffectLands(w)
        PROVE  RecordsMove
    BY <1>0, <1>5, QuietMove DEF Pop, Drain, ExecReturn, ReadReceipt, EffectLands
  <1>6. ASSUME NEW w \in Workers,
               CheckContext(w) \/ AcquireSlot(w) \/ CheckTarget(w) \/ FailUnsaved(w)
        PROVE  RecordsMove
    <2>1. worker[w].op # None
      BY <1>6, HeldFacts DEF CheckContext, AcquireSlot, CheckTarget, FailUnsaved, At
    <2>2. \/ \E pc \in {"slot", "check", "start"} : StepOnly(w, pc)
          \/ \E st \in {"canceled", "failed"} : Finish(w, st, "nil")
      BY <1>6 DEF CheckContext, AcquireSlot, CheckTarget, FailUnsaved
    <2>3. CASE \E pc \in {"slot", "check", "start"} : StepOnly(w, pc)
      BY <1>0, <2>3, QuietMove DEF StepOnly
    <2>4. CASE \E st \in {"canceled", "failed"} : Finish(w, st, "nil")
      BY <1>0, <2>1, <2>4, FinishMove DEF TerminalStatus
    <2> QED BY <2>2, <2>3, <2>4
  <1>7. ASSUME NEW w \in Workers, FinishDecided(w) PROVE RecordsMove
    <2>1. worker[w].op # None /\ worker[w].out \in {"succeeded", "failed"}
      BY <1>7, HeldFacts DEF FinishDecided, At, IInv, WorkersWellFormed
    <2> QED BY <1>0, <1>7, <2>1, FinishMove DEF FinishDecided, TerminalStatus
  <1>8. ASSUME NEW w \in Workers, FinishCanceled(w) PROVE RecordsMove
    <2>1. /\ worker[w].op # None /\ worker[w].out \in ReconcileState
          /\ worker[w].pc = "answered"
      BY <1>8, HeldFacts DEF FinishCanceled, At, IInv, WorkersWellFormed
    <2>2. worker[w].out = "not_applied" => worker[w].op \notin landed
      BY <1>0, <2>1 DEF EffectsStand
    <2> QED BY <1>0, <1>8, <2>1, <2>2, FinishMove DEF FinishCanceled, TerminalStatus
  <1>9. ASSUME NEW w \in Workers, SetRunning(w) \/ AfterExec(w) PROVE RecordsMove
    BY <1>0, <1>9, SetRunningMove, StoppingMove
  <1>10. ASSUME NEW i \in OpIds, Cancel(i) PROVE RecordsMove
    BY <1>0, <1>10, CancelMove
  <1>11. ASSUME NEW i \in OpIds, FireCancel(i) \/ ReconcileRead(i) PROVE RecordsMove
    BY <1>0, <1>11, QuietMove DEF FireCancel, ReconcileRead
  <1>12. CASE ReconcileRecord
    BY <1>0, <1>12, ReconcileMove
  <1>13. CASE ReconcileAbandon \/ Seal \/ ForceCancel \/ Tick
    BY <1>0, <1>13, QuietMove DEF ReconcileAbandon, Seal, ForceCancel, Tick
  <1>14. CASE Sweep \/ Retire
    BY <1>0, <1>14, SweepMove, RetireMove
  <1> QED
    BY <1>1, <1>2, <1>3, <1>4, <1>5, <1>6, <1>7, <1>8, <1>9, <1>10, <1>11, <1>12,
       <1>13, <1>14 DEF Next, WorkerStep, ProcessTurns

(* They do not stop or start it.                                           *)
LEMMA StepKeepsProcess ==
    ASSUME Next, ~ProcessTurns
    PROVE  phase' = "down" <=> phase = "down"
  <1>1. phase' = phase \/ Seal \/ ForceCancel
    BY ZenonT(40) DEF Next, ProcessTurns, WorkerStep, Enqueue, Retry, Refuse, Admit, Pop, Drain,
       CheckContext, AcquireSlot, CheckTarget, SetRunning, FailUnsaved, EffectLands, ExecReturn,
       AfterExec, FinishDecided, ReadReceipt, FinishCanceled, Finish, StepOnly, Cancel,
       FireCancel, ReconcileRead, ReconcileRecord, ReconcileAbandon, Sweep, Retire, Tick
  <1> QED BY <1>1 DEF Seal, ForceCancel

-----------------------------------------------------------------------------
(* What the files say of memory.                                           *)

LEMMA FilesFollowStep ==
    ASSUME TypeOK, TypeOK', IInv, FilesFollow, RecordsMove
    PROVE  FilesFollow'
  <1> SUFFICES ASSUME NEW i \in OpIds
               PROVE  /\ disk'[i].st \in TerminalStatus => mem'[i].st \in {disk'[i].st, "none"}
                      /\ Live(i)' => Unsettled(disk'[i].st) /\ mem'[i].rec = "nil"
                      /\ Unsettled(disk'[i].st) => disk'[i].rec = "nil"
    BY DEF FilesFollow
  <1>1. /\ disk[i].st \in TerminalStatus => mem[i].st \in {disk[i].st, "none"}
        /\ Live(i) => Unsettled(disk[i].st) /\ mem[i].rec = "nil"
        /\ Unsettled(disk[i].st) => disk[i].rec = "nil"
    BY DEF FilesFollow
  <1>2. Live(i)' <=> Unsettled(mem'[i].st)
    <2>1. mem'[i] \in Record \cup {Absence}
      BY DEF TypeOK
    <2> QED BY <2>1 DEF Live, Exists, Terminal, Unsettled, Record, Absence, Status, TerminalStatus
  <1>3. \A st : ~(st \in TerminalStatus /\ Unsettled(st))
    BY DEF Unsettled
  <1>4. /\ Live(i) <=> Unsettled(mem[i].st)
        /\ Absence.st \notin TerminalStatus /\ ~Unsettled(Absence.st) /\ Absence.st = "none"
        /\ ~Unsettled("none") /\ ~Unsettled("interrupted") /\ "interrupted" \in TerminalStatus
        /\ "none" \notin TerminalStatus /\ Unsettled("queued")
    BY StatusFacts DEF Absence, Unsettled, TerminalStatus, Status
  <1>5. \A r \in Record : r.st \in TerminalStatus \/ Unsettled(r.st)
    BY DEF Record, Unsettled
  <1>6. Fresh(i) => mem[i].st = "none" /\ disk[i].st = "none"
    BY DEF IInv, KnownIds, Exists
  <1>7. Moves(i)
    BY DEF RecordsMove
  <1>8. CASE mem'[i] = mem[i] /\ disk'[i] = disk[i]
    BY <1>1, <1>2, <1>4, <1>8
  <1>9. ASSUME NEW r \in Record, Saves(i, r)
        PROVE  /\ disk'[i].st \in TerminalStatus => mem'[i].st \in {disk'[i].st, "none"}
               /\ Live(i)' => Unsettled(disk'[i].st) /\ mem'[i].rec = "nil"
               /\ Unsettled(disk'[i].st) => disk'[i].rec = "nil"
    <2> USE <1>1, <1>2, <1>3, <1>4, <1>5, <1>9 DEF Saves
    <2>1. CASE Live(i)
      BY <2>1
    <2>2. CASE Fresh(i) /\ r.st = "queued" /\ (mem'[i] = r => disk'[i] = r)
      BY <2>2, <1>6
    <2>3. CASE mem[i].st = "interrupted" /\ r.st = "interrupted"
      BY <2>3
    <2> QED BY <2>1, <2>2, <2>3
  <1>10. CASE disk[i].st \in TerminalStatus /\ disk'[i] = Absence /\ mem'[i] = mem[i]
    BY <1>1, <1>2, <1>3, <1>4, <1>10
  <1>11. CASE Terminal(i) /\ mem'[i] = Absence /\ disk'[i] = disk[i]
    BY <1>1, <1>2, <1>4, <1>11
  <1> QED BY <1>7, <1>8, <1>9, <1>10, <1>11 DEF Moves

(* Every such move keeps files and memory in agreement.                    *)
LEMMA FilesAgreeStep ==
    ASSUME TypeOK, TypeOK', IInv, FilesFollow, FilesAgree, RecordsMove,
           phase' = "down" <=> phase = "down"
    PROVE  FilesAgree'
  <1>1. RetentionOff => sweeping' = {}
    BY DEF RecordsMove
  <1>2. ASSUME faults' = 0, phase # "down"
        PROVE  faults = 0 /\ \A i \in OpIds : faults' = faults /\ Moves(i)
    BY <1>2 DEF RecordsMove, TypeOK
  <1>3. ASSUME faults' = 0, phase' # "down", NEW i \in OpIds, Unsettled(disk'[i].st)
        PROVE  Live(i)'
    <2>1. faults' = faults /\ Moves(i) /\ (Unsettled(disk[i].st) => Live(i))
      BY <1>2, <1>3 DEF FilesAgree
    <2>2. /\ Live(i) <=> Unsettled(mem[i].st)
          /\ ~Unsettled("none") /\ Absence.st = "none"
          /\ \A st : ~(st \in TerminalStatus /\ Unsettled(st))
      BY StatusFacts DEF Absence, Unsettled, TerminalStatus, Status
    <2>3. Live(i)' <=> Unsettled(mem'[i].st)
      <3>1. mem'[i] \in Record \cup {Absence}
        BY DEF TypeOK
      <3> QED BY <3>1 DEF Live, Exists, Terminal, Unsettled, Record, Absence, Status, TerminalStatus
    <2>4. CASE mem'[i] = mem[i] /\ disk'[i] = disk[i]
      BY <1>3, <2>1, <2>2, <2>3, <2>4
    <2>5. CASE \E r \in Record : Saves(i, r)
      BY <1>3, <2>1, <2>3, <2>5 DEF Saves
    <2>6. CASE disk'[i] = Absence
      BY <1>3, <2>2, <2>6
    <2>7. CASE Terminal(i) /\ mem'[i] = Absence /\ disk'[i] = disk[i]
      BY <1>3, <2>1, <2>2, <2>7 DEF Terminal
    <2> QED BY <2>1, <2>4, <2>5, <2>6, <2>7 DEF Moves
  <1>4. ASSUME RetentionOff, faults' = 0, phase' # "down"
        PROVE  mem' = disk'
    <2>1. mem = disk /\ faults' = faults /\ sweeping = {}
      BY <1>2, <1>4 DEF FilesAgree
    <2>2. ASSUME NEW i \in OpIds PROVE mem'[i] = disk'[i]
      <3>1. Moves(i) /\ (disk'[i] # disk[i] => disk'[i] # Absence)
        BY <1>4 DEF RecordsMove
      <3>2. disk[i].st \in TerminalStatus => disk[i] # Absence
        BY DEF Absence, TerminalStatus
      <3> QED BY <2>1, <3>1, <3>2 DEF Moves, Saves
    <2> QED BY <2>2 DEF TypeOK
  <1> QED BY <1>1, <1>3, <1>4 DEF FilesAgree

(* recover turns what is unsettled into a settled record, says nothing of  *)
(* a receipt and leaves what is settled alone.                             *)
LEMMA RecoveredFacts ==
    ASSUME NEW r \in Record \cup {Absence}, Unsettled(r.st) => r.rec = "nil"
    PROVE  /\ ~Unsettled(Recovered(r).st)
           /\ r.st \in TerminalStatus => Recovered(r) = r
           /\ NotApplied(Recovered(r)) => NotApplied(r)
           /\ r = Absence => Recovered(r) = Absence
  <1> USE DEF Recovered, Unsettled, Absence, Status, TerminalStatus, NotApplied
  <1>1. CASE r = Absence
    BY <1>1
  <1>2. CASE r \in Record
    <2>1. CASE r.st \in {"queued", "running", "stopping"}
      BY <2>1
    <2>2. CASE r.st = "cancel_requested"
      <3>1. Recovered(r).st = "canceled" /\ Recovered(r).rec = "nil"
        BY <1>2, <2>2 DEF Record
      <3> QED BY <2>2, <3>1
    <2>3. CASE r.st \in TerminalStatus
      BY <2>3
    <2> QED BY <1>2, <2>1, <2>2, <2>3 DEF Record
  <1> QED BY <1>1, <1>2

(* The end of a process, and a start of one that fails or not.             *)
LEMMA TurnFiles ==
    ASSUME TypeOK, TypeOK', IInv, FilesFollow, FilesAgree, ProcessTurns
    PROVE  /\ FilesFollow' /\ FilesAgree'
           /\ \A i \in OpIds : /\ NotApplied(mem'[i]) => NotApplied(mem[i]) \/ NotApplied(disk[i])
                               /\ NotApplied(disk'[i]) => NotApplied(disk[i])
  <1>0. /\ \A i \in OpIds : /\ disk[i] \in Record \cup {Absence}
                            /\ disk'[i] \in Record \cup {Absence}
                            /\ Unsettled(disk[i].st) => disk[i].rec = "nil"
        /\ Absence.st \notin TerminalStatus /\ ~Unsettled(Absence.st) /\ Absence.st = "none"
        /\ ~NotApplied(Absence)
    BY DEF FilesFollow, TypeOK, Absence, TerminalStatus, Unsettled, Status, NotApplied
  <1>1. CASE LoseMemory
    <2>1. /\ \A i \in OpIds : mem'[i] = Absence /\ disk'[i] = disk[i]
          /\ phase' = "down" /\ sweeping' = {}
      BY <1>1 DEF LoseMemory
    <2>2. \A i \in OpIds : ~Live(i)'
      BY <2>1 DEF Live, Exists, Absence
    <2> QED BY <1>0, <2>1, <2>2 DEF FilesFollow, FilesAgree
  <1>2. CASE Restart
    <2>1. /\ mem' = disk' /\ faults' = faults /\ sweeping' = sweeping
          /\ \A i \in OpIds : disk'[i] = Absence \/ disk'[i] = Recovered(disk[i])
      BY <1>2 DEF Restart, boundVars
    <2>2. \A i \in OpIds : ~Unsettled(disk'[i].st)
      BY <1>0, <2>1, RecoveredFacts
    <2>3. \A i \in OpIds : ~Live(i)'
      <3>1. \A i \in OpIds : mem'[i] \in Record \cup {Absence} /\ ~Unsettled(mem'[i].st)
        BY <2>1, <2>2, <1>0
      <3> QED BY <3>1 DEF Live, Exists, Terminal, Unsettled, Record, Absence, Status
    <2>4. \A i \in OpIds : NotApplied(disk'[i]) => NotApplied(disk[i])
      BY <1>0, <2>1, RecoveredFacts
    <2> QED BY <2>1, <2>2, <2>3, <2>4 DEF FilesFollow, FilesAgree
  <1>3. CASE RestartFails
    <2>1. /\ mem' = mem /\ faults' = faults + 1 /\ sweeping' = sweeping
          /\ phase = "down" /\ phase' = phase
          /\ \A i \in OpIds : \/ disk'[i] = Absence \/ disk'[i] = disk[i]
                              \/ disk'[i] = Recovered(disk[i])
      BY <1>3 DEF RestartFails
    <2>2. \A i \in OpIds : mem'[i] = mem[i] /\ mem'[i].st = "none" /\ ~Live(i)'
      BY <2>1 DEF IInv, NothingStranded, Exists, Live
    <2>3. \A i \in OpIds : Unsettled(disk'[i].st) => disk'[i].rec = "nil"
      BY <1>0, <2>1, RecoveredFacts
    <2>4. \A i \in OpIds : NotApplied(disk'[i]) => NotApplied(disk[i])
      BY <1>0, <2>1, RecoveredFacts
    <2> QED BY <2>1, <2>2, <2>3, <2>4 DEF FilesFollow, FilesAgree
  <1> QED BY <1>1, <1>2, <1>3 DEF ProcessTurns, Exit, Crash

-----------------------------------------------------------------------------
(* What the target says of a held operation.                               *)

(* A step that moves no goroutine into or along the execution of a command *)
(* leaves what they know of their targets alone.                           *)
LEMMA EffectsQuiet ==
    ASSUME TypeOK, IInv, EffectsStand, UNCHANGED <<installed, landed, starts>>,
           \A i \in OpIds : ~Fresh(i) => attr'[i] = attr[i],
           \A v \in Workers : worker'[v] = worker[v] \/ worker'[v].pc \notin AfterStart
    PROVE  EffectsStand'
  <1> SUFFICES ASSUME NEW v \in Workers, worker'[v].pc \in AfterStart
               PROVE  EffectsStand!(v)'
    BY DEF EffectsStand, AfterStart
  <1>1. worker'[v] = worker[v]
    OBVIOUS
  <1>2. worker[v].op \in OpIds /\ ~Fresh(worker[v].op)
    BY <1>1, HeldFacts DEF AfterStart, IInv, HeldWellFormed
  <1> QED BY <1>1, <1>2 DEF EffectsStand, EffectOf

(* Settling an operation takes its worker out of the command, so nothing   *)
(* more can land from it.                                                  *)
LEMMA FinishEffects ==
    ASSUME TypeOK, IInv, EffectsStand, NEW w \in Workers, NEW st, NEW rec, Finish(w, st, rec)
    PROVE  EffectsStand'
  <1>1. \A v \in Workers : worker'[v] = worker[v] \/ worker'[v].pc \notin AfterStart
    BY DEF Finish, Looping, AfterStart, TypeOK
  <1>2. UNCHANGED <<installed, landed, starts, attr>>
    BY DEF Finish, targetVars
  <1> QED BY <1>1, <1>2, EffectsQuiet

(* A worker that moves on before its command has no effect yet.            *)
LEMMA StepOnlyEffects ==
    ASSUME TypeOK, IInv, EffectsStand, NEW w \in Workers,
           NEW pc \in {"slot", "check", "start"}, StepOnly(w, pc)
    PROVE  EffectsStand'
  <1>1. \A v \in Workers : worker'[v] = worker[v] \/ worker'[v].pc \notin AfterStart
    BY DEF StepOnly, GoTo, AfterStart, TypeOK, WorkerState
  <1>2. UNCHANGED <<installed, landed, starts, attr>>
    BY DEF StepOnly, targetVars, recordVars
  <1> QED BY <1>1, <1>2, EffectsQuiet

(* A step of one goroutine within its command: the others are elsewhere.   *)
LEMMA EffectsAlong ==
    ASSUME TypeOK, IInv, EffectsStand, NEW w \in Workers, NEW pc \in AfterStart, NEW out,
           worker' = [worker EXCEPT ![w].pc = pc, ![w].out = out],
           worker[w].pc \in AfterStart \ {"answered"},
           pc = "answered" /\ out = "not_applied" => worker[w].op \notin landed,
           UNCHANGED <<installed, landed, starts, attr>>
    PROVE  EffectsStand'
  <1>1. \A v \in Workers : v # w => worker'[v] = worker[v]
    BY DEF TypeOK
  <1>2. worker'[w].pc = pc /\ worker'[w].out = out /\ worker'[w].op = worker[w].op
        /\ worker'[w].target = worker[w].target
    BY DEF TypeOK, WorkerState
  <1> SUFFICES ASSUME NEW v \in Workers PROVE EffectsStand!(v)'
    BY DEF EffectsStand
  <1>3. CASE v = w
    BY <1>2, <1>3 DEF EffectsStand, EffectOf
  <1>4. CASE v # w
    <2>1. EffectsStand!(v) /\ worker'[v] = worker[v]
      BY <1>1, <1>4 DEF EffectsStand
    <2>2. UNCHANGED <<installed, landed, starts, attr>>
      OBVIOUS
    <2> QED BY ONLY <2>1, <2>2 DEF EffectOf
  <1> QED BY <1>3, <1>4

(* The effect lands on the target of the one goroutine that serves it.     *)
LEMMA LandingEffects ==
    ASSUME TypeOK, IInv, RInv, NEW w \in Workers, EffectLands(w)
    PROVE  EffectsStand' /\ ReceiptsHonest'
  <1> DEFINE j == worker[w].op
             t == worker[w].target
  <1>0. EffectsStand /\ ReceiptsHonest /\ FilesFollow
    BY DEF RInv
  <1>1. /\ worker[w].pc = "exec" /\ j \in OpIds /\ j # None /\ Live(j) /\ TargetOf(j) = t
        /\ starts[j] > 0 /\ t \in Targets
    BY <1>0, HeldFacts DEF EffectLands, At, IInv, HeldWellFormed, WorkersWellFormed, EffectsStand,
                           AfterStart
  <1>2. /\ landed' = landed \cup {j}
        /\ installed' = [installed EXCEPT ![t] = EffectOf(attr[j].req, @)]
        /\ UNCHANGED <<worker, attr, starts, mem, disk>>
    BY <1>1 DEF EffectLands, execVars, recordVars
  <1>3. \A v \in Workers : v # w => worker[v].op # j /\ worker[v].target # t
    BY <1>1, HeldApart DEF IInv, RunnersWellFormed
  <1>4. installed'[t] = EffectOf(attr[j].req, installed'[t])
    BY <1>1, <1>2 DEF TypeOK, EffectOf
  <1>5. EffectsStand'
    <2> SUFFICES ASSUME NEW v \in Workers PROVE EffectsStand!(v)'
      BY DEF EffectsStand
    <2>1. CASE v = w
      BY <1>1, <1>2, <1>4, <2>1 DEF AfterStart
    <2>2. CASE v # w
      <3>1. worker[v].op # j /\ worker[v].target # t
        BY <1>3, <2>2
      <3>2. installed'[worker[v].target] = installed[worker[v].target]
        BY <1>2, <3>1 DEF TypeOK
      <3> QED BY <1>0, <1>2, <3>1, <3>2 DEF EffectsStand
    <2> QED BY <2>1, <2>2
  <1>6. ~NotApplied(mem[j]) /\ ~NotApplied(disk[j])
    BY <1>0, <1>1 DEF FilesFollow, NotApplied, Live, Terminal, TerminalStatus, Unsettled
  <1>7. ReceiptsHonest'
    BY <1>0, <1>1, <1>2, <1>6 DEF ReceiptsHonest
  <1> QED BY <1>5, <1>7

(* A receipt that finds the effect missing is right: what landed would     *)
(* still be there.                                                         *)
LEMMA ReceiptEffects ==
    ASSUME TypeOK, IInv, EffectsStand, NEW w \in Workers, ReadReceipt(w)
    PROVE  EffectsStand'
  <1> DEFINE j == worker[w].op
  <1>1. /\ worker[w].pc = "receipt" /\ j \in OpIds /\ TargetOf(j) = worker[w].target
        /\ attr[j] \in Attr
    BY HeldFacts DEF ReadReceipt, At, IInv, HeldWellFormed, TypeOK, Fresh
  <1>2. PICK a \in IF phase = "forced" THEN {"manual"}
                   ELSE ReceiptAnswers(attr[j].req, installed[TargetOf(j)]) :
            worker' = [worker EXCEPT ![w].pc = "answered", ![w].out = a]
    BY DEF ReadReceipt
  <1>3. attr[j].req \in Requests
    BY <1>1 DEF Attr
  <1>4. ASSUME a = "not_applied", j \in landed PROVE FALSE
    <2>1. installed[TargetOf(j)] = EffectOf(attr[j].req, installed[TargetOf(j)])
      BY <1>1, <1>4 DEF EffectsStand, AfterStart
    <2>2. /\ attr[j].req.kind \in {"deploy", "remove", "other"}
          /\ attr[j].req.image \in Images \cup {None}
      BY <1>3, ConstantsAssumption
    <2>3. a \in ReceiptAnswers(attr[j].req, installed[TargetOf(j)])
      BY <1>2, <1>4
    <2>4. None # Absent /\ Absent \notin Images
      BY ConstantsAssumption
    <2> QED BY <1>4, <2>1, <2>2, <2>3, <2>4 DEF ReceiptAnswers, EffectOf
  <1>5. UNCHANGED <<installed, landed, starts, attr>>
    BY DEF ReadReceipt, targetVars, recordVars
  <1>6. "answered" \in AfterStart /\ "receipt" \in AfterStart \ {"answered"}
    BY DEF AfterStart
  <1> QED BY <1>1, <1>2, <1>4, <1>5, <1>6, EffectsAlong

(* Starting is what allows an effect; it counts a start and lands nothing. *)
LEMMA SetRunningEffects ==
    ASSUME TypeOK, IInv, EffectsStand, ReceiptsHonest, NEW w \in Workers, SetRunning(w)
    PROVE  EffectsStand' /\ landed' = landed /\ \A i \in OpIds : starts'[i] >= starts[i]
  <1> DEFINE j == worker[w].op
  <1>1. worker[w].pc = "start" /\ j \in OpIds /\ starts[j] = 0
    BY HeldFacts DEF SetRunning, At, BeforeStart
  <1>2. j \notin landed
    BY <1>1 DEF ReceiptsHonest
  <1>3. CASE mem[j].st = "cancel_requested"
    <2>1. Finish(w, "canceled", "nil")
      BY <1>3 DEF SetRunning
    <2>2. starts' = starts /\ landed' = landed
      BY <2>1 DEF Finish, targetVars
    <2> QED BY <2>1, <2>2, FinishEffects DEF TypeOK
  <1>4. CASE mem[j].st # "cancel_requested"
    <2>1. UNCHANGED <<installed, landed, attr>>
      BY <1>4 DEF SetRunning
    <2>2. \/ GoTo(w, "exec") /\ starts' = [starts EXCEPT ![j] = @ + 1]
          \/ GoTo(w, "unsaved") /\ UNCHANGED starts
      BY <1>4 DEF SetRunning
    <2>3. CASE GoTo(w, "unsaved") /\ UNCHANGED starts
      <3>1. \A v \in Workers : worker'[v] = worker[v] \/ worker'[v].pc \notin AfterStart
        BY <2>3 DEF GoTo, AfterStart, TypeOK, WorkerState
      <3> QED BY <2>1, <2>3, <3>1, EffectsQuiet DEF TypeOK
    <2>4. CASE GoTo(w, "exec") /\ starts' = [starts EXCEPT ![j] = @ + 1]
      <3>1. /\ \A v \in Workers : v # w => worker'[v] = worker[v]
            /\ worker'[w].pc = "exec" /\ worker'[w].op = j
        BY <2>4 DEF GoTo, TypeOK, WorkerState
      <3>2. starts'[j] > 0 /\ \A i \in OpIds : starts'[i] >= starts[i]
        BY <1>1, <2>4 DEF TypeOK
      <3>3. \A v \in Workers : worker[v].pc \in AfterStart => worker[v].op \in OpIds
        BY HeldFacts DEF AfterStart
      <3>4. EffectsStand'
        <4> SUFFICES ASSUME NEW v \in Workers PROVE EffectsStand!(v)'
          BY DEF EffectsStand
        <4>1. CASE v = w
          BY <1>2, <2>1, <3>1, <3>2, <4>1
        <4>2. CASE v # w
          <5>1. worker[v].pc \in AfterStart => starts'[worker[v].op] > 0
            <6>1. SUFFICES ASSUME worker[v].pc \in AfterStart PROVE starts'[worker[v].op] > 0
              OBVIOUS
            <6>2. worker[v].op \in OpIds /\ starts[worker[v].op] > 0
              BY <3>3, <6>1 DEF EffectsStand
            <6>3. starts[worker[v].op] \in Nat /\ starts'[worker[v].op] \in Nat
              BY <1>1, <2>4, <6>2 DEF TypeOK
            <6> QED BY <3>2, <6>2, <6>3
          <5> QED BY <2>1, <3>1, <4>2, <5>1 DEF EffectsStand
        <4> QED BY <4>1, <4>2
      <3> QED BY <2>1, <3>2, <3>4
    <2> QED BY <2>2, <2>3, <2>4
  <1> QED BY <1>3, <1>4

(* The other steps do not touch targets and effects.                       *)
LEMMA NextEffects ==
    ASSUME TypeOK, IInv, RInv, Next
    PROVE  /\ EffectsStand'
           /\ \/ ReceiptsHonest'
              \/ landed' = landed /\ \A i \in OpIds : starts'[i] >= starts[i]
  <1> USE DEF recordVars, execVars, cancelVars, reconVars, targetVars, histVars, boundVars
  <1>0. /\ FilesFollow /\ FilesAgree /\ EffectsStand /\ ReceiptsHonest
        /\ \A i \in OpIds : starts[i] >= starts[i]
        /\ "loop" \notin AfterStart /\ "idle" \notin AfterStart /\ "popped" \notin AfterStart
        /\ {"exec", "returned", "decided", "receipt"} \subseteq AfterStart \ {"answered"}
    BY DEF RInv, TypeOK, AfterStart
  <1>1. ASSUME NEW c \in Clients, NEW r \in Requests, NEW p \in Principals,
               NEW k \in Keys \cup {None},
               Enqueue(c, [req |-> r, principal |-> p, key |-> k, retryOf |-> None])
        PROVE  EffectsStand' /\ landed' = landed /\ starts' = starts
    BY <1>0, <1>1, EffectsQuiet DEF Enqueue
  <1>2. ASSUME NEW c \in Clients, NEW i \in OpIds, NEW p \in Principals, Retry(c, i, p)
        PROVE  EffectsStand' /\ landed' = landed /\ starts' = starts
    BY <1>0, <1>2, EffectsQuiet DEF Retry
  <1>3. ASSUME NEW c \in Clients, Refuse(c)
        PROVE  EffectsStand' /\ landed' = landed /\ starts' = starts
    BY <1>0, <1>3, EffectsQuiet DEF Refuse
  <1>4. ASSUME NEW c \in Clients, NEW i \in OpIds, Admit(c, i)
        PROVE  EffectsStand' /\ landed' = landed /\ starts' = starts
    <2>1. \A j \in OpIds : ~Fresh(j) => attr'[j] = attr[j]
      BY <1>4 DEF Admit, TypeOK
    <2>2. \A v \in Workers : worker'[v] = worker[v] \/ worker'[v].pc \notin AfterStart
      BY <1>0, <1>4 DEF Admit, AdmitToTarget, Looping, TypeOK
    <2>3. UNCHANGED <<installed, landed, starts>>
      BY <1>4 DEF Admit
    <2> QED BY <1>0, <2>1, <2>2, <2>3, EffectsQuiet
  <1>5. ASSUME NEW w \in Workers, Pop(w) \/ Drain(w)
        PROVE  EffectsStand' /\ landed' = landed /\ starts' = starts
    <2>1. \A v \in Workers : worker'[v] = worker[v] \/ worker'[v].pc \notin AfterStart
      BY <1>0, <1>5 DEF Pop, Drain, Idle, TypeOK, WorkerState
    <2> QED BY <1>0, <1>5, <2>1, EffectsQuiet DEF Pop, Drain
  <1>6. ASSUME NEW w \in Workers, CheckContext(w) \/ AcquireSlot(w) \/ CheckTarget(w)
                    \/ FailUnsaved(w) \/ FinishDecided(w) \/ FinishCanceled(w)
        PROVE  EffectsStand' /\ landed' = landed /\ starts' = starts
    <2>1. \/ \E pc \in {"slot", "check", "start"} : StepOnly(w, pc)
          \/ \E st \in TerminalStatus \cup Out, rec \in Out \cup {"nil"} : Finish(w, st, rec)
      BY <1>6 DEF CheckContext, AcquireSlot, CheckTarget, FailUnsaved, FinishDecided,
                  FinishCanceled, TerminalStatus, Out, TypeOK, WorkerState
    <2>2. landed' = landed /\ starts' = starts
      BY <2>1 DEF StepOnly, Finish
    <2> QED BY <1>0, <2>1, <2>2, FinishEffects, StepOnlyEffects
  <1>7. ASSUME NEW w \in Workers, SetRunning(w)
        PROVE  EffectsStand' /\ landed' = landed /\ \A i \in OpIds : starts'[i] >= starts[i]
    BY <1>0, <1>7, SetRunningEffects
  <1>8. ASSUME NEW w \in Workers, EffectLands(w) PROVE EffectsStand' /\ ReceiptsHonest'
    BY <1>8, LandingEffects
  <1>9. ASSUME NEW w \in Workers, ExecReturn(w)
        PROVE  EffectsStand' /\ landed' = landed /\ starts' = starts
    <2>1. PICK out \in {"succeeded", "failed"} :
              worker' = [worker EXCEPT ![w].pc = "returned", ![w].out = out]
      BY <1>9 DEF ExecReturn
    <2>2. worker[w].pc = "exec" /\ UNCHANGED <<installed, landed, starts, attr>>
      BY <1>9 DEF ExecReturn, At
    <2> QED BY <1>0, <2>1, <2>2, EffectsAlong
  <1>10. ASSUME NEW w \in Workers, AfterExec(w)
         PROVE  EffectsStand' /\ landed' = landed /\ starts' = starts
    <2>1. PICK pc \in {"receipt", "decided"} : worker' = [worker EXCEPT ![w].pc = pc]
      BY <1>10 DEF AfterExec, StepOnly, GoTo
    <2>2. worker' = [worker EXCEPT ![w].pc = pc, ![w].out = worker[w].out]
      BY <2>1 DEF TypeOK, WorkerState
    <2>3. worker[w].pc = "returned" /\ UNCHANGED <<installed, landed, starts, attr>>
      BY <1>10 DEF AfterExec, At, StepOnly
    <2> QED BY <1>0, <2>2, <2>3, EffectsAlong
  <1>11. ASSUME NEW w \in Workers, ReadReceipt(w)
         PROVE  EffectsStand' /\ landed' = landed /\ starts' = starts
    BY <1>0, <1>11, ReceiptEffects DEF ReadReceipt
  <1>12. ASSUME NEW i \in OpIds, Cancel(i) \/ FireCancel(i) \/ ReconcileRead(i)
         PROVE  EffectsStand' /\ landed' = landed /\ starts' = starts
    BY <1>0, <1>12, EffectsQuiet DEF Cancel, FireCancel, ReconcileRead
  <1>13. CASE ReconcileRecord \/ ReconcileAbandon \/ Sweep \/ Retire \/ Seal \/ ForceCancel \/ Tick
    BY <1>0, <1>13, EffectsQuiet
       DEF ReconcileRecord, ReconcileAbandon, Sweep, Retire, Seal, ForceCancel, Tick
  <1>14. CASE ProcessTurns
    <2>1. /\ UNCHANGED <<installed, landed, starts, attr>>
          /\ \A v \in Workers : worker'[v] = worker[v] \/ worker'[v].pc \notin AfterStart
      BY <1>0, <1>14 DEF ProcessTurns, Exit, Crash, LoseMemory, Restart, RestartFails, Idle
    <2> QED BY <1>0, <2>1, EffectsQuiet
  <1> QED
    BY <1>0, <1>1, <1>2, <1>3, <1>4, <1>5, <1>6, <1>7, <1>8, <1>9, <1>10, <1>11, <1>12,
       <1>13, <1>14 DEF Next, WorkerStep, ProcessTurns

(* Every step keeps what the records say.                                  *)
LEMMA NextRecords ==
    ASSUME TypeOK, TypeOK', IInv, RInv, Next
    PROVE  RInv'
  <1>0. FilesFollow /\ FilesAgree /\ EffectsStand /\ ReceiptsHonest
    BY DEF RInv
  <1>1. CASE ~ProcessTurns
    <2>1. RecordsMove /\ (phase' = "down" <=> phase = "down")
      BY <1>1, StepMoves, StepKeepsProcess
    <2>2. ASSUME NEW i \in OpIds, NotApplied(mem'[i]) \/ NotApplied(disk'[i]) PROVE i \notin landed
      <3>1. ~NotApplied(Absence) /\ Moves(i)
        BY <2>1 DEF NotApplied, Absence, RecordsMove
      <3> QED BY <1>0, <2>2, <3>1 DEF Moves, Saves, ReceiptsHonest
    <2>3. ReceiptsHonest'
      <3>1. CASE landed' = landed /\ \A i \in OpIds : starts'[i] >= starts[i]
        <4>1. \A i \in landed : starts'[i] > 0
          BY <1>0, <3>1 DEF ReceiptsHonest, TypeOK
        <4> QED BY <2>2, <3>1, <4>1 DEF ReceiptsHonest, NotApplied
      <3> QED BY <3>1, NextEffects
    <2> QED BY <1>0, <2>1, <2>3, FilesFollowStep, FilesAgreeStep, NextEffects DEF RInv
  <1>2. CASE ProcessTurns
    <2>1. landed' = landed /\ starts' = starts
      BY <1>2 DEF ProcessTurns, Exit, Crash, LoseMemory, Restart, RestartFails, targetVars
    <2>2. ReceiptsHonest'
      BY <1>0, <1>2, <2>1, TurnFiles DEF ReceiptsHonest, NotApplied
    <2> QED BY <1>0, <1>2, <2>2, TurnFiles, NextEffects DEF RInv
  <1> QED BY <1>1, <1>2

(* The records in memory, the record files and the targets agree in every  *)
(* reachable state as far as failed saves and retention let them.          *)
THEOREM RecordsInvariance == Spec => []RInv
  <1>1. Init => RInv
    BY NoneIsNoId DEF Init, RInv, FilesFollow, FilesAgree, EffectsStand, ReceiptsHonest, Idle,
       AfterStart, Absence, NotApplied, Live, Exists, Unsettled, Status, TerminalStatus
  <1>2. (TypeOK /\ IInv) /\ (TypeOK /\ IInv)' /\ RInv /\ [Next]_vars => RInv'
    <2> SUFFICES ASSUME TypeOK, TypeOK', IInv, RInv, [Next]_vars PROVE RInv'
      OBVIOUS
    <2>1. CASE Next
      BY <2>1, NextRecords
    <2>2. CASE UNCHANGED vars
      BY <2>2 DEF vars, recordVars, execVars, cancelVars, reconVars, targetVars, histVars, boundVars,
         RInv, FilesFollow, FilesAgree, EffectsStand, ReceiptsHonest, EffectOf, NotApplied, Live,
         Exists, Terminal, Unsettled
    <2> QED BY <2>1, <2>2
  <1> QED BY <1>1, <1>2, Invariance, PTL DEF Spec

(* "canceled; receipt confirmed the effect did not land" is true (D02).    *)
THEOREM ReceiptsAreRight == Spec => []CanceledReceiptHonest
  <1>1. RInv => CanceledReceiptHonest
    BY DEF RInv, ReceiptsHonest, NotApplied, CanceledReceiptHonest
  <1> QED BY <1>1, RecordsInvariance, PTL

(* With storage that works and without retention, memory never runs ahead  *)
(* of the record files.                                                    *)
THEOREM MemoryIsStored == Spec => []WriteThrough
  <1>1. RInv => WriteThrough
    BY DEF RInv, FilesAgree, RetentionOff, WriteThrough
  <1> QED BY <1>1, RecordsInvariance, PTL

(* The record files are what the next process goes on from: a drained      *)
(* shutdown leaves only settled ones behind, and what is live when a       *)
(* process ends has one that recovery settles.                             *)
THEOREM NextProcessKnows == Spec => []RecordsHold
  <1>1. TypeOK /\ IInv /\ RInv => RecordsHold
    <2> SUFFICES ASSUME TypeOK, IInv, RInv PROVE DrainedIsSettled /\ LiveIsRecoverable
      BY DEF RecordsHold
    <2>1. LiveIsRecoverable
      BY DEF RInv, FilesFollow, LiveIsRecoverable, Unsettled, Status
    <2>2. ASSUME phase = "closing", Drained, faults = 0, NEW i \in OpIds, Unsettled(disk[i].st)
          PROVE  FALSE
      <3>1. Live(i)
        BY <2>2 DEF RInv, FilesAgree
      <3>2. InQueue(i) \/ Held(i)
        BY <3>1 DEF IInv, NothingStranded
      <3> QED BY <2>2, <3>2, NoneIsNoId
              DEF Drained, Idle, InQueue, Held, IInv, RunnersWellFormed
    <2>3. DrainedIsSettled
      BY <2>2, StatusFacts DEF DrainedIsSettled
    <2> QED BY <2>1, <2>3
  <1> QED BY <1>1, Invariance, RecordsInvariance, PTL

(* A recorded outcome is final, in memory and on disk: no late cancel,     *)
(* racing finish, reconciliation, sweep or restart rewrites it.            *)
THEOREM OutcomesAreFinal == Spec => OutcomeFinal
  <1> DEFINE Final == \A i \in OpIds :
                 /\ mem[i].st \in TerminalStatus => mem'[i].st \in {mem[i].st, "none"}
                 /\ disk[i].st \in TerminalStatus => disk'[i].st \in {disk[i].st, "none"}
  <1>1. TypeOK /\ IInv /\ RInv /\ [Next]_vars => [Final]_<<mem, disk>>
    <2> SUFFICES ASSUME TypeOK, IInv, RInv, Next, NEW i \in OpIds
                 PROVE  /\ mem[i].st \in TerminalStatus => mem'[i].st \in {mem[i].st, "none"}
                        /\ disk[i].st \in TerminalStatus => disk'[i].st \in {disk[i].st, "none"}
      BY DEF vars, recordVars
    <2>0. /\ Absence.st = "none" /\ "none" \notin TerminalStatus
          /\ "queued" \notin TerminalStatus
      BY DEF Absence, TerminalStatus
    <2>1. CASE ~ProcessTurns
      <3>1. Moves(i)
        BY <2>1, StepMoves DEF RecordsMove
      <3>2. /\ Live(i) => mem[i].st \notin TerminalStatus /\ disk[i].st \notin TerminalStatus
            /\ Fresh(i) => mem[i].st = "none" /\ disk[i].st = "none"
            /\ disk[i].st \in TerminalStatus => mem[i].st \in {disk[i].st, "none"}
        BY DEF RInv, FilesFollow, Unsettled, Live, Terminal, IInv, KnownIds, Exists
      <3> QED BY <2>0, <3>1, <3>2 DEF Moves, Saves
    <2>2. CASE LoseMemory
      BY <2>0, <2>2 DEF LoseMemory
    <2>3. CASE Restart \/ RestartFails
      <3>1. mem[i].st = "none"
        BY <2>3 DEF Restart, RestartFails, IInv, NothingStranded, Exists
      <3>2. disk[i] \in Record \cup {Absence} /\ (Unsettled(disk[i].st) => disk[i].rec = "nil")
        BY DEF TypeOK, RInv, FilesFollow
      <3>3. disk'[i] = Absence \/ disk'[i] = disk[i] \/ disk'[i] = Recovered(disk[i])
        BY <2>3 DEF Restart, RestartFails
      <3> QED BY <2>0, <3>1, <3>2, <3>3, RecoveredFacts
    <2> QED BY <2>1, <2>2, <2>3 DEF ProcessTurns, Exit, Crash
  <1> QED BY <1>1, Invariance, RecordsInvariance, PTL DEF Spec, OutcomeFinal

-----------------------------------------------------------------------------
(* The admission budgets                                                   *)

LiveIds      == {i \in OpIds : Live(i)}
LiveAt(t)    == {i \in OpIds : Live(i) /\ TargetOf(i) = t}
LiveFrom(p)  == {i \in OpIds : Live(i) /\ attr[i].principal = p}

(* Only finitely many operations are live, and the budgets hold.           *)
BudgetInv == IsFiniteSet(LiveIds) /\ BudgetsHold

(* A set that is below its bound grows by one.                             *)
LEMMA CountGrows ==
    ASSUME NEW S, NEW T, NEW j, IsFiniteSet(S), T \subseteq S \cup {j},
           NEW max \in Int, ~(Cardinality(S) >= max)
    PROVE  Cardinality(T) <= max
  <1>0. Cardinality(S) \in Nat
    BY FS_CardinalityType
  <1>1. /\ IsFiniteSet(S \cup {j})
        /\ Cardinality(S \cup {j}) <= Cardinality(S) + 1
    <2>1. /\ IsFiniteSet(S \cup {j})
          /\ Cardinality(S \cup {j}) = IF j \in S THEN Cardinality(S) ELSE Cardinality(S) + 1
      BY FS_AddElement
    <2> QED BY <1>0, <2>1
  <1>2. Cardinality(T) <= Cardinality(S \cup {j}) /\ IsFiniteSet(T)
    BY <1>1, FS_Subset
  <1>3. Cardinality(T) \in Nat /\ Cardinality(S \cup {j}) \in Nat
    BY <1>1, <1>2, FS_CardinalityType
  <1> QED BY <1>0, <1>1, <1>2, <1>3

(* A part of what fits a budget fits it.                                   *)
LEMMA CountShrinks ==
    ASSUME NEW S, NEW T, IsFiniteSet(S), T \subseteq S, NEW max \in Int, Cardinality(S) <= max
    PROVE  Cardinality(T) <= max
  <1>1. Cardinality(T) <= Cardinality(S) /\ IsFiniteSet(T)
    BY FS_Subset
  <1> QED BY <1>1, FS_CardinalityType

(* Nothing but an admission makes an operation live or changes what it is. *)
LEMMA LiveComes ==
    ASSUME TypeOK, TypeOK', IInv, IInv', RInv, Next, NEW k \in OpIds, Live(k)'
    PROVE  \/ Live(k) /\ attr'[k] = attr[k]
           \/ \E c \in Clients : Admit(c, k)
  <1>1. \A r : r \in Record => r.st # "none"
    BY DEF Record, Status
  <1>2. CASE ProcessTurns
    <2>1. ~Live(k)'
      <3>1. CASE LoseMemory
        BY <3>1 DEF LoseMemory, Live, Exists, Absence
      <3>2. CASE Restart
        <4>1. \/ mem'[k] = Absence
              \/ mem'[k] = Recovered(disk[k]) /\ disk[k] \in Record \cup {Absence}
          BY <3>2 DEF Restart, TypeOK
        <4>2. mem'[k].st \in TerminalStatus \cup {"none"}
          BY <4>1, RecoveredType DEF Absence
        <4> QED BY <4>2 DEF Live, Exists, Terminal
      <3>3. CASE RestartFails
        BY <3>3 DEF RestartFails, IInv, NothingStranded, Live, Exists
      <3> QED BY <1>2, <3>1, <3>2, <3>3 DEF ProcessTurns, Exit, Crash
    <2> QED BY <2>1
  <1>3. CASE ~ProcessTurns /\ \A c \in Clients, i \in OpIds : ~Admit(c, i)
    <2>1. attr' = attr
      BY <1>3, ZenonT(40) DEF Next, ProcessTurns, WorkerStep, Enqueue, Retry, Refuse, Pop, Drain, CheckContext,
         AcquireSlot, CheckTarget, SetRunning, FailUnsaved, EffectLands, ExecReturn, AfterExec,
         FinishDecided, ReadReceipt, FinishCanceled, Finish, StepOnly, Cancel, FireCancel,
         ReconcileRead, ReconcileRecord, ReconcileAbandon, Sweep, Retire, Seal, ForceCancel, Tick,
         recordVars
    <2>2. Moves(k) /\ ~Fresh(k)
      BY <1>3, <2>1, StepMoves DEF RecordsMove, IInv, KnownIds, Live, Fresh
    <2>3. Live(k)
      BY <2>2, <1>1 DEF Moves, Saves, Live, Exists, Terminal, Absence, TerminalStatus
    <2> QED BY <2>1, <2>3
  <1>4. ASSUME NEW c \in Clients, NEW i \in OpIds, Admit(c, i), i # k
        PROVE  Live(k) /\ attr'[k] = attr[k]
    <2>1. mem'[k] = mem[k] /\ attr'[k] = attr[k]
      BY <1>4 DEF Admit, TypeOK
    <2> QED BY <2>1 DEF Live, Exists, Terminal
  <1> QED BY <1>2, <1>3, <1>4

(* No step goes over a budget: only an admission adds live work, and it    *)
(* has counted what there is.                                              *)
LEMMA BudgetStep ==
    ASSUME TypeOK, TypeOK', IInv, IInv', RInv, BudgetInv, Next
    PROVE  BudgetInv'
  <1>0. {MaxLive, MaxQueuedPerTarget, MaxLivePerPrincipal} \subseteq Int
    BY ConstantsAssumption
  <1>1. /\ IsFiniteSet(LiveIds)
        /\ \A t : IsFiniteSet(LiveAt(t)) /\ \A p : IsFiniteSet(LiveFrom(p))
    <2>1. /\ \A t : LiveAt(t) \in SUBSET LiveIds
          /\ \A p : LiveFrom(p) \in SUBSET LiveIds
      BY DEF LiveIds, LiveAt, LiveFrom
    <2> QED BY <2>1, FS_Subset DEF BudgetInv
  <1>2. BudgetInv <=>
            /\ IsFiniteSet(LiveIds)
            /\ MaxLive > 0 => Cardinality(LiveIds) <= MaxLive
            /\ MaxQueuedPerTarget > 0 => \A t \in Targets : Cardinality(LiveAt(t)) <= MaxQueuedPerTarget
            /\ MaxLivePerPrincipal > 0 =>
                   \A p \in Principals : Cardinality(LiveFrom(p)) <= MaxLivePerPrincipal
    BY DEF BudgetInv, BudgetsHold, LiveCount, Depth, LiveOf, LiveIds, LiveAt, LiveFrom
  <1>3. (IsFiniteSet(LiveIds)' /\ (MaxLive > 0 => Cardinality(LiveIds') <= MaxLive)
            /\ (MaxQueuedPerTarget > 0 =>
                   \A t \in Targets : Cardinality(LiveAt(t)') <= MaxQueuedPerTarget)
            /\ (MaxLivePerPrincipal > 0 =>
                   \A p \in Principals : Cardinality(LiveFrom(p)') <= MaxLivePerPrincipal))
        => BudgetInv'
    BY DEF BudgetInv, BudgetsHold, LiveCount, Depth, LiveOf, LiveIds, LiveAt, LiveFrom
  <1>4. CASE \A c \in Clients, i \in OpIds : ~Admit(c, i)
    <2>1. /\ LiveIds' \subseteq LiveIds
          /\ \A t : LiveAt(t)' \subseteq LiveAt(t) /\ \A p : LiveFrom(p)' \subseteq LiveFrom(p)
      BY <1>4, LiveComes DEF LiveIds, LiveAt, LiveFrom, TargetOf
    <2>2. IsFiniteSet(LiveIds)'
      BY <1>1, <2>1, FS_Subset
    <2>3. MaxLive > 0 => Cardinality(LiveIds') <= MaxLive
      BY <1>0, <1>1, <1>2, <2>1, CountShrinks
    <2>4. ASSUME MaxQueuedPerTarget > 0, NEW t \in Targets
          PROVE  Cardinality(LiveAt(t)') <= MaxQueuedPerTarget
      BY <1>0, <1>1, <1>2, <2>1, <2>4, CountShrinks
    <2>5. ASSUME MaxLivePerPrincipal > 0, NEW p \in Principals
          PROVE  Cardinality(LiveFrom(p)') <= MaxLivePerPrincipal
      BY <1>0, <1>1, <1>2, <2>1, <2>5, CountShrinks
    <2> QED BY <1>3, <2>2, <2>3, <2>4, <2>5
  <1>5. ASSUME NEW c \in Clients, NEW j \in OpIds, Admit(c, j)
        PROVE  BudgetInv'
    <2> DEFINE call == client[c]
    <2>1. /\ call # None /\ MayAdmit(call) /\ attr'[j].req = call.req
          /\ attr'[j].principal = call.principal /\ call \in Call
      BY <1>5 DEF Admit, TypeOK
    <2>2. /\ MaxLive > 0 => ~(Cardinality(LiveIds) >= MaxLive)
          /\ MaxQueuedPerTarget > 0 => ~(Cardinality(LiveAt(call.req.target)) >= MaxQueuedPerTarget)
          /\ MaxLivePerPrincipal > 0 =>
                 ~(Cardinality(LiveFrom(call.principal)) >= MaxLivePerPrincipal)
      BY <2>1 DEF MayAdmit, TargetBudgetFull, GlobalBudgetFull, PrincipalBudgetFull, Depth,
                  LiveCount, LiveOf, LiveIds, LiveAt, LiveFrom
    <2>3. \A k \in OpIds : k # j /\ Live(k)' => Live(k) /\ attr'[k] = attr[k]
      <3>1. \A k \in OpIds : k # j => mem'[k] = mem[k] /\ attr'[k] = attr[k]
        BY <1>5 DEF Admit, TypeOK
      <3> QED BY <3>1 DEF Live, Exists, Terminal
    <2>4. /\ LiveIds' \subseteq LiveIds \cup {j}
          /\ \A t : LiveAt(t)' \subseteq LiveAt(t) \cup {j}
          /\ \A t : t # call.req.target => LiveAt(t)' \subseteq LiveAt(t)
          /\ \A p : LiveFrom(p)' \subseteq LiveFrom(p) \cup {j}
          /\ \A p : p # call.principal => LiveFrom(p)' \subseteq LiveFrom(p)
      BY <2>1, <2>3 DEF LiveIds, LiveAt, LiveFrom, TargetOf
    <2> HIDE DEF call
    <2>5. IsFiniteSet(LiveIds)'
      <3>1. IsFiniteSet(LiveIds \cup {j})
        BY <1>1, FS_AddElement
      <3> QED BY <2>4, <3>1, FS_Subset
    <2>6. MaxLive > 0 => Cardinality(LiveIds') <= MaxLive
      BY <1>0, <1>1, <2>2, <2>4, CountGrows
    <2>7. ASSUME MaxQueuedPerTarget > 0, NEW t \in Targets
          PROVE  Cardinality(LiveAt(t)') <= MaxQueuedPerTarget
      <3>1. CASE t = call.req.target
        BY <1>0, <1>1, <2>2, <2>4, <2>7, <3>1, CountGrows
      <3>2. CASE t # call.req.target
        BY <1>0, <1>1, <1>2, <2>4, <2>7, <3>2, CountShrinks
      <3> QED BY <3>1, <3>2
    <2>8. ASSUME MaxLivePerPrincipal > 0, NEW p \in Principals
          PROVE  Cardinality(LiveFrom(p)') <= MaxLivePerPrincipal
      <3>1. CASE p = call.principal
        BY <1>0, <1>1, <2>2, <2>4, <2>8, <3>1, CountGrows
      <3>2. CASE p # call.principal
        BY <1>0, <1>1, <1>2, <2>4, <2>8, <3>2, CountShrinks
      <3> QED BY <3>1, <3>2
    <2> QED BY <1>3, <2>5, <2>6, <2>7, <2>8
  <1> QED BY <1>4, <1>5

(* The admission budgets bound what is live, whatever callers race between *)
(* the two critical sections of enqueue (A12, R17).                        *)
THEOREM BudgetsAreKept == Spec => []BudgetsHold
  <1>1. Init => BudgetInv
    <2> SUFFICES ASSUME Init PROVE BudgetInv
      OBVIOUS
    <2>1. \A i \in OpIds : ~Live(i)
      BY DEF Init, Live, Exists, Absence
    <2>2. LiveIds = {} /\ \A t : LiveAt(t) = {} /\ \A p : LiveFrom(p) = {}
      BY <2>1 DEF LiveIds, LiveAt, LiveFrom
    <2>3. Cardinality({}) = 0 /\ IsFiniteSet({})
      BY FS_EmptySet
    <2>4. LiveCount = 0 /\ (\A t : Depth(t) = 0) /\ (\A p : LiveOf(p) = 0)
      BY <2>2, <2>3 DEF LiveCount, Depth, LiveOf, LiveIds, LiveAt, LiveFrom
    <2>5. {MaxLive, MaxQueuedPerTarget, MaxLivePerPrincipal} \subseteq Int
      BY ConstantsAssumption
    <2> QED BY <2>2, <2>3, <2>4, <2>5 DEF BudgetInv, BudgetsHold
  <1>2. (TypeOK /\ IInv) /\ (TypeOK /\ IInv)' /\ RInv /\ BudgetInv /\ [Next]_vars => BudgetInv'
    <2>1. BudgetInv /\ UNCHANGED vars => BudgetInv'
      BY DEF vars, recordVars, BudgetInv, BudgetsHold, LiveCount, Depth, LiveOf, LiveIds, Live,
             Exists, Terminal, TargetOf
    <2> QED BY <2>1, BudgetStep
  <1>3. BudgetInv => BudgetsHold
    BY DEF BudgetInv
  <1> QED BY <1>1, <1>2, <1>3, Invariance, RecordsInvariance, PTL DEF Spec

-----------------------------------------------------------------------------
(* The idempotency keys, without retention and while no save has failed.   *)

(* A record file belongs to an acknowledged operation and the other way    *)
(* round, and no operation is from the future.                             *)
FilesAreAcked ==
    /\ \A i \in OpIds : ~Fresh(i) => attr[i].created <= clock
    /\ RetentionOff => \A i \in acked : disk[i].st # "none"
    /\ faults = 0 => \A i \in OpIds : disk[i].st # "none" \/ Exists(i) => i \in acked

(* Operations of one key are a window apart, and the one still within its  *)
(* window is the one the key leads to.                                     *)
KeysLead ==
    RetentionOff /\ faults = 0 =>
        /\ \A i, j \in acked :
              i # j /\ attr[i].key # None /\ KeyOf(i) = KeyOf(j) /\ attr[i].created <= attr[j].created
              => IdempotencyWindow > 0 /\ attr[j].created - attr[i].created > IdempotencyWindow
        /\ phase # "down" => \A i \in acked :
              attr[i].key # None /\ InWindow(attr[i].created) => index[KeyOf(i)] = i

KeyInv == FilesAreAcked /\ KeysLead

(* What a step does to the attributes, the clock and the acknowledgements. *)
LEMMA AttrStep ==
    ASSUME TypeOK, Next
    PROVE  \/ /\ UNCHANGED <<attr, acked>>
              /\ clock' >= clock
              /\ \A c \in Clients, i \in OpIds : ~Admit(c, i)
           \/ \E c \in Clients, i \in OpIds : Admit(c, i)
  <1>1. CASE \A c \in Clients, i \in OpIds : ~Admit(c, i)
    <2>1. UNCHANGED <<attr, acked>> /\ (clock' = clock \/ Tick)
      BY <1>1, ZenonT(40) DEF Next, WorkerStep, Enqueue, Retry, Refuse, Pop, Drain, CheckContext, AcquireSlot,
         CheckTarget, SetRunning, FailUnsaved, EffectLands, ExecReturn, AfterExec, FinishDecided,
         ReadReceipt, FinishCanceled, Finish, StepOnly, Cancel, FireCancel, ReconcileRead,
         ReconcileRecord, ReconcileAbandon, Sweep, Retire, Seal, ForceCancel, Tick, Exit, Crash,
         LoseMemory, Restart, RestartFails, recordVars, histVars, boundVars
    <2> QED BY <1>1, <2>1 DEF Tick, TypeOK
  <1> QED BY <1>1

(* No step loses the file of an acknowledged operation.                    *)
LEMMA FilesAckedStep ==
    ASSUME TypeOK, TypeOK', IInv, RInv, FilesAreAcked, Next
    PROVE  FilesAreAcked'
  <1>0. /\ FilesFollow /\ FilesAgree
        /\ Absence.st = "none" /\ \A r \in Record : r.st # "none"
        /\ "none" \notin TerminalStatus /\ "interrupted" # "none" /\ ~Unsettled("none")
    BY DEF RInv, Absence, Record, Status, TerminalStatus, Unsettled
  <1>1. \A i \in OpIds : ~Fresh(i)' => attr'[i].created <= clock'
    <2>1. CASE UNCHANGED <<attr, acked>> /\ clock' >= clock
      <3> SUFFICES ASSUME NEW i \in OpIds, ~Fresh(i)' PROVE attr'[i].created <= clock'
        OBVIOUS
      <3>1. ~Fresh(i) /\ attr[i].created <= clock /\ attr'[i] = attr[i]
        BY <2>1 DEF Fresh, FilesAreAcked
      <3>2. attr[i].created \in Nat /\ clock \in Nat /\ clock' \in Nat
        BY <3>1 DEF Fresh, TypeOK, Attr
      <3> QED BY <2>1, <3>1, <3>2
    <2>2. ASSUME NEW c \in Clients, NEW j \in OpIds, Admit(c, j)
          PROVE  \A i \in OpIds : ~Fresh(i)' => attr'[i].created <= clock'
      <3>1. /\ clock' = clock /\ clock \in Nat /\ attr'[j].created = clock
            /\ \A i \in OpIds : i # j => attr'[i] = attr[i]
        BY <2>2 DEF Admit, TypeOK
      <3> QED BY <3>1 DEF FilesAreAcked, Fresh
    <2> QED BY <2>1, <2>2, AttrStep
  <1>2. CASE ProcessTurns
    <2>1. UNCHANGED acked /\ (faults' = 0 => faults = 0)
      BY <1>2 DEF ProcessTurns, Exit, Crash, LoseMemory, Restart, RestartFails, histVars, boundVars,
                  TypeOK
    <2>2. \A i \in OpIds : disk[i].st = "none" => disk'[i].st = "none"
      <3>1. \A i \in OpIds : disk'[i] \in {Absence, disk[i], Recovered(disk[i])}
        BY <1>2 DEF ProcessTurns, Exit, Crash, LoseMemory, Restart, RestartFails
      <3>2. \A i \in OpIds : Recovered(disk[i]).st = "none" <=> disk[i].st = "none"
        BY RecoveredType DEF TypeOK
      <3> QED BY <1>0, <3>1, <3>2
    <2>3. \A i \in OpIds : Exists(i)' => disk'[i].st # "none"
      <3>1. CASE LoseMemory
        BY <1>0, <3>1 DEF LoseMemory, Exists
      <3>2. CASE Restart
        BY <3>2 DEF Restart, Exists
      <3>3. CASE RestartFails
        BY <3>3 DEF RestartFails, IInv, NothingStranded, Exists
      <3> QED BY <1>2, <3>1, <3>2, <3>3 DEF ProcessTurns, Exit, Crash
    <2>4. ASSUME RetentionOff, NEW i \in OpIds, disk[i].st # "none" PROVE disk'[i].st # "none"
      <3>1. disk'[i] \in {disk[i], Recovered(disk[i])}
        <4>1. CASE LoseMemory
          BY <4>1 DEF LoseMemory
        <4>2. CASE Restart
          BY <2>4, <4>2, NoSweepOff DEF Restart
        <4>3. CASE RestartFails
          BY <2>4, <4>3, NoSweepOff DEF RestartFails
        <4> QED BY <1>2, <4>1, <4>2, <4>3 DEF ProcessTurns, Exit, Crash
      <3> QED BY <2>4, <3>1, RecoveredType DEF TypeOK
    <2>5. acked \subseteq OpIds
      BY DEF TypeOK
    <2> QED BY <1>1, <2>1, <2>2, <2>3, <2>4, <2>5 DEF FilesAreAcked
  <1>3. CASE ~ProcessTurns
    <2>1. RecordsMove
      BY <1>3, StepMoves
    <2>2. acked \subseteq acked'
      <3>1. \A c \in Clients, i \in OpIds : Admit(c, i) => acked \subseteq acked'
        BY DEF Admit
      <3> QED BY <3>1, AttrStep
    <2>3. ASSUME RetentionOff, NEW i \in acked' PROVE disk'[i].st # "none"
      <3>1. i \in OpIds /\ disk'[i] \in Record \cup {Absence}
        BY DEF TypeOK
      <3>2. CASE i \in acked
        <4>1. disk[i].st # "none" /\ (disk'[i] # disk[i] => disk'[i] # Absence)
          BY <2>1, <2>3, <3>1, <3>2 DEF FilesAreAcked, RecordsMove
        <4> QED BY <1>0, <3>1, <4>1
      <3>3. CASE i \notin acked
        <4>1. \E c \in Clients : Admit(c, i)
          <5>1. \A c \in Clients, k \in OpIds : Admit(c, k) => acked' \subseteq acked \cup {k}
            BY DEF Admit
          <5> QED BY <2>3, <3>3, <5>1, AttrStep
        <4>2. SaveOK(i, [st |-> "queued", rec |-> "nil"])
          BY <2>3, <3>3, <4>1 DEF Admit
        <4> QED BY <3>1, <4>2 DEF SaveOK, TypeOK
      <3> QED BY <3>2, <3>3
    <2>4. ASSUME faults' = 0, NEW i \in OpIds, disk'[i].st # "none" \/ Exists(i)', i \notin acked'
          PROVE  FALSE
      <3>1. faults = 0 /\ faults' = faults /\ i \notin acked
        BY <2>1, <2>2, <2>4 DEF RecordsMove, TypeOK
      <3>2. disk[i].st = "none" /\ ~Exists(i)
        BY <3>1 DEF FilesAreAcked
      <3>3. PICK r \in Record : Saves(i, r)
        BY <1>0, <2>1, <2>4, <3>2 DEF RecordsMove, Moves, Exists
      <3>4. Fresh(i) /\ disk'[i] = r
        BY <3>1, <3>2, <3>3 DEF Saves, Live, Exists
      <3>5. ~Fresh(i)'
        <4>1. (~Exists(i)' /\ disk'[i].st = "none") \/ ~Fresh(i)'
          <5>1. KnownIds'
            BY NextInv DEF IInv
          <5> QED BY <5>1 DEF KnownIds
        <4> QED BY <1>0, <3>3, <3>4, <4>1
      <3>6. PICK c \in Clients : Admit(c, i)
        <4>1. \A c \in Clients, k \in OpIds : Admit(c, k) => k = i \/ attr'[i] = attr[i]
          BY DEF Admit, TypeOK
        <4> QED BY <3>4, <3>5, <4>1, AttrStep DEF Fresh
      <3>7. SaveFails(i, [st |-> "queued", rec |-> "nil"])
        BY <2>4, <3>6 DEF Admit
      <3> QED BY <3>1, <3>7, SaveEffect
    <2> QED BY <1>1, <2>3, <2>4 DEF FilesAreAcked
  <1> QED BY <1>2, <1>3

(* Of two acknowledged operations of one key at most one is in its window. *)
LEMMA WindowApart ==
    ASSUME TypeOK, FilesAreAcked, KeysLead, RetentionOff, faults = 0,
           NEW i \in acked, NEW j \in acked, i # j, ~Fresh(i), ~Fresh(j),
           attr[i].key # None, KeyOf(i) = KeyOf(j), InWindow(attr[i].created)
    PROVE  ~InWindow(attr[j].created)
  <1>1. /\ attr[i].created \in Nat /\ attr[j].created \in Nat /\ clock \in Nat
        /\ attr[i].created <= clock /\ attr[j].created <= clock /\ attr[j].key = attr[i].key
        /\ IdempotencyWindow \in Int
    BY ConstantsAssumption DEF TypeOK, Fresh, Attr, FilesAreAcked, KeyOf
  <1>2. CASE attr[i].created <= attr[j].created
    BY <1>1, <1>2 DEF KeysLead, InWindow
  <1>3. CASE attr[j].created <= attr[i].created
    BY <1>1, <1>3 DEF KeysLead, InWindow
  <1> QED BY <1>1, <1>2, <1>3

(* What was acknowledged stays known while the process runs.               *)
LEMMA AckedFacts ==
    ASSUME TypeOK, IInv, RInv, FilesAreAcked, RetentionOff, faults = 0, NEW i \in acked
    PROVE  /\ i \in OpIds /\ ~Fresh(i) /\ attr[i] \in Attr
           /\ phase # "down" => Exists(i)
           /\ attr[i].key # None => KeyOf(i) \in Namespaces
  <1>1. i \in OpIds /\ ~Fresh(i) /\ attr[i] \in Attr
    BY DEF TypeOK, IInv, KnownIds, Fresh
  <1>2. phase # "down" => Exists(i)
    BY DEF RInv, FilesAgree, FilesAreAcked, Exists
  <1>3. attr[i].key # None => KeyOf(i) \in Namespaces
    BY <1>1 DEF KeyOf, Namespaces, Attr
  <1> QED BY <1>1, <1>2, <1>3

(* A key that is taken is found: its operation is known and in its window. *)
LEMMA KeyIsHit ==
    ASSUME TypeOK, IInv, RInv, FilesAreAcked, KeysLead, RetentionOff, faults = 0, phase # "down",
           NEW i \in acked, attr[i].key # None, InWindow(attr[i].created)
    PROVE  index[KeyOf(i)] = i /\ i # None /\ ~Stale(KeyOf(i))
  <1>1. index[KeyOf(i)] = i
    BY DEF KeysLead
  <1>2. i # None
    BY AckedFacts, NoneIsNoId
  <1>3. ~Stale(KeyOf(i))
    BY <1>1, AckedFacts DEF Stale
  <1> QED BY <1>1, <1>2, <1>3

(* Dropping a stale entry loses none that leads to an operation.           *)
LEMMA DropKeeps ==
    ASSUME TypeOK, IInv, RInv, FilesAreAcked, KeysLead, RetentionOff, faults = 0, phase # "down",
           NEW call, NEW i \in acked, attr[i].key # None, InWindow(attr[i].created)
    PROVE  DropStale(call)[KeyOf(i)] = i
  <1>1. index[KeyOf(i)] = i /\ i # None /\ ~Stale(KeyOf(i)) /\ KeyOf(i) \in Namespaces
    BY KeyIsHit, AckedFacts
  <1> QED BY <1>1 DEF DropStale, TypeOK

(* An admission takes a key that leads to nothing within its window.       *)
LEMMA AdmitKeys ==
    ASSUME TypeOK, IInv, RInv, FilesAreAcked, KeysLead, NEW c \in Clients, NEW j \in OpIds,
           Admit(c, j)
    PROVE  KeysLead'
  <1> DEFINE call == client[c]
             ns   == <<call.principal, call.key>>
  <1> SUFFICES ASSUME RetentionOff, faults' = 0 PROVE KeysLead'
    BY DEF KeysLead
  <1>1. /\ faults = 0 /\ phase = "up" /\ Fresh(j) /\ MayAdmit(call) /\ phase' = phase
        /\ clock' = clock /\ call \in Call
    BY DEF Admit, MayAdmit, SaveOK, SaveFails, TypeOK
  <1>2. /\ index' = IF call.key = None THEN index ELSE [index EXCEPT ![ns] = j]
        /\ acked' = acked \cup {j}
    BY <1>1 DEF Admit, SaveFails, TypeOK
  <1>3. /\ \A i \in OpIds : i # j => attr'[i] = attr[i]
        /\ attr'[j].key = call.key /\ attr'[j].principal = call.principal
        /\ attr'[j].created = clock
    BY DEF Admit, TypeOK
  <1>4. \A i \in acked : i \in OpIds /\ i # j /\ attr'[i] = attr[i] /\ KeyOf(i)' = KeyOf(i)
                        /\ ~Fresh(i) /\ attr[i] \in Attr
    BY <1>1, <1>3, AckedFacts DEF KeyOf
  <1>5. KeyOf(j)' = ns
    BY <1>3 DEF KeyOf
  <1>6. ASSUME NEW i \in acked, attr[i].key # None, KeyOf(i) = ns PROVE ~InWindow(attr[i].created)
    <2>1. SUFFICES ASSUME InWindow(attr[i].created) PROVE FALSE
      OBVIOUS
    <2>2. index[ns] = i /\ i # None /\ ~Stale(ns)
      BY <1>1, <1>6, <2>1, KeyIsHit
    <2>3. call.key = attr[i].key
      BY <1>6 DEF KeyOf
    <2> QED BY <1>1, <1>6, <2>2, <2>3 DEF MayAdmit, Hit
  <1>7. ASSUME NEW i \in acked, NEW k \in acked, i # k, attr[i].key # None, KeyOf(i) = KeyOf(k),
               attr[i].created <= attr[k].created
        PROVE  IdempotencyWindow > 0 /\ attr[k].created - attr[i].created > IdempotencyWindow
    BY <1>1, <1>7 DEF KeysLead
  <1>8. ASSUME NEW i \in acked, attr[i].key # None, KeyOf(i) = ns
        PROVE  /\ IdempotencyWindow > 0 /\ clock - attr[i].created > IdempotencyWindow
               /\ ~(clock <= attr[i].created)
    <2>1. ~InWindow(attr[i].created)
      BY <1>6, <1>8
    <2>2. attr[i].created \in Nat /\ clock \in Nat /\ IdempotencyWindow \in Int
      BY <1>4, ConstantsAssumption DEF TypeOK, Attr
    <2> QED BY <2>1, <2>2 DEF InWindow
  <1> HIDE DEF call, ns
  <1>9. \A i, k \in acked' :
              i # k /\ attr'[i].key # None /\ KeyOf(i)' = KeyOf(k)' /\ attr'[i].created <= attr'[k].created
              => IdempotencyWindow > 0 /\ attr'[k].created - attr'[i].created > IdempotencyWindow
    <2> SUFFICES ASSUME NEW i \in acked', NEW k \in acked', i # k, attr'[i].key # None,
                        KeyOf(i)' = KeyOf(k)', attr'[i].created <= attr'[k].created
                 PROVE  IdempotencyWindow > 0 /\ attr'[k].created - attr'[i].created > IdempotencyWindow
      OBVIOUS
    <2>1. CASE i \in acked /\ k \in acked
      BY <1>4, <1>7, <2>1
    <2>2. CASE i \in acked /\ k = j
      BY <1>3, <1>4, <1>5, <1>8, <2>2
    <2>3. CASE i = j /\ k \in acked
      <3>1. KeyOf(k) = ns /\ attr[k].key # None
        BY <1>4, <1>5, <2>3 DEF KeyOf
      <3> QED BY <1>3, <1>4, <1>8, <2>3, <3>1
    <2> QED BY <1>2, <2>1, <2>2, <2>3
  <1>10. ASSUME NEW i \in acked', attr'[i].key # None, InWindow(attr[i].created)'
         PROVE  (index[KeyOf(i)] = i)'
    <2>1. CASE i = j
      <3>1. call.key # None /\ ns \in Namespaces
        BY <1>1, <1>3, <1>10, <2>1 DEF Call, Namespaces, ns
      <3>2. index'[ns] = i
        BY <1>2, <2>1, <3>1 DEF TypeOK
      <3> QED BY <1>5, <2>1, <3>2
    <2>2. CASE i \in acked
      <3>1. InWindow(attr[i].created) /\ attr[i].key # None
        BY <1>1, <1>4, <1>10, <2>2 DEF InWindow
      <3>2. KeyOf(i) # ns
        BY <1>6, <2>2, <3>1
      <3>3. index[KeyOf(i)] = i
        BY <1>1, <2>2, <3>1, KeyIsHit
      <3>4. index'[KeyOf(i)] = i
        BY <1>2, <3>2, <3>3 DEF TypeOK
      <3> QED BY <1>4, <2>2, <3>4
    <2> QED BY <1>2, <2>1, <2>2
  <1>11. \A i \in acked' : attr'[i].key # None /\ InWindow(attr[i].created)' => (index[KeyOf(i)] = i)'
    BY <1>10
  <1> QED BY ONLY <1>9, <1>11 DEF KeysLead

(* A step that at most drops stale entries loses no key.                   *)
LEMMA KeysAlong ==
    ASSUME TypeOK, TypeOK', IInv, RInv, FilesAreAcked, KeysLead, faults' = 0 => faults = 0,
           UNCHANGED <<attr, acked>>, clock' >= clock, phase' # "down" => phase # "down",
           index' = index \/ \E call : index' = DropStale(call)
    PROVE  KeysLead'
  <1> SUFFICES ASSUME RetentionOff, faults' = 0 PROVE KeysLead'
    BY DEF KeysLead
  <1>1. ASSUME phase' # "down", NEW i \in acked, attr[i].key # None, InWindow(attr[i].created)'
        PROVE  index'[KeyOf(i)] = i
    <2>1. attr[i].created \in Nat /\ attr'[i] = attr[i] /\ clock \in Nat /\ clock' \in Nat
      BY AckedFacts DEF Attr, TypeOK
    <2>2. InWindow(attr[i].created)
      BY <1>1, <2>1, ConstantsAssumption DEF InWindow
    <2>3. index[KeyOf(i)] = i
      BY <1>1, <2>2, KeyIsHit
    <2> QED BY <1>1, <2>2, <2>3, DropKeeps
  <1> QED BY <1>1 DEF KeysLead, KeyOf

(* New rebuilds the index from the files, and every key still leads to its *)
(* operation: no other file of that key is within the window.              *)
LEMMA RestartKeys ==
    ASSUME TypeOK, TypeOK', IInv, RInv, FilesAreAcked, KeysLead, Restart
    PROVE  KeysLead'
  <1> SUFFICES ASSUME RetentionOff, faults' = 0 PROVE KeysLead'
    BY DEF KeysLead
  <1>1. faults = 0 /\ attr' = attr /\ acked' = acked /\ clock' = clock
    BY DEF Restart, boundVars, histVars
  <1>2. \A ns \in Namespaces : index'[ns] \in Restored(ns, Records)
    BY NoSweepOff DEF Restart
  <1>3. ASSUME NEW i \in acked, attr[i].key # None, InWindow(attr[i].created)
        PROVE  index'[KeyOf(i)] = i
    <2>1. i \in OpIds /\ ~Fresh(i) /\ KeyOf(i) \in Namespaces
      BY <1>1, <1>3, AckedFacts
    <2>2. i \in Records
      BY <2>1 DEF FilesAreAcked, Records
    <2>3. ASSUME NEW j \in Records, KeyOf(j) = KeyOf(i), InWindow(attr[j].created) PROVE j = i
      <3>1. j \in acked
        BY <1>1 DEF FilesAreAcked, Records
      <3>2. ~Fresh(j)
        BY <1>1, <3>1, AckedFacts
      <3> QED BY <1>1, <1>3, <2>1, <2>3, <3>1, <3>2, WindowApart
    <2>4. Restored(KeyOf(i), Records) \subseteq {i}
      BY <1>3, <2>2, <2>3 DEF Restored
    <2> QED BY <1>2, <2>1, <2>4
  <1> QED BY <1>1, <1>3 DEF KeysLead, KeyOf, InWindow

(* Every step keeps the keys.                                              *)
LEMMA NextKeys ==
    ASSUME TypeOK, TypeOK', IInv, RInv, FilesAreAcked, KeysLead, Next
    PROVE  KeysLead'
  <1>1. CASE \E c \in Clients, i \in OpIds : Admit(c, i)
    BY <1>1, AdmitKeys
  <1>2. CASE Restart
    BY <1>2, RestartKeys
  <1>3. CASE Exit \/ Crash \/ RestartFails
    <2>1. phase' = "down"
      BY <1>3 DEF Exit, Crash, LoseMemory, RestartFails
    <2>2. UNCHANGED <<attr, acked>> /\ (faults' = 0 => faults = 0)
      BY <1>3 DEF Exit, Crash, LoseMemory, RestartFails, histVars, TypeOK
    <2> QED BY <2>1, <2>2 DEF KeysLead, KeyOf
  <1>4. CASE /\ ~ProcessTurns
             /\ ~\E c \in Clients, i \in OpIds : Admit(c, i)
    <2>1. UNCHANGED <<attr, acked>> /\ clock' >= clock
      BY <1>4, AttrStep
    <2>2. (faults' = 0 => faults = 0) /\ (phase' = "down" <=> phase = "down")
      BY <1>4, StepMoves, StepKeepsProcess DEF RecordsMove, TypeOK
    <2>3. CASE RetentionOff /\ faults' = 0
      <3>1. sweeping = {}
        BY <2>3 DEF RInv, FilesAgree
      <3>2. index' = index \/ \E call : index' = DropStale(call)
        BY <1>4, <3>1, ZenonT(40) DEF Next, ProcessTurns, WorkerStep, Enqueue, Retry, Refuse, Pop, Drain,
           CheckContext, AcquireSlot, CheckTarget, SetRunning, FailUnsaved, EffectLands, ExecReturn,
           AfterExec, FinishDecided, ReadReceipt, FinishCanceled, Finish, StepOnly, Cancel,
           FireCancel, ReconcileRead, ReconcileRecord, ReconcileAbandon, Sweep, Retire, Seal,
           ForceCancel, Tick, recordVars
      <3> QED BY <2>1, <2>2, <3>2, KeysAlong
    <2> QED BY <2>3 DEF KeysLead
  <1> QED BY <1>1, <1>2, <1>3, <1>4 DEF ProcessTurns

(* The keys in every reachable state.                                      *)
LEMMA KeyInvariance == Spec => []KeyInv
  <1>1. Init => KeyInv
    BY DEF Init, KeyInv, FilesAreAcked, KeysLead, Absence, Exists, Fresh
  <1>2. (TypeOK /\ IInv) /\ (TypeOK /\ IInv)' /\ RInv /\ KeyInv /\ [Next]_vars => KeyInv'
    <2> SUFFICES ASSUME TypeOK, TypeOK', IInv, RInv, FilesAreAcked, KeysLead, [Next]_vars
                 PROVE  KeyInv'
      BY DEF KeyInv
    <2>1. CASE Next
      BY <2>1, FilesAckedStep, NextKeys DEF KeyInv
    <2>2. CASE UNCHANGED vars
      <3>1. FilesAreAcked'
        BY <2>2 DEF vars, recordVars, histVars, boundVars, FilesAreAcked, Fresh, Exists
      <3>2. KeysLead'
        BY <2>2 DEF vars, recordVars, histVars, boundVars, KeysLead, KeyOf, InWindow
      <3> QED BY <3>1, <3>2 DEF KeyInv
    <2> QED BY <2>1, <2>2
  <1> QED BY <1>1, <1>2, Invariance, RecordsInvariance, PTL DEF Spec

(* A keyed operation within its window is found by its key, across races   *)
(* through Build, stale entries, crashes and restarts (D02), as long as    *)
(* retention has retired nothing and every admission was saved.            *)
THEOREM KeysResolve == Spec => [](RetentionOff /\ faults = 0 => ReplayResolves)
  <1>1. TypeOK /\ IInv /\ RInv /\ KeyInv => (RetentionOff /\ faults = 0 => ReplayResolves)
    <2> SUFFICES ASSUME TypeOK, IInv, RInv, FilesAreAcked, KeysLead, RetentionOff, faults = 0,
                        NEW i \in OpIds, Exists(i), i \in acked, attr[i].key # None,
                        InWindow(attr[i].created)
                 PROVE  index[KeyOf(i)] # None /\ KeyOf(index[KeyOf(i)]) = KeyOf(i)
      BY DEF KeyInv, ReplayResolves
    <2>1. phase # "down"
      BY DEF IInv, NothingStranded
    <2> QED BY <2>1, KeyIsHit
  <1> QED BY <1>1, Invariance, RecordsInvariance, KeyInvariance, PTL

(* What enqueue found before Build still holds when it admits: operations  *)
(* of one key start a window apart (R21), under the same conditions, and   *)
(* the budgets hold (A12, R17).                                            *)
THEOREM RecheckIsEnough == Spec => [](RetentionOff /\ faults = 0 => RecheckHolds)
  <1>1. IInv /\ KeyInv => (RetentionOff /\ faults = 0 => OneStartPerKey)
    BY DEF IInv, HistoryOK, OnlyAckedStart, KeyInv, KeysLead, OneStartPerKey
  <1>2. OneStartPerKey /\ BudgetsHold => RecheckHolds
    BY DEF RecheckHolds
  <1> QED BY <1>1, <1>2, Invariance, KeyInvariance, BudgetsAreKept, PTL

-----------------------------------------------------------------------------
(* The idempotency keys with retention: a key that one operation was       *)
(* acknowledged under.                                                     *)

UsedOnce(i) == \A j \in acked : KeyOf(j) = KeyOf(i) => j = i

(* An operation alone under its key is what the key leads to.              *)
OnceLeads ==
    faults = 0 /\ phase # "down" => \A i \in acked :
        Exists(i) /\ attr[i].key # None /\ InWindow(attr[i].created) /\ UsedOnce(i)
        => index[KeyOf(i)] = i

(* What was acknowledged has its attributes, retired or not.               *)
LEMMA AckedIsNamed ==
    ASSUME TypeOK, IInv, NEW i \in acked
    PROVE  /\ i \in OpIds /\ i # None /\ ~Fresh(i) /\ attr[i] \in Attr
           /\ attr[i].key # None => KeyOf(i) \in Namespaces
  <1>1. i \in OpIds /\ ~Fresh(i) /\ attr[i] \in Attr
    BY DEF TypeOK, IInv, KnownIds, Fresh
  <1>2. attr[i].key # None => KeyOf(i) \in Namespaces
    BY <1>1 DEF KeyOf, Namespaces, Attr
  <1> QED BY <1>1, <1>2, NoneIsNoId

(* A step that leaves attributes and acknowledgements alone and brings     *)
(* nothing back keeps every such key, if the entry of one that led to its  *)
(* operation stays.                                                        *)
LEMMA OnceAlong ==
    ASSUME TypeOK, TypeOK', IInv, OnceLeads, faults' = 0 => faults = 0,
           UNCHANGED <<attr, acked>>, clock' >= clock, phase' # "down" => phase # "down",
           \A i \in acked : Exists(i)' => Exists(i),
           \A i \in acked : /\ faults = 0 /\ Exists(i)' /\ UsedOnce(i) /\ attr[i].key # None
                            /\ index[KeyOf(i)] = i /\ ~Stale(KeyOf(i))
                            => index'[KeyOf(i)] = i
    PROVE  OnceLeads'
  <1> SUFFICES ASSUME faults' = 0, phase' # "down", NEW i \in acked, Exists(i)', attr[i].key # None,
                      InWindow(attr[i].created)', UsedOnce(i)'
               PROVE  index'[KeyOf(i)] = i
    BY DEF OnceLeads, KeyOf
  <1>1. attr[i].created \in Nat /\ clock \in Nat /\ clock' \in Nat
    BY AckedIsNamed DEF Attr, TypeOK
  <1>2. InWindow(attr[i].created)
    BY <1>1, ConstantsAssumption DEF InWindow
  <1>3. UsedOnce(i) /\ Exists(i)
    BY DEF UsedOnce, KeyOf
  <1>4. index[KeyOf(i)] = i
    BY <1>2, <1>3 DEF OnceLeads
  <1>5. ~Stale(KeyOf(i))
    BY <1>2, <1>3, <1>4 DEF Stale
  <1> QED BY <1>3, <1>4, <1>5

(* An admission under the key of another ends that one's being alone.      *)
LEMMA OnceAdmitted ==
    ASSUME TypeOK, TypeOK', IInv, OnceLeads, NEW c \in Clients, NEW j \in OpIds, Admit(c, j)
    PROVE  OnceLeads'
  <1> DEFINE call == client[c]
             ns   == <<call.principal, call.key>>
  <1> SUFFICES ASSUME faults' = 0 PROVE OnceLeads'
    BY DEF OnceLeads
  <1>1. faults = 0 /\ phase = "up" /\ Fresh(j) /\ clock' = clock /\ call \in Call
    BY DEF Admit, MayAdmit, SaveOK, SaveFails, TypeOK
  <1>2. /\ index' = IF call.key = None THEN index ELSE [index EXCEPT ![ns] = j]
        /\ acked' = acked \cup {j}
        /\ \A i \in OpIds : i # j => mem'[i] = mem[i]
    BY <1>1 DEF Admit, SaveFails, TypeOK
  <1>3. /\ \A i \in OpIds : i # j => attr'[i] = attr[i]
        /\ attr'[j].key = call.key /\ attr'[j].principal = call.principal
    BY DEF Admit, TypeOK
  <1>4. \A i \in acked : i \in OpIds /\ i # j /\ attr'[i] = attr[i] /\ KeyOf(i)' = KeyOf(i)
                        /\ (Exists(i)' <=> Exists(i))
    BY <1>1, <1>2, <1>3, AckedIsNamed DEF KeyOf, Exists
  <1>5. KeyOf(j)' = ns
    BY <1>3 DEF KeyOf
  <1>6. ASSUME NEW i \in acked', Exists(i)', attr'[i].key # None, InWindow(attr[i].created)',
               UsedOnce(i)'
        PROVE  (index[KeyOf(i)] = i)'
    <2>1. CASE i = j
      <3>1. call.key # None /\ ns \in Namespaces
        BY <1>1, <1>3, <1>6, <2>1 DEF Call, Namespaces, ns
      <3>2. index'[ns] = i
        BY <1>2, <2>1, <3>1 DEF TypeOK
      <3> QED BY <1>5, <2>1, <3>2
    <2>2. CASE i \in acked
      <3>1. InWindow(attr[i].created) /\ attr[i].key # None /\ Exists(i)
        BY <1>1, <1>4, <1>6, <2>2 DEF InWindow
      <3>2. KeyOf(i) # ns /\ UsedOnce(i)
        BY <1>2, <1>4, <1>5, <1>6, <2>2 DEF UsedOnce
      <3>3. index[KeyOf(i)] = i
        BY <1>1, <2>2, <3>1, <3>2 DEF OnceLeads
      <3>4. index'[KeyOf(i)] = i
        BY <1>2, <3>2, <3>3 DEF TypeOK
      <3> QED BY <1>4, <2>2, <3>4
    <2> QED BY <1>2, <2>1, <2>2
  <1> QED BY <1>6 DEF OnceLeads

(* New finds no other record under such a key.                             *)
LEMMA OnceRestored ==
    ASSUME TypeOK, TypeOK', IInv, FilesAreAcked, Restart
    PROVE  OnceLeads'
  <1>1. /\ attr' = attr /\ acked' = acked /\ clock' = clock /\ faults' = faults
        /\ mem' = disk'
    BY DEF Restart, boundVars, histVars
  <1>2. PICK V \in SUBSET OpIds :
            /\ disk' = [i \in OpIds |-> IF i \in V THEN Absence ELSE Recovered(disk[i])]
            /\ \A ns \in Namespaces : index'[ns] \in Restored(ns, Records \ V)
    BY DEF Restart
  <1>3. SUFFICES ASSUME faults = 0, NEW i \in acked, Exists(i)', attr[i].key # None,
                        InWindow(attr[i].created), UsedOnce(i)
                 PROVE  index'[KeyOf(i)] = i
    BY <1>1 DEF OnceLeads, KeyOf, InWindow, UsedOnce
  <1>4. i \in OpIds /\ KeyOf(i) \in Namespaces
    BY <1>3, AckedIsNamed
  <1>5. i \in Records \ V
    <2>1. disk'[i].st # "none"
      BY <1>1, <1>3 DEF Exists
    <2>2. i \notin V /\ disk'[i] = Recovered(disk[i])
      BY <1>2, <1>4, <2>1 DEF Absence
    <2> QED BY <1>4, <2>1, <2>2, RecoveredType DEF Records, TypeOK
  <1>6. \A j \in Records : KeyOf(j) = KeyOf(i) => j = i
    BY <1>3 DEF FilesAreAcked, Records, UsedOnce
  <1>7. Restored(KeyOf(i), Records \ V) \subseteq {i}
    BY <1>3, <1>5, <1>6 DEF Restored
  <1> QED BY <1>2, <1>4, <1>7

(* Retiring removes the entries of what it forgets; nothing of those is    *)
(* known under such a key.                                                 *)
LEMMA OnceRetired ==
    ASSUME TypeOK, TypeOK', IInv, FilesAreAcked, OnceLeads, Retire
    PROVE  OnceLeads'
  <1> DEFINE gone == {i \in sweeping : Terminal(i)}
  <1>1. /\ UNCHANGED <<attr, acked, clock, faults, phase>> /\ sweeping \subseteq OpIds
        /\ mem' = [i \in OpIds |-> IF i \in gone THEN Absence ELSE mem[i]]
        /\ index' = [ns \in Namespaces |->
                        IF (\E i \in gone : KeyOf(i) = ns) \/ Stale(ns) \/ index[ns] \in gone
                        THEN None ELSE index[ns]]
    BY DEF Retire, histVars, boundVars, TypeOK
  <1>2. \A g \in gone : g \in OpIds /\ Exists(g)
    BY <1>1 DEF Terminal, Exists, TerminalStatus
  <1> HIDE DEF gone
  <1>3. ASSUME NEW i \in acked, Exists(i)' PROVE Exists(i) /\ i \notin gone
    BY <1>1, <1>3, AckedIsNamed DEF Exists, Absence
  <1>4. ASSUME NEW i \in acked, faults = 0, Exists(i)', UsedOnce(i), attr[i].key # None,
               index[KeyOf(i)] = i, ~Stale(KeyOf(i))
        PROVE  index'[KeyOf(i)] = i
    <2>1. KeyOf(i) \in Namespaces /\ i \notin gone
      BY <1>3, <1>4, AckedIsNamed
    <2>2. \A g \in gone : KeyOf(g) # KeyOf(i)
      BY <1>2, <1>4, <2>1 DEF FilesAreAcked, UsedOnce
    <2> QED BY <1>1, <1>4, <2>1, <2>2
  <1>5. clock' >= clock
    BY <1>1 DEF TypeOK
  <1> QED BY <1>1, <1>3, <1>4, <1>5, OnceAlong

(* Every step keeps the keys that are used once.                           *)
LEMMA NextOnce ==
    ASSUME TypeOK, TypeOK', IInv, RInv, FilesAreAcked, OnceLeads, Next
    PROVE  OnceLeads'
  <1>1. CASE \E c \in Clients, i \in OpIds : Admit(c, i)
    BY <1>1, OnceAdmitted
  <1>2. CASE Restart
    BY <1>2, OnceRestored
  <1>3. CASE Exit \/ Crash \/ RestartFails
    <2>1. phase' = "down"
      BY <1>3 DEF Exit, Crash, LoseMemory, RestartFails
    <2> QED BY <2>1 DEF OnceLeads
  <1>4. CASE Retire
    BY <1>4, OnceRetired
  <1>5. CASE /\ ~ProcessTurns /\ ~Retire
             /\ ~\E c \in Clients, i \in OpIds : Admit(c, i)
    <2>1. UNCHANGED <<attr, acked>> /\ clock' >= clock
      BY <1>5, AttrStep
    <2>2. (faults' = 0 => faults = 0) /\ (phase' = "down" <=> phase = "down") /\ RecordsMove
      BY <1>5, StepMoves, StepKeepsProcess DEF RecordsMove, TypeOK
    <2>3. index' = index \/ \E call : index' = DropStale(call)
      BY <1>5, ZenonT(40) DEF Next, ProcessTurns, WorkerStep, Enqueue, Retry, Refuse, Pop, Drain,
         CheckContext, AcquireSlot, CheckTarget, SetRunning, FailUnsaved, EffectLands, ExecReturn,
         AfterExec, FinishDecided, ReadReceipt, FinishCanceled, Finish, StepOnly, Cancel,
         FireCancel, ReconcileRead, ReconcileRecord, ReconcileAbandon, Sweep, Seal,
         ForceCancel, Tick, recordVars
    <2>4. ASSUME NEW i \in acked, Exists(i)' PROVE Exists(i)
      <3>1. SUFFICES ASSUME ~Exists(i) PROVE FALSE
        OBVIOUS
      <3>2. i \in OpIds /\ ~Fresh(i) /\ Moves(i)
        BY <2>2, AckedIsNamed DEF RecordsMove
      <3>3. Absence.st = "none" /\ mem[i].st = "none" /\ mem'[i] # mem[i]
        BY <2>4, <3>1 DEF Absence, Exists
      <3>4. PICK r \in Record : Saves(i, r)
        BY <2>4, <3>2, <3>3 DEF Moves, Exists
      <3> QED BY <3>1, <3>2, <3>3, <3>4 DEF Saves, Live, Exists
    <2>5. ASSUME NEW i \in acked, attr[i].key # None, index[KeyOf(i)] = i, ~Stale(KeyOf(i))
          PROVE  index'[KeyOf(i)] = i
      <3>1. KeyOf(i) \in Namespaces
        BY <2>5, AckedIsNamed
      <3>2. \A call : DropStale(call)[KeyOf(i)] = i
        BY <2>5, <3>1 DEF DropStale, TypeOK
      <3> QED BY <2>3, <2>5, <3>2
    <2> QED BY <2>1, <2>2, <2>4, <2>5, OnceAlong
  <1> QED BY <1>1, <1>2, <1>3, <1>4, <1>5 DEF ProcessTurns

(* With retention too, a key that one operation was acknowledged under     *)
(* leads to it as long as its record is kept and its window lasts, across  *)
(* races, retirements of others and restarts (retire, New).  A key that is *)
(* used again is what retire may lose.                                     *)
THEOREM KeysUsedOnceResolve ==
    Spec => [](faults = 0 => \A i \in acked :
                  Exists(i) /\ attr[i].key # None /\ InWindow(attr[i].created) /\ UsedOnce(i)
                  => index[KeyOf(i)] = i)
  <1>1. Init => OnceLeads
    BY DEF Init, OnceLeads
  <1>2. (TypeOK /\ IInv) /\ (TypeOK /\ IInv)' /\ RInv /\ KeyInv /\ OnceLeads /\ [Next]_vars
        => OnceLeads'
    <2>1. OnceLeads /\ UNCHANGED vars => OnceLeads'
      BY DEF vars, recordVars, histVars, boundVars, OnceLeads, KeyOf, InWindow, UsedOnce, Exists
    <2> QED BY <2>1, NextOnce DEF KeyInv
  <1>3. TypeOK /\ IInv /\ OnceLeads =>
        (faults = 0 => \A i \in acked :
             Exists(i) /\ attr[i].key # None /\ InWindow(attr[i].created) /\ UsedOnce(i)
             => index[KeyOf(i)] = i)
    <2>1. \A i \in OpIds : TypeOK /\ IInv /\ Exists(i) => phase # "down"
      BY DEF IInv, NothingStranded
    <2> QED BY <2>1, AckedIsNamed DEF OnceLeads
  <1> QED BY <1>1, <1>2, <1>3, Invariance, RecordsInvariance, KeyInvariance, PTL DEF Spec

-----------------------------------------------------------------------------
(* The contract: each step of the manager is a step of OperationContract   *)
(* or changes nothing that the contract speaks of.                         *)

(* What a target owes: its goroutine's job first, if it has one.           *)
OwedIs ==
    /\ \A i \in OpIds : Live(i) <=> mem[i].st \in Status \ TerminalStatus
    /\ \A t \in Targets :
          /\ \A w \in Workers : worker[w].target = t /\ worker[w].op # None =>
                Owed(t) = <<worker[w].op>> \o runner[t].queue
          /\ (\A w \in Workers : worker[w].target = t => worker[w].op = None) =>
                Owed(t) = runner[t].queue

(* Every state with the manager's types and invariant has it.              *)
LEMMA OwedFacts == TypeOK /\ IInv => OwedIs
  <1> SUFFICES ASSUME TypeOK, IInv PROVE OwedIs
    OBVIOUS
  <1>1. \A i \in OpIds : Live(i) <=> mem[i].st \in Status \ TerminalStatus
    BY StatusFacts DEF Unsettled
  <1>2. ASSUME NEW t \in Targets, NEW w \in Workers, worker[w].target = t, worker[w].op # None
        PROVE  Owed(t) = <<worker[w].op>> \o runner[t].queue
    <2>1. Holders(t) = {w}
      BY <1>2 DEF Holders, IInv, RunnersWellFormed
    <2> QED BY <2>1 DEF Owed
  <1>3. ASSUME NEW t \in Targets, \A w \in Workers : worker[w].target = t => worker[w].op = None
        PROVE  Owed(t) = runner[t].queue
    <2>1. Holders(t) = {}
      BY <1>3 DEF Holders
    <2> QED BY <2>1 DEF Owed
  <1> QED BY <1>1, <1>2, <1>3 DEF OwedIs

(* The same of the state after a step.                                     *)
LEMMA OwedFactsAfter == (TypeOK /\ IInv => OwedIs)'
  BY OwedFacts, PTL

(* A step that keeps what is live, queued and held is no step of the       *)
(* contract.                                                               *)
LEMMA ContractStutter ==
    ASSUME OwedIs, OwedIs', UNCHANGED <<attr, acked, starts>>,
           \A i \in OpIds : Live(i)' <=> Live(i),
           \A t \in Targets : Owed(t)' = Owed(t)
    PROVE  UNCHANGED C!cvars
  <1>1. \A i \in OpIds : LifeOf(i)' = LifeOf(i)
    BY DEF LifeOf, OwedIs
  <1> QED BY <1>1 DEF C!cvars

(* A target whose queue and job a step leaves alone owes what it did.      *)
LEMMA OwedStays ==
    ASSUME OwedIs, OwedIs', NEW t \in Targets, runner'[t].queue = runner[t].queue,
           \A w \in Workers : /\ worker[w].target = t /\ worker[w].op # None <=>
                                 worker'[w].target = t /\ worker'[w].op # None
                              /\ worker[w].target = t => worker'[w].op = worker[w].op
    PROVE  Owed(t)' = Owed(t)
  <1>1. CASE \E w \in Workers : worker[w].target = t /\ worker[w].op # None
    <2>1. PICK w \in Workers : worker[w].target = t /\ worker[w].op # None
      BY <1>1
    <2>2. worker'[w].target = t /\ worker'[w].op = worker[w].op
      BY <2>1
    <2>3. Owed(t) = <<worker[w].op>> \o runner[t].queue
      BY <2>1 DEF OwedIs
    <2>4. (Owed(t) = <<worker[w].op>> \o runner[t].queue)'
      BY <2>1, <2>2 DEF OwedIs
    <2> QED BY <2>2, <2>3, <2>4
  <1>2. CASE \A w \in Workers : worker[w].target = t => worker[w].op = None
    <2>1. \A w \in Workers : worker'[w].target = t => worker'[w].op = None
      BY <1>2
    <2> QED BY <1>2, <2>1 DEF OwedIs
  <1> QED BY <1>1, <1>2

(* A step that changes no live operation, queue or worker is no step of    *)
(* the contract.                                                           *)
LEMMA QuietContract ==
    ASSUME OwedIs, OwedIs', UNCHANGED <<attr, acked, starts, runner>>,
           \A i \in OpIds : Live(i)' <=> Live(i),
           \A w \in Workers : worker'[w].op = worker[w].op /\ worker'[w].target = worker[w].target
    PROVE  UNCHANGED C!cvars
  <1>1. \A t \in Targets : Owed(t)' = Owed(t)
    BY OwedStays
  <1> QED BY <1>1, ContractStutter

(* The front of the queue moves to the goroutine, or an idle goroutine     *)
(* exits: what the target owes stays the same.                             *)
LEMMA PopContract ==
    ASSUME TypeOK, IInv, OwedIs, OwedIs', NEW w \in Workers, Pop(w)
    PROVE  UNCHANGED C!cvars
  <1>0. PICK t \in Targets, q \in Seq(OpIds) : t = worker[w].target /\ q = runner[t].queue
    BY DEF Pop, At, TypeOK, IInv, WorkersWellFormed
  <1>1. /\ worker[w].op = None /\ q # << >>
        /\ worker' = [worker EXCEPT ![w].pc = "popped", ![w].op = Head(q)]
        /\ runner' = [runner EXCEPT ![t].queue = Tail(@)]
    BY <1>0 DEF Pop, At, IInv, WorkersWellFormed
  <1>2. /\ worker'[w].target = t /\ worker'[w].op = Head(q) /\ runner'[t].queue = Tail(q)
        /\ \A v \in Workers : v # w => worker'[v] = worker[v]
        /\ \A s \in Targets : s # t => runner'[s].queue = runner[s].queue
    BY <1>0, <1>1 DEF TypeOK, WorkerState
  <1>3. Head(q) # None /\ <<Head(q)>> \o Tail(q) = q
    BY <1>1, NoneIsNoId
  <1>4. \A v \in Workers : v # w => worker[v].target # t
    BY <1>0, <1>1 DEF IInv, RunnersWellFormed
  <1>5. Owed(t) = q
    BY <1>0, <1>1, <1>4 DEF OwedIs
  <1>6. Owed(t)' = q
    <2>1. (Owed(t) = <<worker[w].op>> \o runner[t].queue)'
      BY <1>1, <1>2, <1>3 DEF OwedIs
    <2> QED BY <1>2, <1>3, <2>1
  <1>7. ASSUME NEW s \in Targets, s # t PROVE Owed(s)' = Owed(s)
    BY <1>0, <1>2, <1>7, OwedStays
  <1>8. UNCHANGED <<attr, acked, starts, mem>>
    BY DEF Pop, recordVars, histVars, targetVars
  <1>9. \A s \in Targets : Owed(s)' = Owed(s)
    BY <1>5, <1>6, <1>7
  <1> QED BY <1>8, <1>9, ContractStutter DEF Live, Exists, Terminal

(* A worker that ends its run loop is no step of the contract.             *)
LEMMA DrainContract ==
    ASSUME TypeOK, IInv, OwedIs, OwedIs', NEW w \in Workers, Drain(w)
    PROVE  UNCHANGED C!cvars
  <1>0. PICK t \in Targets : t = worker[w].target
    BY DEF Drain, At, IInv, WorkersWellFormed
  <1>1. /\ worker[w].op = None /\ runner[t].queue = << >>
        /\ worker' = [worker EXCEPT ![w] = Idle]
        /\ runner' = [runner EXCEPT ![t] = [queue |-> << >>, busy |-> FALSE]]
        /\ UNCHANGED <<attr, acked, starts, mem>>
    BY <1>0 DEF Drain, At, IInv, WorkersWellFormed, recordVars, histVars, targetVars
  <1>2. /\ worker'[w].op = None
        /\ \A v \in Workers : v # w => worker'[v] = worker[v]
        /\ \A s \in Targets : runner'[s].queue = runner[s].queue
    BY <1>1 DEF TypeOK, Idle
  <1>3. ASSUME NEW s \in Targets PROVE Owed(s)' = Owed(s)
    <2>1. \A v \in Workers : /\ worker[v].target = s /\ worker[v].op # None <=>
                                worker'[v].target = s /\ worker'[v].op # None
                             /\ worker[v].target = s => worker'[v].op = worker[v].op
      BY <1>1, <1>2
    <2> QED BY <1>2, <2>1, OwedStays
  <1>4. \A s \in Targets : Owed(s)' = Owed(s)
    BY <1>3
  <1>5. \A i \in OpIds : Live(i)' <=> Live(i)
    BY <1>1 DEF Live, Exists, Terminal
  <1> QED BY <1>1, <1>4, <1>5, ContractStutter

(* The job a goroutine holds is the head of what its target owes.          *)
LEMMA HeldIsHead ==
    ASSUME TypeOK, IInv, OwedIs, NEW w \in Workers, worker[w].op # None
    PROVE  \E t \in Targets, j \in OpIds :
              /\ t = worker[w].target /\ j = worker[w].op
              /\ Owed(t) # << >> /\ Head(Owed(t)) = j /\ Tail(Owed(t)) = runner[t].queue
  <1>1. worker[w].target \in Targets /\ worker[w].op \in OpIds
    BY NoneIsNoId DEF IInv, WorkersWellFormed, TypeOK, WorkerState
  <1>2. PICK t \in Targets, j \in OpIds : t = worker[w].target /\ j = worker[w].op
    BY <1>1
  <1>3. PICK q \in Seq(OpIds) : q = runner[t].queue
    BY DEF TypeOK
  <1>4. Owed(t) = <<j>> \o q
    BY <1>2, <1>3 DEF OwedIs
  <1>5. <<j>> \o q # << >> /\ Head(<<j>> \o q) = j /\ Tail(<<j>> \o q) = q
    OBVIOUS
  <1> QED BY <1>2, <1>3, <1>4, <1>5

(* finishReconciled settles the head.                                      *)
LEMMA FinishContract ==
    ASSUME TypeOK, IInv, OwedIs, OwedIs', NEW w \in Workers, worker[w].op # None,
           NEW st \in TerminalStatus, NEW rec, Finish(w, st, rec)
    PROVE  C!CNext
  <1>1. PICK t \in Targets, j \in OpIds :
           /\ t = worker[w].target /\ j = worker[w].op
           /\ Owed(t) # << >> /\ Head(Owed(t)) = j /\ Tail(Owed(t)) = runner[t].queue
    BY HeldIsHead
  <1>2. Live(j) /\ j \in acked /\ ~Fresh(j)
    BY <1>1 DEF IInv, HeldWellFormed
  <1>3. /\ mem' = [mem EXCEPT ![j] = [st |-> st, rec |-> rec]]
        /\ worker' = [worker EXCEPT ![w] = Looping(t)]
        /\ UNCHANGED <<attr, acked, starts, runner>>
    BY <1>1, <1>2 DEF Finish, histVars, targetVars
  <1>4. ~Live(j)' /\ \A i \in OpIds : i # j => (Live(i)' <=> Live(i))
    <2>1. mem'[j].st = st /\ \A i \in OpIds : i # j => mem'[i] = mem[i]
      BY <1>1, <1>3 DEF TypeOK
    <2>2. mem'[j].st \in TerminalStatus
      BY <2>1
    <2> QED BY <2>1, <2>2 DEF Live, Exists, Terminal
  <1>5. \A i \in OpIds : LifeOf(i)' = IF i = j THEN "settled" ELSE LifeOf(i)
    BY <1>2, <1>3, <1>4 DEF LifeOf, OwedIs, Fresh
  <1>6. /\ worker'[w].op = None
        /\ \A v \in Workers : v # w => worker'[v] = worker[v]
        /\ \A v \in Workers : v # w => worker[v].target # t
    BY <1>1, <1>3 DEF TypeOK, Looping, IInv, RunnersWellFormed
  <1>7. Owed(t)' = Tail(Owed(t))
    BY <1>1, <1>3, <1>6 DEF OwedIs
  <1>8. ASSUME NEW s \in Targets, s # t PROVE Owed(s)' = Owed(s)
    <2>1. \A v \in Workers : /\ worker[v].target = s /\ worker[v].op # None <=>
                                worker'[v].target = s /\ worker'[v].op # None
                             /\ worker[v].target = s => worker'[v].op = worker[v].op
      BY <1>1, <1>6, <1>8
    <2> QED BY <1>3, <2>1, OwedStays
  <1>9. \A s \in Targets : Owed(s)' = IF s = t THEN Tail(Owed(s)) ELSE Owed(s)
    BY <1>7, <1>8
  <1>10. C!CSettle(t)
    BY <1>1, <1>5, <1>9 DEF C!CSettle
  <1> QED BY <1>1, <1>10 DEF C!CNext

(* setRunning calls the executor of the head and of no other.              *)
LEMMA StartContract ==
    ASSUME TypeOK, IInv, OwedIs, OwedIs', NEW w \in Workers, SetRunning(w)
    PROVE  C!CNext \/ UNCHANGED C!cvars
  <1>0. worker[w].pc = "start" /\ worker[w].op # None
    BY HeldFacts DEF SetRunning, At
  <1>1. PICK t \in Targets, j \in OpIds :
           t = worker[w].target /\ j = worker[w].op /\ Owed(t) # << >> /\ Head(Owed(t)) = j
    BY <1>0, HeldIsHead
  <1>a. starts[j] = 0 /\ Live(j) /\ j \in acked /\ mem[j].st \in Waiting
    BY <1>0, <1>1, HeldFacts DEF BeforeStart
  <1>2. CASE mem[j].st = "cancel_requested"
    BY <1>0, <1>1, <1>2, FinishContract DEF SetRunning, TerminalStatus
  <1>3. CASE mem[j].st # "cancel_requested"
    <2>1. /\ UNCHANGED <<attr, acked, runner>>
          /\ mem' = [mem EXCEPT ![j] = [st |-> "running", rec |-> "nil"]]
          /\ \/ GoTo(w, "exec") /\ starts' = [starts EXCEPT ![j] = @ + 1]
             \/ GoTo(w, "unsaved") /\ UNCHANGED starts
      BY <1>1, <1>a, <1>3 DEF SetRunning, histVars, Waiting
    <2>2. \A v \in Workers : worker'[v].op = worker[v].op /\ worker'[v].target = worker[v].target
      <3>1. PICK pc \in {"exec", "unsaved"} : worker' = [worker EXCEPT ![w].pc = pc]
        BY <2>1 DEF GoTo
      <3> QED BY <3>1 DEF TypeOK, WorkerState
    <2>3. \A i \in OpIds : Live(i)' <=> Live(i)
      <3>1. mem'[j].st = "running" /\ \A i \in OpIds : i # j => mem'[i] = mem[i]
        BY <1>1, <2>1 DEF TypeOK
      <3>2. Live(j)'
        <4>1. mem'[j].st # "none" /\ mem'[j].st \notin TerminalStatus
          BY <3>1 DEF TerminalStatus
        <4> QED BY <4>1 DEF Live, Exists, Terminal
      <3> QED BY <1>a, <3>1, <3>2 DEF Live, Exists, Terminal
    <2>4. CASE starts' = starts
      BY <2>1, <2>2, <2>3, <2>4, QuietContract
    <2>5. CASE starts' = [starts EXCEPT ![j] = @ + 1]
      <3>2. starts'[j] = 1 /\ \A i \in OpIds : i # j => starts'[i] = starts[i]
        BY <1>a, <2>5 DEF TypeOK
      <3>3. attr[j] # None
        BY <1>0, <1>1 DEF IInv, HeldWellFormed, Fresh
      <3>4. LifeOf(j) = "admitted" /\ LifeOf(j)' = "started"
        BY <1>a, <2>1, <2>3, <3>2, <3>3 DEF LifeOf, OwedIs
      <3>5. \A i \in OpIds : i # j => LifeOf(i)' = LifeOf(i)
        BY <2>1, <2>3, <3>2 DEF LifeOf, OwedIs
      <3>6. \A s \in Targets : Owed(s)' = Owed(s)
        BY <2>1, <2>2, OwedStays
      <3>7. C!CStart(t)
        BY <1>1, <3>4, <3>5, <3>6 DEF C!CStart
      <3> QED BY <3>7 DEF C!CNext
    <2> QED BY <2>1, <2>4, <2>5
  <1> QED BY <1>2, <1>3

(* An admission that commits joins the end of the queue, and one whose     *)
(* save fails is refused for good.                                         *)
LEMMA AdmitContract ==
    ASSUME TypeOK, IInv, OwedIs, OwedIs', NEW c \in Clients, NEW i \in OpIds, Admit(c, i)
    PROVE  C!CNext
  <1>1. PICK t \in Targets : t = client[c].req.target
    BY ConstantsAssumption DEF Admit, TypeOK, Call
  <1>2. /\ Fresh(i) /\ starts' = starts /\ starts[i] = 0 /\ i \notin acked /\ ~Live(i)
        /\ attr'[i] # None /\ \A k \in OpIds : k # i => attr'[k] = attr[k]
    <2>1. attr'[i].created = clock /\ \A k \in OpIds : k # i => attr'[k] = attr[k]
      BY DEF Admit, TypeOK
    <2>2. attr'[i] \in Attr
      <3>1. client[c] \in Call
        BY DEF Admit, TypeOK
      <3>2. clock \in Nat /\ admissionSeq + 1 \in Nat
        BY DEF TypeOK
      <3>3. attr'[i] = [req |-> client[c].req, principal |-> client[c].principal,
                        key |-> client[c].key, retryOf |-> client[c].retryOf,
                        created |-> clock, seq |-> admissionSeq + 1]
        BY DEF Admit, TypeOK
      <3> QED BY <3>1, <3>2, <3>3 DEF Call, Attr
    <2> QED BY <2>1, <2>2, NoneIsNoRecord DEF Admit, IInv, KnownIds, Live, Fresh, targetVars
  <1>3. LifeOf(i) = "new"
    BY <1>2 DEF LifeOf, Fresh
  <1>4. CASE UNCHANGED <<mem, execVars, acked>>
    <2>1. \A k \in OpIds : LifeOf(k)' = IF k = i THEN "refused" ELSE LifeOf(k)
      BY <1>2, <1>4 DEF LifeOf
    <2>2. \A s \in Targets : Owed(s)' = Owed(s)
      BY <1>4, OwedStays DEF execVars
    <2>3. C!CRefuse(i)
      BY <1>3, <2>1, <2>2 DEF C!CRefuse
    <2> QED BY <2>3 DEF C!CNext
  <1>5. CASE /\ mem' = [mem EXCEPT ![i] = [st |-> "queued", rec |-> "nil"]]
             /\ acked' = acked \cup {i} /\ AdmitToTarget(client[c].req.target, i)
    <2>1. \A k \in OpIds : LifeOf(k)' = IF k = i THEN "admitted" ELSE LifeOf(k)
      <3>1. mem'[i].st = "queued" /\ \A k \in OpIds : k # i => mem'[k] = mem[k]
        BY <1>5 DEF TypeOK
      <3> QED BY <1>2, <1>5, <3>1 DEF LifeOf, Status, TerminalStatus
    <2>2. /\ runner'[t].queue = Append(runner[t].queue, i)
          /\ \A s \in Targets : s # t => runner'[s] = runner[s]
      BY <1>1, <1>5 DEF AdmitToTarget, TypeOK
    <2>3. \A v \in Workers : /\ worker'[v].op = worker[v].op
                             /\ worker'[v].target # worker[v].target =>
                                  worker[v] = Idle /\ worker'[v].target = t
      <3>1. \A v \in Workers : worker'[v] = worker[v] \/ (worker[v] = Idle /\ worker'[v] = Looping(t))
        BY <1>1, <1>5 DEF AdmitToTarget, TypeOK
      <3> QED BY <3>1 DEF Looping, Idle
    <2>4. ASSUME NEW s \in Targets, s # t PROVE Owed(s)' = Owed(s)
      <3>1. \A v \in Workers : worker[v].target = s /\ worker[v].op # None <=>
                               worker'[v].target = s /\ worker'[v].op # None
        BY <2>3, <2>4, NoneIsNoId DEF Idle
      <3> QED BY <2>2, <2>3, <2>4, <3>1, OwedStays
    <2>5. Owed(t)' = Append(Owed(t), i)
      <3>1. PICK q \in Seq(OpIds) : q = runner[t].queue
        BY DEF TypeOK
      <3>2. CASE \E v \in Workers : worker[v].target = t /\ worker[v].op # None
        <4>1. PICK v \in Workers : worker[v].target = t /\ worker[v].op # None
          BY <3>2
        <4>2. PICK j \in OpIds : j = worker[v].op
          BY <4>1 DEF TypeOK, WorkerState
        <4>3. worker'[v].target = t /\ worker'[v].op = j /\ j # None
          BY <2>3, <4>1, <4>2
        <4>4. Owed(t) = <<j>> \o q
          BY <3>1, <4>1, <4>2 DEF OwedIs
        <4>5. (Owed(t) = <<worker[v].op>> \o runner[t].queue)'
          BY <4>3 DEF OwedIs
        <4>6. <<j>> \o Append(q, i) = Append(<<j>> \o q, i)
          OBVIOUS
        <4> QED BY <2>2, <3>1, <4>3, <4>4, <4>5, <4>6
      <3>3. CASE \A v \in Workers : worker[v].target = t => worker[v].op = None
        <4>1. \A v \in Workers : worker'[v].target = t => worker'[v].op = None
          BY <2>3, <3>3 DEF Idle
        <4> QED BY <2>2, <3>3, <4>1 DEF OwedIs
      <3> QED BY <3>2, <3>3
    <2>6. \A s \in Targets : Owed(s)' = IF s = t THEN Append(Owed(s), i) ELSE Owed(s)
      BY <2>4, <2>5
    <2>7. C!CAdmit(i, t)
      BY <1>3, <2>1, <2>6 DEF C!CAdmit
    <2> QED BY <2>7 DEF C!CNext
  <1> QED BY <1>4, <1>5 DEF Admit

(* A process end settles what was live and empties every queue.            *)
LEMMA StopContract ==
    ASSUME TypeOK, IInv, OwedIs, OwedIs', LoseMemory
    PROVE  C!CNext
  <1>1. /\ UNCHANGED <<attr, acked, starts>>
        /\ \A i \in OpIds : mem'[i] = Absence
        /\ \A w \in Workers : worker'[w].op = None
        /\ \A t \in Targets : runner'[t].queue = << >>
    BY DEF LoseMemory, Idle, histVars, targetVars
  <1>2. \A i \in OpIds : ~Live(i)'
    BY <1>1 DEF Live, Exists, Absence
  <1>3. \A t \in Targets : Owed(t)' = << >>
    BY <1>1 DEF OwedIs
  <1>4. \A i \in OpIds : LifeOf(i)' = IF LifeOf(i) \in {"admitted", "started"} THEN "settled"
                                      ELSE LifeOf(i)
    <2> SUFFICES ASSUME NEW i \in OpIds
                 PROVE  LifeOf(i)' = IF LifeOf(i) \in {"admitted", "started"} THEN "settled"
                                     ELSE LifeOf(i)
      OBVIOUS
    <2>1. CASE attr[i] = None \/ i \notin acked
      BY <1>1, <2>1 DEF LifeOf, IInv, KnownIds, Fresh
    <2>2. CASE attr[i] # None /\ i \in acked
      <3>1. LifeOf(i) \in {"admitted", "started", "settled"}
        BY <2>2 DEF LifeOf
      <3>2. LifeOf(i)' = "settled"
        BY <1>1, <1>2, <2>2 DEF LifeOf, OwedIs
      <3> QED BY <3>1, <3>2
    <2> QED BY <2>1, <2>2
  <1>5. C!CStop
    BY <1>3, <1>4 DEF C!CStop
  <1> QED BY <1>5 DEF C!CNext

(* A start of the process makes nothing live.                              *)
LEMMA RestartContract ==
    ASSUME TypeOK, TypeOK', IInv, RInv, OwedIs, OwedIs', Restart
    PROVE  UNCHANGED C!cvars
  <1>1. UNCHANGED <<attr, acked, starts, runner, worker>> /\ phase = "down"
    BY DEF Restart, histVars, targetVars, execVars
  <1>2. \A i \in OpIds : ~Live(i)
    BY <1>1 DEF IInv, NothingStranded, Live
  <1>3. ASSUME NEW i \in OpIds PROVE ~Live(i)'
    <2>1. mem'[i] = Absence \/ mem'[i] = Recovered(disk[i])
      BY DEF Restart
    <2>2. disk[i] \in Record \cup {Absence} /\ (Unsettled(disk[i].st) => disk[i].rec = "nil")
      BY DEF TypeOK, RInv, FilesFollow
    <2>3. ~Unsettled(mem'[i].st)
      BY <2>1, <2>2, RecoveredFacts DEF Unsettled, Absence, Status
    <2> QED BY <2>3 DEF OwedIs, Unsettled
  <1> QED BY <1>1, <1>2, <1>3, QuietContract

(* Every step of the manager keeps the contract.                           *)
LEMMA NextContract ==
    ASSUME TypeOK, TypeOK', IInv, IInv', RInv, RInv', Next
    PROVE  C!CNext \/ UNCHANGED C!cvars
  <1> USE DEF recordVars, execVars, cancelVars, reconVars, targetVars, histVars, boundVars
  <1>0. OwedIs /\ OwedIs'
    BY OwedFacts, OwedFactsAfter
  <1>1. CASE UNCHANGED <<attr, acked, starts, runner, mem, worker>>
    <2>1. \A i \in OpIds : Live(i)' <=> Live(i)
      BY <1>1 DEF Live, Exists, Terminal
    <2> QED BY <1>0, <1>1, <2>1, QuietContract
  <1>2. ASSUME NEW c \in Clients, NEW i \in OpIds, Admit(c, i)
        PROVE  C!CNext
    BY <1>0, <1>2, AdmitContract
  <1>3. ASSUME NEW w \in Workers, Pop(w) \/ Drain(w)
        PROVE  UNCHANGED C!cvars
    BY <1>0, <1>3, PopContract, DrainContract
  <1>4. ASSUME NEW w \in Workers, NEW pc, StepOnly(w, pc)
        PROVE  UNCHANGED C!cvars
    <2>1. \A v \in Workers : worker'[v].op = worker[v].op /\ worker'[v].target = worker[v].target
      BY <1>4 DEF StepOnly, GoTo, TypeOK, WorkerState
    <2>2. UNCHANGED <<attr, acked, starts, runner>> /\ \A i \in OpIds : Live(i)' <=> Live(i)
      BY <1>4 DEF StepOnly, Live, Exists, Terminal
    <2> QED BY <1>0, <2>1, <2>2, QuietContract
  <1>5. ASSUME NEW w \in Workers, CheckContext(w) \/ AcquireSlot(w) \/ CheckTarget(w) \/ FailUnsaved(w)
                                  \/ FinishDecided(w) \/ FinishCanceled(w)
        PROVE  C!CNext \/ UNCHANGED C!cvars
    <2>1. worker[w].op # None /\ (worker[w].pc = "decided" => worker[w].out \in {"succeeded", "failed"})
      BY <1>5, HeldFacts DEF CheckContext, AcquireSlot, CheckTarget, FailUnsaved, FinishDecided,
         FinishCanceled, At, IInv, WorkersWellFormed
    <2>2. \/ \E pc \in {"slot", "check", "start"} : StepOnly(w, pc)
          \/ \E st \in TerminalStatus, rec \in Out \cup {"nil"} : Finish(w, st, rec)
      BY <1>5, <2>1 DEF CheckContext, AcquireSlot, CheckTarget, FailUnsaved, FinishDecided,
                  FinishCanceled, TerminalStatus, Out, TypeOK, WorkerState, At
    <2> QED BY <1>0, <1>4, <2>1, <2>2, FinishContract
  <1>6. ASSUME NEW w \in Workers, SetRunning(w)
        PROVE  C!CNext \/ UNCHANGED C!cvars
    BY <1>0, <1>6, StartContract
  <1>7. ASSUME NEW w \in Workers, ExecReturn(w) \/ ReadReceipt(w)
        PROVE  UNCHANGED C!cvars
    <2>1. PICK pc \in Pc, out \in Out \cup {worker[w].out} :
              worker' = [worker EXCEPT ![w].pc = pc, ![w].out = out]
      BY <1>7 DEF ExecReturn, ReadReceipt, ReceiptAnswers, Pc, Out, ReconcileState
    <2>2. \A v \in Workers : worker'[v].op = worker[v].op /\ worker'[v].target = worker[v].target
      BY <2>1 DEF TypeOK, WorkerState
    <2>3. UNCHANGED <<attr, acked, starts, runner>> /\ \A i \in OpIds : Live(i)' <=> Live(i)
      BY <1>7 DEF ExecReturn, ReadReceipt, Live, Exists, Terminal
    <2> QED BY <1>0, <2>2, <2>3, QuietContract
  <1>8. ASSUME NEW w \in Workers, AfterExec(w)
        PROVE  UNCHANGED C!cvars
    <2>1. CASE StepOnly(w, "decided")
      BY <1>4, <2>1
    <2>2. CASE ~StepOnly(w, "decided")
      <3>1. /\ mem' = [mem EXCEPT ![worker[w].op] = [st |-> "stopping", rec |-> "nil"]]
            /\ GoTo(w, "receipt") /\ UNCHANGED <<attr, acked, starts, runner>>
        BY <1>8, <2>2 DEF AfterExec
      <3>2. \A v \in Workers : worker'[v].op = worker[v].op /\ worker'[v].target = worker[v].target
        BY <3>1 DEF GoTo, TypeOK, WorkerState
      <3>3. worker[w].op \in OpIds /\ Live(worker[w].op)
        BY <1>8, HeldFacts DEF AfterExec, At
      <3>4. PICK j \in OpIds : j = worker[w].op
        BY <3>3
      <3>5. mem'[j].st = "stopping" /\ \A i \in OpIds : i # j => mem'[i] = mem[i]
        BY <3>1, <3>4 DEF TypeOK
      <3>6. mem'[j].st # "none" /\ mem'[j].st \notin TerminalStatus
        BY <3>5 DEF TerminalStatus
      <3>7. \A i \in OpIds : Live(i)' <=> Live(i)
        BY <3>3, <3>4, <3>5, <3>6 DEF Live, Exists, Terminal
      <3> QED BY <1>0, <3>1, <3>2, <3>7, QuietContract
    <2> QED BY <2>1, <2>2
  <1>9. ASSUME NEW i \in OpIds, Cancel(i)
        PROVE  UNCHANGED C!cvars
    <2>1. Live(i) /\ UNCHANGED <<attr, acked, starts, runner, worker>>
          /\ (mem' = mem \/ mem' = [mem EXCEPT ![i] = [mem[i] EXCEPT !.st = "cancel_requested"]])
      BY <1>9 DEF Cancel, Cancelable
    <2>2. \A k \in OpIds : Live(k)' <=> Live(k)
      <3>1. CASE mem' = mem
        BY <3>1 DEF Live, Exists, Terminal
      <3>2. CASE mem' = [mem EXCEPT ![i] = [mem[i] EXCEPT !.st = "cancel_requested"]]
        <4>1. \A k \in OpIds : k # i => mem'[k] = mem[k]
          BY <3>2 DEF TypeOK
        <4>2. mem[i] \in Record
          BY <2>1 DEF TypeOK, Live, Exists, Absence
        <4>3. mem'[i].st = "cancel_requested"
          BY <3>2, <4>2 DEF TypeOK, Record
        <4>4. mem'[i].st # "none" /\ mem'[i].st \notin TerminalStatus
          BY <4>3 DEF TerminalStatus
        <4> QED BY <2>1, <4>1, <4>4 DEF Live, Exists, Terminal
      <3> QED BY <2>1, <3>1, <3>2
    <2> QED BY <1>0, <2>1, <2>2, QuietContract
  <1>10. CASE ReconcileRecord
    <2>1. UNCHANGED <<attr, acked, starts, runner, worker>>
      BY <1>10 DEF ReconcileRecord
    <2>2. CASE mem' = mem
      BY <1>1, <2>1, <2>2
    <2>3. CASE mem' # mem
      <3>1. PICK i \in OpIds : i = recon.op
        BY <1>10 DEF ReconcileRecord, TypeOK
      <3>2. /\ mem[i].st = "interrupted"
            /\ mem' = [mem EXCEPT ![i] = [mem[i] EXCEPT !.rec = recon.answer]]
        BY <1>10, <2>3, <3>1 DEF ReconcileRecord, Recordable, Reconciling
      <3>3. mem[i] \in Record
        BY <3>2 DEF TypeOK, Absence
      <3>4. mem'[i].st = "interrupted" /\ \A k \in OpIds : k # i => mem'[k] = mem[k]
        BY <3>2, <3>3 DEF TypeOK, Record
      <3>5. \A k \in OpIds : Live(k)' <=> Live(k)
        BY <3>2, <3>4 DEF Live, Exists, Terminal
      <3> QED BY <1>0, <2>1, <3>5, QuietContract
    <2> QED BY <2>2, <2>3
  <1>11. CASE Retire
    <2>1. /\ UNCHANGED <<attr, acked, starts, runner, worker>>
          /\ \A i \in OpIds : mem'[i] = mem[i] \/ (Terminal(i) /\ mem'[i] = Absence)
      BY <1>11 DEF Retire
    <2>2. \A i \in OpIds : Live(i)' <=> Live(i)
      BY <2>1 DEF Live, Exists, Terminal, Absence
    <2> QED BY <1>0, <2>1, <2>2, QuietContract
  <1>12. CASE ProcessTurns
    <2>1. CASE LoseMemory
      BY <1>0, <2>1, StopContract
    <2>2. CASE Restart
      BY <1>0, <2>2, RestartContract
    <2>3. CASE RestartFails
      BY <1>1, <2>3 DEF RestartFails
    <2> QED BY <1>12, <2>1, <2>2, <2>3 DEF ProcessTurns, Exit, Crash
  <1>13. CASE \/ \E c \in Clients, r \in Requests, p \in Principals, k \in Keys \cup {None} :
                   Enqueue(c, [req |-> r, principal |-> p, key |-> k, retryOf |-> None])
              \/ \E c \in Clients, i \in OpIds, p \in Principals : Retry(c, i, p)
              \/ \E c \in Clients : Refuse(c)
              \/ \E w \in Workers : EffectLands(w)
              \/ \E i \in OpIds : FireCancel(i) \/ ReconcileRead(i)
              \/ ReconcileAbandon \/ Sweep \/ Seal \/ ForceCancel \/ Tick
    BY <1>1, <1>13 DEF Enqueue, Retry, Refuse, EffectLands, FireCancel, ReconcileRead,
       ReconcileAbandon, Sweep, Seal, ForceCancel, Tick
  <1> QED BY <1>2, <1>3, <1>5, <1>6, <1>7, <1>8, <1>9, <1>10, <1>11, <1>12, <1>13
          DEF Next, WorkerStep, ProcessTurns

(* The durable manager implements the contract: per target a FIFO queue of *)
(* admitted operations of which only the head is executed, at most once,   *)
(* whatever is canceled, lost, restarted or retired in between.            *)
THEOREM ManagerKeepsContract == Spec => Contract
  <1>1. Init => C!CInit
    <2> SUFFICES ASSUME Init PROVE C!CInit
      OBVIOUS
    <2>1. \A i \in OpIds : LifeOf(i) = "new"
      BY DEF Init, LifeOf
    <2>2. \A t \in Targets : Owed(t) = << >>
      BY DEF Init, Owed, Holders, Idle
    <2> QED BY <2>1, <2>2 DEF C!CInit
  <1>2. /\ (TypeOK /\ IInv) /\ (TypeOK /\ IInv)' /\ RInv /\ RInv' /\ [Next]_vars
        => [C!CNext]_C!cvars
    <2> SUFFICES ASSUME TypeOK, TypeOK', IInv, IInv', RInv, RInv', [Next]_vars
                 PROVE  C!CNext \/ UNCHANGED C!cvars
      OBVIOUS
    <2>1. CASE Next
      BY <2>1, NextContract
    <2>2. CASE UNCHANGED vars
      <3>1. OwedIs /\ OwedIs'
        BY OwedFacts, OwedFactsAfter
      <3>2. UNCHANGED <<attr, acked, starts, runner, mem, worker>>
        BY <2>2 DEF vars, recordVars, execVars, targetVars, histVars
      <3>3. \A i \in OpIds : Live(i)' <=> Live(i)
        BY <3>2 DEF Live, Exists, Terminal
      <3> QED BY <3>1, <3>2, <3>3, QuietContract
    <2> QED BY <2>1, <2>2
  <1> QED BY <1>1, <1>2, Invariance, RecordsInvariance, PTL DEF Spec, Contract, C!CSpec
=============================================================================
